---------------------------- MODULE SquadBuildProofs ----------------------------
(***************************************************************************)
(* Proofs about the two ways a squad is built, for every value of their    *)
(* constants: the sampler's draws of whole squads, and the free-hit fill   *)
(* of one candidate after another.                                         *)
(***************************************************************************)
EXTENDS SquadSampler, FreeHitSquad, FiniteSums, SequenceTheorems

--------------------------------------------------------------------------------
(* The sampler. *)

Built == {"build", "cap_exceeded", "done"}

(* Nothing is drawn for a build before every pilot has been judged. *)
PilotsFirst ==
  /\ left \in Nat
  /\ pilot \in [Weeks -> Nat]
  /\ pc \in Built => \A w \in Weeks : pilot[w] >= RedLine
  /\ pc \notin Built => stream = <<>> /\ emitted = <<>>

(* The accepted proposals of a batch can be counted. *)
LEMMA HitsCount ==
  ASSUME NEW w, NEW k \in Nat, NEW b, DOMAIN b = 1..k
  PROVE  Cardinality(Hits(w, b)) \in Nat
<1>1. IsFiniteSet(1..k)
  BY FS_Interval
<1>2. Hits(w, b) \subseteq 1..k
  BY DEF Hits
<1>3. IsFiniteSet(Hits(w, b))
  BY <1>1, <1>2, FS_Subset
<1>4. QED
  BY <1>3, FS_CardinalityType

(* A red line in any gameweek stops the whole build before anything is      *)
(* drawn for it: sample_squads judges all the pilots first.                 *)
THEOREM NothingHalfBuilt == Spec => []RedLineBuildsNothing
<1>1. Init => PilotsFirst
  BY SamplerAssumption DEF Init, PilotsFirst, Built
<1>2. PilotsFirst /\ [Next]_vars => PilotsFirst'
  <2> SUFFICES ASSUME PilotsFirst, [Next]_vars PROVE PilotsFirst'
    OBVIOUS
  <2>1. CASE BuildUniverses
    <3>1. pc = "universes" /\ pc' \in {"pilot", "empty_universe"}
      BY <2>1 DEF BuildUniverses
    <3>2. UNCHANGED <<left, pilot, stream, emitted>>
      BY <2>1 DEF BuildUniverses
    <3>3. QED
      BY <3>1, <3>2 DEF PilotsFirst, Built
  <2>2. CASE PilotBatch
    <3> DEFINE size == IF Batch < left THEN Batch ELSE left
    <3>1. PICK b \in [1..size -> Proposals(week)] :
            /\ pilot' = [pilot EXCEPT ![week] = @ + Cardinality(Hits(week, b))]
            /\ left' = left - size
      BY <2>2 DEF PilotBatch
    <3>2. size \in Nat /\ left - size \in Nat
      <4>1. Batch \in Nat /\ left \in Nat
        BY SamplerAssumption DEF PilotsFirst
      <4>2. QED
        BY <4>1
    <3>3. Cardinality(Hits(week, b)) \in Nat
      BY <3>2, HitsCount DEF PilotsFirst
    <3>4. pc = "pilot" /\ UNCHANGED <<pc, stream, emitted>>
      BY <2>2 DEF PilotBatch
    <3>5. left' \in Nat
      BY <3>1, <3>2
    <3>6. pilot' \in [Weeks -> Nat]
      <4> DEFINE more == pilot[week] + Cardinality(Hits(week, b))
      <4>1. week \in Weeks => more \in Nat
        BY <3>3 DEF PilotsFirst
      <4>2. pilot' = [pilot EXCEPT ![week] = more]
        BY <3>1
      <4> HIDE DEF more
      <4>3. QED
        BY <4>1, <4>2 DEF PilotsFirst
    <3>7. QED
      BY <3>4, <3>5, <3>6 DEF PilotsFirst, Built
  <2>3. CASE NextPilot
    BY <2>3, SamplerAssumption DEF NextPilot, PilotsFirst, Built
  <2>4. CASE Ladder
    <3>1. pc = "ladder" /\ UNCHANGED <<left, pilot, stream, emitted>>
      BY <2>4 DEF Ladder
    <3>2. pc' = "red_line" \/ (pc' = "build" /\ \A w \in Weeks : ~(pilot[w] < RedLine))
      BY <2>4 DEF Ladder, AnyIsRed
    <3>3. \A w \in Weeks : ~(pilot[w] < RedLine) => pilot[w] >= RedLine
      <4>1. RedLine \in Nat /\ pilot \in [Weeks -> Nat]
        BY SamplerAssumption DEF PilotsFirst
      <4>2. QED
        BY <4>1
    <3>4. QED
      BY <3>1, <3>2, <3>3 DEF PilotsFirst, Built
  <2>5. CASE CapExceeded
    BY <2>5 DEF CapExceeded, PilotsFirst, Built
  <2>6. CASE BuildBatch
    BY <2>6 DEF BuildBatch, PilotsFirst, Built
  <2>7. CASE FinishWeek
    BY <2>7 DEF FinishWeek, PilotsFirst, Built
  <2>8. CASE UNCHANGED vars
    BY <2>8 DEF vars, PilotsFirst, Built
  <2>9. QED
    BY <2>1, <2>2, <2>3, <2>4, <2>5, <2>6, <2>7, <2>8 DEF Next
<1>3. PilotsFirst => RedLineBuildsNothing
  BY DEF PilotsFirst, RedLineBuildsNothing
<1>4. QED
  BY <1>1, <1>2, <1>3, PTL DEF Spec

--------------------------------------------------------------------------------
(* While a week wants squads, everything drawn for it has been counted, so  *)
(* the test against the cap is a test of what was drawn.                    *)
AllCounted ==
  /\ \E S : kept \in Seq(S)
  /\ \E S : stream \in Seq(S)
  /\ Len(kept) < NSquads => counted = Len(stream)
  /\ CapRespected

(* A batch that leaves the week short took every accepted proposal. *)
LEMMA TakenLength ==
  ASSUME NEW w, NEW b, DOMAIN b = 1..Batch, NEW needed \in Nat
  PROVE  LET n == Cardinality(Hits(w, b))
             t == Taken(w, b, needed) IN
           /\ n \in Nat
           /\ DOMAIN t = 1..(IF needed < n THEN needed ELSE n)
<1> DEFINE n == Cardinality(Hits(w, b))
           h == InOrder(Hits(w, b))
           m == IF needed < n THEN needed ELSE n
<1>1. n \in Nat
  BY SamplerAssumption, HitsCount
<1>2. m \in Nat
  BY <1>1
<1>3. Taken(w, b, needed) = SubSeq(h, 1, m)
  BY DEF Taken
<1>4. DOMAIN SubSeq(h, 1, m) = 1..m
  <2> HIDE DEF m, h
  <2> DEFINE R == {h[i] : i \in 1..m}
  <2>1. \A i \in 1..m : h[i] \in R
    OBVIOUS
  <2> HIDE DEF R
  <2>2. SubSeq(h, 1, m) \in Seq(R) /\ Len(SubSeq(h, 1, m)) = IF 1 <= m THEN m - 1 + 1 ELSE 0
    BY <1>2, <2>1, SubSeqProperties
  <2>3. Len(SubSeq(h, 1, m)) = m
    BY <1>2, <2>2
  <2>4. QED
    BY <2>2, <2>3, LenProperties
<1>5. QED
  BY <1>1, <1>3, <1>4

LEMMA AllAreCounted == Spec => []AllCounted
<1>1. Init => AllCounted
  <2> SUFFICES ASSUME Init PROVE AllCounted
    OBVIOUS
  <2>1. kept = <<>> /\ stream = <<>> /\ counted = 0
    BY DEF Init
  <2>2. kept \in Seq({}) /\ stream \in Seq({}) /\ Len(stream) = 0
    BY <2>1
  <2>3. QED
    BY <2>1, <2>2 DEF AllCounted, CapRespected
<1>2. AllCounted /\ [Next]_vars => AllCounted'
  <2> SUFFICES ASSUME AllCounted, [Next]_vars PROVE AllCounted'
    OBVIOUS
  <2>1. ASSUME UNCHANGED <<kept, counted, stream>> PROVE AllCounted'
    BY <2>1 DEF AllCounted, CapRespected
  <2>2. CASE BuildUniverses
    BY <2>1, <2>2 DEF BuildUniverses
  <2>3. CASE PilotBatch
    BY <2>1, <2>3 DEF PilotBatch
  <2>4. CASE NextPilot
    BY <2>1, <2>4 DEF NextPilot
  <2>5. CASE Ladder
    BY <2>1, <2>5 DEF Ladder
  <2>6. CASE CapExceeded
    BY <2>1, <2>6 DEF CapExceeded
  <2>7. CASE UNCHANGED vars
    BY <2>1, <2>7 DEF vars
  <2>8. CASE FinishWeek
    <3>1. kept' = <<>> /\ stream' = <<>> /\ counted' = 0
      BY <2>8 DEF FinishWeek
    <3>2. kept' \in Seq({}) /\ stream' \in Seq({}) /\ Len(stream') = 0
      BY <3>1
    <3>3. QED
      BY <3>1, <3>2 DEF AllCounted, CapRespected
  <2>9. CASE BuildBatch
    <3> DEFINE needed == NSquads - Len(kept)
    <3>1. PICK b \in [1..Batch -> Proposals(week)] :
            LET t == Taken(week, b, needed) IN
              /\ kept' = kept \o [i \in DOMAIN t |-> b[t[i]]]
              /\ counted' = counted + Counts(week, b, needed)
              /\ stream' = stream \o b
      BY <2>9 DEF BuildBatch
    <3> DEFINE t == Taken(week, b, needed)
               n == Cardinality(Hits(week, b))
               m == IF needed < n THEN needed ELSE n
               c == [i \in 1..m |-> b[t[i]]]
    <3>2. Len(kept) < NSquads /\ ~OverCap
      BY <2>9 DEF BuildBatch
    <3>3. PICK S : kept \in Seq(S)
      BY DEF AllCounted
    <3>4. PICK T : stream \in Seq(T)
      BY DEF AllCounted
    <3>5. needed \in Nat \ {0} /\ Batch \in Nat \ {0}
      BY <3>2, <3>3, LenProperties, SamplerAssumption
    <3>6. n \in Nat /\ DOMAIN t = 1..m
      BY <3>5, TakenLength
    <3>7. m \in Nat /\ (m < needed => n < needed)
      BY <3>5, <3>6
    <3>8. kept' = kept \o c
      BY <3>1, <3>6
    <3>9. \E X : kept' \in Seq(X) /\ Len(kept') = Len(kept) + m
      <4> HIDE DEF m, t
      <4> DEFINE X == S \cup {c[i] : i \in 1..m}
      <4>1. c \in [1..m -> X]
        OBVIOUS
      <4>2. S \subseteq X
        OBVIOUS
      <4> HIDE DEF c, X
      <4>3. c \in Seq(X) /\ Len(c) = m
        BY <3>7, <4>1, IsASeq, LenProperties
      <4>4. kept \in Seq(X)
        BY <3>3, <4>2
      <4>5. QED
        BY <3>8, <4>3, <4>4, ConcatProperties
    <3>10. \E X : stream' \in Seq(X) /\ Len(stream') = Len(stream) + Batch
      <4> DEFINE X == T \cup Proposals(week)
      <4> HIDE DEF X
      <4>1. b \in [1..Batch -> X]
        BY DEF X
      <4>2. b \in Seq(X) /\ Len(b) = Batch
        BY <3>5, <4>1, IsASeq, LenProperties
      <4>3. stream \in Seq(X)
        BY <3>4 DEF X
      <4>4. QED
        BY <3>1, <4>2, <4>3, ConcatProperties
    <3>11. counted = Len(stream) /\ Len(stream) \in Nat /\ Len(kept) \in Nat
      BY <3>2, <3>3, <3>4, LenProperties DEF AllCounted
    <3>12. Len(kept') < NSquads => counted' = Len(stream')
      <4> SUFFICES ASSUME Len(kept') < NSquads PROVE counted' = Len(stream')
        OBVIOUS
      <4>1. n < needed
        <5> HIDE DEF m
        <5>1. m < needed
          BY <3>9, <3>11, <3>7, SamplerAssumption
        <5>2. QED
          BY <5>1, <3>7
      <4>2. Counts(week, b, needed) = Batch
        BY <4>1, <3>5, <3>6 DEF Counts
      <4>3. QED
        BY <4>2, <3>1, <3>10, <3>11
    <3>13. CapRespected'
      BY <3>2, <3>5, <3>10, <3>11, SamplerAssumption DEF OverCap, CapRespected
    <3>14. QED
      BY <3>9, <3>10, <3>12, <3>13 DEF AllCounted
  <2>10. QED
    BY <2>2, <2>3, <2>4, <2>5, <2>6, <2>7, <2>8, <2>9 DEF Next
<1>3. QED
  BY <1>1, <1>2, PTL DEF Spec

(* No gameweek draws past its cap, whatever the frames, the modes and the   *)
(* sizes of batches and squads (sampler.py:363).                            *)
THEOREM CapsHold == Spec => []CapRespected
<1>1. AllCounted => CapRespected
  BY DEF AllCounted
<1>2. QED
  BY <1>1, AllAreCounted, PTL

--------------------------------------------------------------------------------
(* Counting in order: the k-th smallest of a finite set. *)
LEMMA FewestFirst ==
  ASSUME NEW S, IsFiniteSet(S), NEW B \in SUBSET SUBSET S, B # {}
  PROVE  \E T \in B : \A U \in B : U \subseteq T => U = T
<1>1. \A T \in B : IsFiniteSet(T)
  BY FS_Subset
<1>2. B \subseteq FiniteSubsetsOf(S)
  BY <1>1 DEF FiniteSubsetsOf
<1>3. PICK T \in B : \A U \in B : <<U, T>> \notin StrictSubsetOrdering(S)
  BY <1>2, FS_StrictSubsetOrderingWellFounded, WFMin
<1>4. \A U \in B : U \subseteq T => U = T
  BY <1>3 DEF StrictSubsetOrdering
<1> QED
  BY <1>4

Ranked(S, key) == IsFiniteSet(S) /\ \A x \in S : key[x] \in Int

LEMMA LowestKey ==
  ASSUME NEW S, NEW key, Ranked(S, key), S # {}
  PROVE  \E x \in S : \A y \in S : key[x] <= key[y]
<1> DEFINE Down(x) == {y \in S : key[y] <= key[x]}
           B == {Down(x) : x \in S}
<1>1. B \in SUBSET SUBSET S /\ B # {}
  OBVIOUS
<1>2. PICK T \in B : \A U \in B : U \subseteq T => U = T
  <2> HIDE DEF B
  <2> QED
    BY <1>1, FewestFirst DEF Ranked
<1>3. PICK x \in S : T = Down(x)
  OBVIOUS
<1>4. ASSUME NEW y \in S, key[y] < key[x] PROVE FALSE
  <2>1. Down(y) \subseteq Down(x)
    BY <1>4 DEF Ranked
  <2>2. x \in Down(x) /\ x \notin Down(y)
    BY <1>4 DEF Ranked
  <2>3. Down(y) \in B
    OBVIOUS
  <2> HIDE DEF Down, B
  <2> QED
    BY <1>2, <1>3, <2>1, <2>2, <2>3
<1> QED
  BY <1>4 DEF Ranked

LEMMA HighestKey ==
  ASSUME NEW S, NEW key, Ranked(S, key), S # {}
  PROVE  \E x \in S : \A y \in S : key[y] <= key[x]
<1> DEFINE neg == [x \in S |-> -key[x]]
<1>1. Ranked(S, neg)
  BY DEF Ranked
<1>2. PICK x \in S : \A y \in S : neg[x] <= neg[y]
  <2> HIDE DEF neg
  <2> QED
    BY <1>1, LowestKey
<1>3. \A y \in S : key[y] <= key[x]
  BY <1>2 DEF Ranked
<1> QED
  BY <1>3

Lower(S, key, c) == {y \in S : key[y] < c}
NoHigher(S, key, c) == {y \in S : key[y] <= c}

LEMMA KeysCount ==
  ASSUME NEW S, NEW key, Ranked(S, key), NEW c
  PROVE  /\ IsFiniteSet(Lower(S, key, c)) /\ IsFiniteSet(NoHigher(S, key, c))
         /\ Cardinality(Lower(S, key, c)) \in Nat /\ Cardinality(NoHigher(S, key, c)) \in Nat
         /\ Cardinality(S) \in Nat
BY FS_Subset, FS_CardinalityType DEF Lower, NoHigher, Ranked

(* Every place but the last is taken by some key. *)
LEMMA SomeKth ==
  ASSUME NEW S, NEW key, Ranked(S, key), NEW k \in 1..Cardinality(S)
  PROVE  \E x \in S : /\ Cardinality(Lower(S, key, key[x])) < k
                      /\ k <= Cardinality(NoHigher(S, key, key[x]))
<1> DEFINE B == {x \in S : k <= Cardinality(NoHigher(S, key, key[x]))}
<1>1. S # {} /\ k \in Nat /\ k >= 1 /\ k <= Cardinality(S)
  BY KeysCount, FS_EmptySet
<1>2. B # {}
  <2>1. PICK x \in S : \A y \in S : key[y] <= key[x]
    BY <1>1, HighestKey
  <2>2. NoHigher(S, key, key[x]) = S
    BY <2>1 DEF NoHigher
  <2> QED
    BY <1>1, <2>2
<1>3. Ranked(B, key)
  BY FS_Subset DEF Ranked
<1>4. PICK x \in B : \A y \in B : key[x] <= key[y]
  <2> HIDE DEF B
  <2> QED
    BY <1>2, <1>3, LowestKey
<1>5. ASSUME ~(Cardinality(Lower(S, key, key[x])) < k) PROVE FALSE
  <2> DEFINE low == Lower(S, key, key[x])
  <2>1. Cardinality(low) \in Nat /\ Cardinality(low) >= k
    BY <1>1, <1>5, KeysCount
  <2>2. low # {}
    <3> HIDE DEF low
    <3> QED
      BY <1>1, <2>1, FS_EmptySet
  <2>3. Ranked(low, key)
    <3>1. IsFiniteSet(low)
      BY KeysCount
    <3>2. \A z \in low : key[z] \in Int
      BY DEF Lower, Ranked
    <3> QED
      BY <3>1, <3>2 DEF Ranked
  <2>4. PICK z \in low : \A y \in low : key[y] <= key[z]
    <3> HIDE DEF low
    <3> QED
      BY <2>2, <2>3, HighestKey
  <2>5. \A y \in S : key[y] < key[x] <=> key[y] <= key[z]
    BY <2>4 DEF Lower, Ranked
  <2>6. low = NoHigher(S, key, key[z])
    BY <2>5 DEF Lower, NoHigher
  <2>7. z \in B /\ key[z] < key[x]
    BY <2>1, <2>4, <2>6, <1>1 DEF Lower
  <2>8. key[x] <= key[z] /\ key[x] \in Int /\ key[z] \in Int
    BY <1>4, <2>7 DEF Ranked
  <2> QED
    BY <2>7, <2>8
<1> QED
  BY <1>4, <1>5

(* Of two keys the lower one has all its places before the other. *)
LEMMA KeysApart ==
  ASSUME NEW S, NEW key, Ranked(S, key), NEW c \in Int, NEW d \in Int, c < d
  PROVE  Cardinality(NoHigher(S, key, c)) <= Cardinality(Lower(S, key, d))
<1>1. NoHigher(S, key, c) \in SUBSET Lower(S, key, d)
  BY DEF NoHigher, Lower, Ranked
<1> QED
  BY <1>1, KeysCount, FS_Subset

LEMMA KeyPlaces ==
  ASSUME NEW S, NEW key, Ranked(S, key), NEW c
  PROVE  /\ IsFiniteSet({y \in S : key[y] = c}) /\ Cardinality({y \in S : key[y] = c}) \in Nat
         /\ c \in Int => Cardinality(NoHigher(S, key, c))
                           = Cardinality(Lower(S, key, c)) + Cardinality({y \in S : key[y] = c})
<1> DEFINE same == {y \in S : key[y] = c}
<1>1. IsFiniteSet(same) /\ Cardinality(same) \in Nat
  BY FS_Subset, FS_CardinalityType DEF Ranked
<1>2. ASSUME c \in Int
      PROVE  NoHigher(S, key, c) = Lower(S, key, c) \cup same /\ Lower(S, key, c) \cap same = {}
  BY <1>2 DEF NoHigher, Lower, Ranked
<1>3. ASSUME c \in Int
      PROVE  Cardinality(NoHigher(S, key, c)) = Cardinality(Lower(S, key, c)) + Cardinality(same)
  <2>1. /\ NoHigher(S, key, c) = Lower(S, key, c) \cup same /\ Lower(S, key, c) \cap same = {}
        /\ IsFiniteSet(Lower(S, key, c)) /\ Cardinality(Lower(S, key, c)) \in Nat
    BY <1>2, <1>3, KeysCount
  <2> HIDE DEF same
  <2>2. Cardinality(Lower(S, key, c) \cup same)
          = Cardinality(Lower(S, key, c)) + Cardinality(same) - Cardinality(Lower(S, key, c) \cap same)
    BY <1>1, <2>1, FS_Union
  <2>3. Cardinality(Lower(S, key, c) \cap same) = 0
    BY <2>1, FS_EmptySet
  <2> QED
    BY <1>1, <2>1, <2>2, <2>3
<1> QED
  BY <1>1, <1>3

--------------------------------------------------------------------------------
(* The club test on the sorted row is the club limit (sampler.py:318). *)
ClubsHeld(w, S) ==
  \A x \in S : Cardinality({y \in S : frame.club[w][y] = frame.club[w][x]}) <= MaxPerClub

LEMMA SortedClub ==
  ASSUME NEW w, NEW S, Ranked(S, frame.club[w]), NEW k \in 1..Cardinality(S)
  PROVE  LET key == frame.club[w]
             c == SortedClubs(w, S)[k] IN
           /\ \E x \in S : c = key[x]
           /\ Cardinality(Lower(S, key, c)) < k /\ k <= Cardinality(NoHigher(S, key, c))
<1> DEFINE key == frame.club[w]
           is(c) == Cardinality(Lower(S, key, c)) < k /\ k <= Cardinality(NoHigher(S, key, c))
           d == CHOOSE c \in {key[x] : x \in S} : is(c)
<1>1. SortedClubs(w, S)[k] = d
  BY DEF SortedClubs, Lower, NoHigher
<1>2. PICK x \in S : is(key[x])
  <2> HIDE DEF key
  <2> QED
    BY SomeKth DEF key
<1>3. d \in {key[y] : y \in S} /\ is(d)
  <2> HIDE DEF is
  <2> QED
    BY <1>2
<1> HIDE DEF d
<1> QED
  BY <1>1, <1>3

(* A club's places in the sorted row. *)
LEMMA ClubAt ==
  ASSUME NEW w, NEW S, Ranked(S, frame.club[w]), NEW k \in 1..Cardinality(S), NEW c \in Int,
         Cardinality(Lower(S, frame.club[w], c)) < k, k <= Cardinality(NoHigher(S, frame.club[w], c))
  PROVE  SortedClubs(w, S)[k] = c
<1> DEFINE key == frame.club[w]
           d == SortedClubs(w, S)[k]
<1>1. /\ \E x \in S : d = key[x]
      /\ Cardinality(Lower(S, key, d)) < k /\ k <= Cardinality(NoHigher(S, key, d))
  BY SortedClub
<1> HIDE DEF d, key
<1>2. d \in Int /\ Ranked(S, key)
  BY <1>1 DEF Ranked, key
<1>3. /\ Cardinality(Lower(S, key, c)) \in Nat /\ Cardinality(NoHigher(S, key, c)) \in Nat
      /\ Cardinality(Lower(S, key, d)) \in Nat /\ Cardinality(NoHigher(S, key, d)) \in Nat
  BY <1>2, KeysCount
<1>4. ~(c < d)
  <2> SUFFICES ASSUME c < d PROVE FALSE
    OBVIOUS
  <2>1. Cardinality(NoHigher(S, key, c)) <= Cardinality(Lower(S, key, d))
    BY <1>2, KeysApart
  <2> QED
    BY <1>1, <1>3, <2>1 DEF key
<1>5. ~(d < c)
  <2> SUFFICES ASSUME d < c PROVE FALSE
    OBVIOUS
  <2>1. Cardinality(NoHigher(S, key, d)) <= Cardinality(Lower(S, key, c))
    BY <1>2, KeysApart
  <2> QED
    BY <1>1, <1>3, <2>1 DEF key
<1> QED
  BY <1>2, <1>4, <1>5 DEF d

LEMMA ClubTest ==
  ASSUME NEW w, NEW S, Ranked(S, frame.club[w])
  PROVE  (\A j \in 1..(Cardinality(S) - MaxPerClub) : SortedClubs(w, S)[j + MaxPerClub] # SortedClubs(w, S)[j])
           <=> ClubsHeld(w, S)
<1> DEFINE key == frame.club[w]
           n == Cardinality(S)
           s == SortedClubs(w, S)
           of(c) == {y \in S : key[y] = c}
           lo(c) == Cardinality(Lower(S, key, c))
           hi(c) == Cardinality(NoHigher(S, key, c))
<1>1. n \in Nat /\ MaxPerClub \in Nat \ {0}
  BY KeysCount, RulesAssumption
<1>2. \A x \in S : key[x] \in Int
  BY DEF Ranked
<1>3. \A x \in S : /\ lo(key[x]) \in Nat /\ hi(key[x]) \in Nat /\ hi(key[x]) <= n
                   /\ Cardinality(of(key[x])) \in Nat
                   /\ hi(key[x]) = lo(key[x]) + Cardinality(of(key[x]))
  <2> TAKE x \in S
  <2>1. NoHigher(S, key, key[x]) \in SUBSET S
    BY DEF NoHigher
  <2>2. hi(key[x]) <= n
    BY <2>1, FS_Subset DEF Ranked
  <2>3. lo(key[x]) \in Nat /\ hi(key[x]) \in Nat
    BY KeysCount
  <2> QED
    BY <1>2, <2>2, <2>3, KeyPlaces
<1>4. ASSUME NEW j \in 1..(n - MaxPerClub), s[j + MaxPerClub] = s[j], ClubsHeld(w, S) PROVE FALSE
  <2>1. j \in 1..n /\ j + MaxPerClub \in 1..n
    BY <1>1, <1>4
  <2>2. PICK x \in S : s[j] = key[x]
    BY <2>1, SortedClub
  <2>3. lo(key[x]) < j /\ j + MaxPerClub <= hi(key[x])
    <3>1. Cardinality(Lower(S, key, s[j])) < j
      BY <2>1, SortedClub
    <3>2. j + MaxPerClub <= Cardinality(NoHigher(S, key, s[j + MaxPerClub]))
      BY <2>1, SortedClub
    <3> HIDE DEF s
    <3> QED
      BY <1>4, <2>2, <3>1, <3>2
  <2>4. Cardinality(of(key[x])) <= MaxPerClub
    BY <1>4 DEF ClubsHeld
  <2> DEFINE l == lo(key[x])
             h == hi(key[x])
             m == Cardinality(of(key[x]))
  <2>5. l \in Nat /\ h \in Nat /\ m \in Nat /\ h = l + m
    BY <1>3
  <2>6. l < j /\ j + MaxPerClub <= h /\ m <= MaxPerClub
    BY <2>3, <2>4
  <2> HIDE DEF l, h, m
  <2> QED
    BY <1>1, <2>1, <2>5, <2>6
<1>5. ASSUME NEW x \in S, ~(Cardinality(of(key[x])) <= MaxPerClub)
      PROVE  \E j \in 1..(n - MaxPerClub) : s[j + MaxPerClub] = s[j]
  <2> DEFINE c == key[x]
             j == lo(c) + 1
             l == lo(c)
             h == hi(c)
             m == Cardinality(of(c))
  <2>1. l \in Nat /\ h \in Nat /\ m \in Nat /\ h = l + m /\ h <= n /\ m > MaxPerClub
    BY <1>1, <1>3, <1>5
  <2>2. j = l + 1
    OBVIOUS
  <2> HIDE DEF l, h, m, j, n
  <2>3. /\ j \in 1..(n - MaxPerClub) /\ j \in 1..n /\ j + MaxPerClub \in 1..n
        /\ l < j /\ j <= h /\ l < j + MaxPerClub /\ j + MaxPerClub <= h
    BY <1>1, <2>1, <2>2
  <2>4. c \in Int
    BY <1>2
  <2>5. s[j] = c /\ s[j + MaxPerClub] = c
    <3>1. \A k \in 1..Cardinality(S) :
            Cardinality(Lower(S, key, c)) < k /\ k <= Cardinality(NoHigher(S, key, c)) => SortedClubs(w, S)[k] = c
      <4> HIDE DEF c
      <4> QED
        BY <2>4, ClubAt
    <3> QED
      BY <2>3, <3>1 DEF n, l, h
  <2> QED
    BY <2>3, <2>5
<1> HIDE DEF s, n
<1>6. (\A j \in 1..(n - MaxPerClub) : s[j + MaxPerClub] # s[j]) <=> \A x \in S : Cardinality(of(key[x])) <= MaxPerClub
  <2>1. ASSUME \A j \in 1..(n - MaxPerClub) : s[j + MaxPerClub] # s[j]
        PROVE  \A x \in S : Cardinality(of(key[x])) <= MaxPerClub
    BY <1>5, <2>1
  <2>2. ASSUME \A x \in S : Cardinality(of(key[x])) <= MaxPerClub
        PROVE  \A j \in 1..(n - MaxPerClub) : s[j + MaxPerClub] # s[j]
    BY <1>4, <2>2 DEF ClubsHeld
  <2> QED
    BY <2>1, <2>2
<1> QED
  BY <1>6 DEF ClubsHeld, s, n

(* The proposals a batch's test lets through are those of F_g: quotas and    *)
(* registration hold by construction.                                        *)
LEMMA FeasibleIsInF ==
  ASSUME frame \in Frames, NEW w \in Weeks, NEW S \in Proposals(w)
  PROVE  Feasible(w, S) <=> InF(w, S)
<1>1. /\ S \subseteq Universe(w) /\ S \subseteq Players
      /\ mode = "ownership" => S \subseteq frame.owned[w]
      /\ \A p \in Positions : Cardinality(At(S, p)) = Quota[p]
  BY DEF Proposals, Drawable, Universe
<1>2. \A x \in S : frame.entry[x] <= w
  BY <1>1 DEF Universe
<1>3. Ranked(S, frame.club[w])
  <2>1. frame.club \in [Weeks -> [Players -> Int]] /\ IsFiniteSet(Players)
    BY RulesAssumption, SamplerAssumption
  <2>2. IsFiniteSet(S)
    BY <1>1, <2>1, FS_Subset
  <2> QED
    BY <1>1, <2>1, <2>2 DEF Ranked
<1>4. (\A j \in 1..(Cardinality(S) - MaxPerClub) : SortedClubs(w, S)[j + MaxPerClub] # SortedClubs(w, S)[j])
        <=> ClubsHeld(w, S)
  BY <1>3, ClubTest
<1>5. Feasible(w, S) <=> SumFunctionOnSet(frame.price[w], S) <= Budget /\ ClubsHeld(w, S)
  BY <1>4 DEF Feasible, WithinBudget
<1>6. InF(w, S) <=> SumFunctionOnSet(frame.price[w], S) <= Budget /\ ClubsHeld(w, S)
  BY <1>1, <1>2 DEF InF, ClubsHeld
<1> QED
  BY <1>5, <1>6

--------------------------------------------------------------------------------
(* Rows in order (np.flatnonzero). *)
Rows(R) == IsFiniteSet(R) /\ \A i \in R : i \in Int

LEMMA RowRanks ==
  ASSUME NEW R, Rows(R)
  PROVE  /\ Cardinality(R) \in Nat
         /\ \A i \in R : Cardinality(UpTo(R, i)) \in 1..Cardinality(R)
         /\ \A i, j \in R : Cardinality(UpTo(R, i)) = Cardinality(UpTo(R, j)) => i = j
<1>1. Cardinality(R) \in Nat
  BY FS_CardinalityType DEF Rows
<1>2. ASSUME NEW i \in R PROVE IsFiniteSet(UpTo(R, i)) /\ Cardinality(UpTo(R, i)) \in 1..Cardinality(R)
  <2>1. UpTo(R, i) \in SUBSET R /\ i \in UpTo(R, i)
    BY DEF UpTo, Rows
  <2>2. IsFiniteSet(UpTo(R, i)) /\ Cardinality(UpTo(R, i)) <= Cardinality(R)
    BY <2>1, FS_Subset DEF Rows
  <2>3. Cardinality(UpTo(R, i)) \in Nat /\ Cardinality(UpTo(R, i)) # 0
    BY <2>1, <2>2, FS_CardinalityType, FS_EmptySet
  <2> QED
    BY <1>1, <2>2, <2>3
<1>3. ASSUME NEW i \in R, NEW j \in R, i < j PROVE Cardinality(UpTo(R, i)) # Cardinality(UpTo(R, j))
  <2>1. UpTo(R, i) \in SUBSET UpTo(R, j) /\ j \in UpTo(R, j) /\ j \notin UpTo(R, i)
    BY <1>3 DEF UpTo, Rows
  <2> QED
    BY <1>2, <2>1, FS_Subset
<1>4. \A i, j \in R : i < j \/ j < i \/ i = j
  BY DEF Rows
<1> QED
  BY <1>1, <1>2, <1>3, <1>4

LEMMA InOrderRows ==
  ASSUME NEW R, Rows(R)
  PROVE  /\ Cardinality(R) \in Nat /\ DOMAIN InOrder(R) = 1..Cardinality(R)
         /\ InOrder(R) \in Seq(R) /\ Len(InOrder(R)) = Cardinality(R)
         /\ \A k \in 1..Cardinality(R) :
              InOrder(R)[k] \in R /\ Cardinality(UpTo(R, InOrder(R)[k])) = k
<1>1. Cardinality(R) \in Nat
  BY RowRanks
<1>2. ASSUME NEW k \in 1..Cardinality(R) PROVE \E i \in R : Cardinality(UpTo(R, i)) = k
  <2> DEFINE key == [i \in R |-> i]
  <2>1. Ranked(R, key)
    BY DEF Ranked, Rows
  <2>2. PICK i \in R : /\ Cardinality(Lower(R, key, key[i])) < k
                       /\ k <= Cardinality(NoHigher(R, key, key[i]))
    <3> HIDE DEF key
    <3> QED
      BY <2>1, SomeKth
  <2>3. NoHigher(R, key, key[i]) = UpTo(R, i)
    BY DEF NoHigher, UpTo
  <2>4. {y \in R : key[y] = key[i]} = {i}
    OBVIOUS
  <2>5. Cardinality(UpTo(R, i)) = Cardinality(Lower(R, key, key[i])) + 1
    <3>1. key[i] \in Int
      BY DEF Rows
    <3>2. Cardinality(NoHigher(R, key, key[i]))
            = Cardinality(Lower(R, key, key[i])) + Cardinality({y \in R : key[y] = key[i]})
      <4> HIDE DEF key
      <4> QED
        BY <2>1, <3>1, KeyPlaces
    <3>3. Cardinality({i}) = 1
      BY FS_Singleton
    <3> QED
      BY <2>3, <2>4, <3>2, <3>3
  <2>6. Cardinality(Lower(R, key, key[i])) \in Nat
    <3> HIDE DEF key
    <3> QED
      BY <2>1, KeysCount
  <2> DEFINE l == Cardinality(Lower(R, key, key[i]))
             u == Cardinality(UpTo(R, i))
  <2>7. l \in Nat /\ u = l + 1 /\ l < k /\ k <= u
    BY <2>2, <2>3, <2>5, <2>6
  <2> HIDE DEF l, u
  <2>8. u = k
    BY <1>1, <2>7
  <2> QED
    BY <2>8 DEF u
<1>3. InOrder(R) = [k \in 1..Cardinality(R) |-> CHOOSE i \in R : Cardinality(UpTo(R, i)) = k]
  BY DEF InOrder
<1>4. \A k \in 1..Cardinality(R) : InOrder(R)[k] \in R /\ Cardinality(UpTo(R, InOrder(R)[k])) = k
  <2> TAKE k \in 1..Cardinality(R)
  <2>1. InOrder(R)[k] = CHOOSE i \in R : Cardinality(UpTo(R, i)) = k
    BY <1>3
  <2> QED
    BY <1>2, <2>1
<1>5. InOrder(R) \in [1..Cardinality(R) -> R]
  BY <1>3, <1>4
<1>6. InOrder(R) \in Seq(R) /\ Len(InOrder(R)) = Cardinality(R) /\ DOMAIN InOrder(R) = 1..Cardinality(R)
  <2> DEFINE o == InOrder(R)
  <2>1. o \in [1..Cardinality(R) -> R]
    BY <1>5
  <2> HIDE DEF o
  <2>2. o \in Seq(R) /\ Len(o) = Cardinality(R) /\ DOMAIN o = 1..Cardinality(R)
    BY <1>1, <2>1
  <2> QED
    BY <2>2 DEF o
<1> QED
  BY <1>1, <1>4, <1>6

(* A row's place is the number of rows up to it. *)
LEMMA PlaceOfRow ==
  ASSUME NEW R, Rows(R), NEW i \in R, NEW k, Cardinality(UpTo(R, i)) = k
  PROVE  k \in 1..Cardinality(R) /\ InOrder(R)[k] = i
<1>1. k \in 1..Cardinality(R)
  BY RowRanks
<1>2. InOrder(R)[k] \in R /\ Cardinality(UpTo(R, InOrder(R)[k])) = k
  BY <1>1, InOrderRows
<1> QED
  BY <1>1, <1>2, RowRanks

(* Rows of a first part and, moved behind it, those of a second. *)
Behind(l, H) == {l + h : h \in H}

LEMMA BehindCounts ==
  ASSUME NEW l \in Int, NEW H, Rows(H)
  PROVE  Rows(Behind(l, H)) /\ Cardinality(Behind(l, H)) = Cardinality(H)
<1> DEFINE move == [h \in H |-> l + h]
<1>1. \A h \in H : h \in Int
  BY DEF Rows
<1>2. Behind(l, H) = {move[h] : h \in H}
  BY DEF Behind
<1>3. move \in [H -> Behind(l, H)]
  BY DEF Behind
<1>4. \A g, h \in H : move[g] = move[h] => g = h
  <2> SUFFICES ASSUME NEW g \in H, NEW h \in H, l + g = l + h PROVE g = h
    OBVIOUS
  <2>1. g \in Int /\ h \in Int
    BY <1>1
  <2> QED
    BY <2>1
<1>5. \A i \in Behind(l, H) : i \in Int
  BY <1>1 DEF Behind
<1>6. \A i \in Behind(l, H) : \E h \in H : move[h] = i
  BY DEF Behind
<1> HIDE DEF move
<1>7. move \in Bijection(H, Behind(l, H))
  BY <1>3, <1>4, <1>6 DEF Bijection, Injection, Surjection, IsInjective
<1>8. ExistsBijection(H, Behind(l, H))
  BY <1>7 DEF ExistsBijection
<1> QED
  BY <1>5, <1>8, FS_Bijection DEF Rows

JoinInOrder(l, R, H) ==
  LET all == R \cup Behind(l, H)
      n == Cardinality(R) IN
    /\ Rows(all) /\ Cardinality(all) = n + Cardinality(H)
    /\ \A k \in 1..n : InOrder(all)[k] = InOrder(R)[k]
    /\ \A k \in 1..Cardinality(H) : InOrder(all)[n + k] = l + InOrder(H)[k]

LEMMA JoinedInOrder ==
  ASSUME NEW l \in Nat, NEW R, Rows(R), \A i \in R : i <= l,
         NEW H, Rows(H), \A h \in H : 0 < h
  PROVE  JoinInOrder(l, R, H)
<1> DEFINE M == Behind(l, H)
           all == R \cup M
           n == Cardinality(R)
<1>1. Rows(M) /\ Cardinality(M) = Cardinality(H)
  BY BehindCounts
<1>2. \A i \in M : \E h \in H : i = l + h
  BY DEF Behind
<1>3. \A h \in H : h \in Int /\ 0 < h
  BY DEF Rows
<1>4. \A i \in M : i \in Int /\ l < i
  BY <1>2, <1>3
<1>5. \A i \in R : i \in Int /\ i <= l
  BY DEF Rows
<1>6. R \cap M = {}
  BY <1>4, <1>5
<1>7. n \in Nat /\ Cardinality(H) \in Nat /\ IsFiniteSet(R) /\ IsFiniteSet(M)
  BY <1>1, RowRanks DEF Rows
<1>8. Rows(all) /\ Cardinality(all) = n + Cardinality(H)
  <2> HIDE DEF M
  <2>1. IsFiniteSet(all) /\ Cardinality(all) = n + Cardinality(M) - Cardinality(R \cap M)
    BY <1>7, FS_Union
  <2>2. Cardinality(R \cap M) = 0
    BY <1>6, FS_EmptySet
  <2> QED
    BY <1>1, <1>4, <1>5, <1>7, <2>1, <2>2 DEF Rows
<1>9. ASSUME NEW k \in 1..n PROVE InOrder(all)[k] = InOrder(R)[k]
  <2> DEFINE i == InOrder(R)[k]
  <2>1. i \in R /\ Cardinality(UpTo(R, i)) = k
    BY InOrderRows
  <2> HIDE DEF i, M
  <2>2. UpTo(all, i) = UpTo(R, i)
    BY <1>4, <1>5, <2>1 DEF UpTo
  <2>3. i \in all
    BY <2>1
  <2> HIDE DEF all
  <2> QED
    BY <1>8, <2>1, <2>2, <2>3, PlaceOfRow DEF i
<1>10. ASSUME NEW k \in 1..Cardinality(H) PROVE InOrder(all)[n + k] = l + InOrder(H)[k]
  <2> DEFINE h == InOrder(H)[k]
             below == UpTo(H, h)
  <2>1. h \in H /\ Cardinality(below) = k
    BY InOrderRows
  <2> HIDE DEF h
  <2>2. Rows(below)
    BY FS_Subset DEF UpTo, Rows
  <2>3. UpTo(all, l + h) = R \cup Behind(l, below)
    <3>1. \A i : i \in Behind(l, below) <=> \E g \in H : g <= h /\ i = l + g
      BY DEF Behind, UpTo
    <3>2. \A i : i \in M <=> \E g \in H : i = l + g
      BY DEF Behind
    <3>3. \A g \in H : g <= h <=> l + g <= l + h
      BY <1>3, <2>1
    <3>4. \A i \in R : i <= l + h
      BY <1>3, <1>5, <2>1
    <3>5. \A i : i \in UpTo(all, l + h) <=> (i \in R \/ i \in M) /\ i <= l + h
      BY DEF UpTo
    <3> HIDE DEF M, all, below
    <3>6. \A i : i \in UpTo(all, l + h) <=> i \in R \/ i \in Behind(l, below)
      BY <3>1, <3>2, <3>3, <3>4, <3>5
    <3> QED
      BY <3>6
  <2>4. Rows(Behind(l, below)) /\ Cardinality(Behind(l, below)) = k
    <3> HIDE DEF below
    <3> QED
      BY <2>1, <2>2, BehindCounts
  <2>5. R \cap Behind(l, below) = {}
    <3>1. Behind(l, below) \subseteq M
      BY DEF Behind, UpTo
    <3> QED
      BY <1>6, <3>1
  <2>6. Cardinality(UpTo(all, l + h)) = n + k
    <3> HIDE DEF below, all
    <3>1. Cardinality(R \cup Behind(l, below)) = n + k - Cardinality(R \cap Behind(l, below))
      BY <1>7, <2>4, FS_Union DEF Rows
    <3>2. Cardinality(R \cap Behind(l, below)) = 0
      BY <2>5, FS_EmptySet
    <3>3. k \in Nat
      BY <1>7
    <3> QED
      BY <1>7, <2>3, <3>1, <3>2, <3>3
  <2>7. l + h \in all
    BY <2>1 DEF Behind
  <2> HIDE DEF all, M
  <2> QED
    BY <1>8, <2>6, <2>7, PlaceOfRow DEF h
<1> QED
  BY <1>8, <1>9, <1>10 DEF JoinInOrder

--------------------------------------------------------------------------------
(* The gameweek at work is one of the gameweeks. *)
LEMMA WeeksInTurn ==
  /\ FirstWeek \in Weeks
  /\ \A w \in Weeks : w # LastWeek => After(w) \in Weeks
<1> DEFINE key == [w \in Weeks |-> w]
<1>1. IsFiniteSet(Weeks) /\ Weeks \subseteq Nat /\ Weeks # {}
  BY SamplerAssumption
<1>2. \A w \in Weeks : key[w] = w /\ w \in Nat
  BY <1>1
<1>3. \A S : S \subseteq Weeks => Ranked(S, key)
  <2> SUFFICES ASSUME NEW S \in SUBSET Weeks PROVE Ranked(S, key)
    OBVIOUS
  <2>1. IsFiniteSet(S)
    BY <1>1, FS_Subset
  <2>2. \A x \in S : key[x] \in Int
    BY <1>2
  <2> QED
    BY <2>1, <2>2 DEF Ranked
<1> HIDE DEF key
<1>4. FirstWeek \in Weeks
  <2>1. \E w \in Weeks : \A v \in Weeks : key[w] <= key[v]
    BY <1>1, <1>3, LowestKey
  <2>2. \E w \in Weeks : \A v \in Weeks : w <= v
    BY <1>2, <2>1
  <2> QED
    BY <2>2 DEF FirstWeek
<1>5. LastWeek \in Weeks /\ \A v \in Weeks : v <= LastWeek
  <2>1. \E w \in Weeks : \A v \in Weeks : key[v] <= key[w]
    BY <1>1, <1>3, HighestKey
  <2>2. \E w \in Weeks : \A v \in Weeks : v <= w
    BY <1>2, <2>1
  <2> QED
    BY <2>2 DEF LastWeek
<1>6. ASSUME NEW w \in Weeks, w # LastWeek PROVE After(w) \in Weeks
  <2> DEFINE later == {v \in Weeks : v > w}
  <2>1. LastWeek \in later
    BY <1>2, <1>5, <1>6
  <2>2. Ranked(later, key) /\ later # {}
    BY <1>3, <2>1
  <2>3. PICK v \in later : \A u \in later : key[v] <= key[u]
    <3> HIDE DEF later
    <3> QED
      BY <2>2, LowestKey
  <2>4. v \in Weeks /\ v > w /\ \A u \in Weeks : u > w => v <= u
    BY <1>2, <2>3
  <2> QED
    BY <2>4 DEF After
<1> QED
  BY <1>4, <1>6

Accepted(w, s) == {i \in DOMAIN s : InF(w, s[i])}

(* What is kept and counted, said of a whole stream and its accepted rows. *)
KeptOf(ok, s) ==
  LET n == IF Cardinality(ok) < NSquads THEN Cardinality(ok) ELSE NSquads IN
    [squads |-> [i \in 1..n |-> s[InOrder(ok)[i]]],
     proposals |-> IF n = NSquads THEN InOrder(ok)[n] ELSE Len(s)]

KeptFirst ==
  LET of == KeptOf(Accepted(week, stream), stream) IN kept = of.squads /\ counted = of.proposals

Drawn ==
  /\ frame \in Frames /\ week \in Weeks
  /\ \E S : stream \in Seq(S)
  /\ pc \notin Built => stream = <<>> /\ kept = <<>> /\ counted = 0
  /\ KeptFirst

Within(R, l) == \A i \in R : 0 < i /\ i <= l

LEMMA AcceptedRows ==
  ASSUME NEW S, NEW s \in Seq(S), NEW w
  PROVE  Rows(Accepted(w, s)) /\ Within(Accepted(w, s), Len(s))
<1>1. Len(s) \in Nat /\ DOMAIN s = 1..Len(s)
  BY LenProperties
<1>2. Accepted(w, s) \in SUBSET (1..Len(s))
  BY <1>1 DEF Accepted
<1>3. IsFiniteSet(1..Len(s))
  BY <1>1, FS_Interval
<1>4. IsFiniteSet(Accepted(w, s))
  BY <1>2, <1>3, FS_Subset
<1> QED
  BY <1>1, <1>2, <1>4 DEF Rows, Within

(* Nothing drawn, nothing kept. *)
LEMMA NothingDrawn == KeptOf({}, <<>>) = [squads |-> <<>>, proposals |-> 0]
<1>1. Cardinality({}) = 0 /\ NSquads \in Nat \ {0} /\ Len(<<>>) = 0
  BY FS_EmptySet, SamplerAssumption
<1> QED
  BY <1>1 DEF KeptOf

(* A batch behind the stream: what it adds to the squads and the count. *)
BatchAdds(s, b, ok, hits) ==
  LET all == ok \cup Behind(Len(s), hits)
      needed == NSquads - Cardinality(ok)
      n == Cardinality(hits)
      m == IF needed < n THEN needed ELSE n IN
    /\ KeptOf(ok, s).proposals = Len(s)
    /\ KeptOf(ok, s).squads = [i \in 1..Cardinality(ok) |-> s[InOrder(ok)[i]]]
    /\ KeptOf(all, s \o b).squads
         = [i \in 1..(Cardinality(ok) + m) |->
              IF i <= Cardinality(ok) THEN s[InOrder(ok)[i]]
                                      ELSE b[InOrder(hits)[i - Cardinality(ok)]]]
    /\ KeptOf(all, s \o b).proposals
         = Len(s) + (IF n >= needed THEN InOrder(hits)[needed] ELSE Len(b))

LEMMA BatchBehind ==
  ASSUME NEW S, NEW s \in Seq(S), NEW b \in Seq(S), NEW ok, NEW hits,
         Rows(ok), Within(ok, Len(s)), Rows(hits), Within(hits, Len(b)),
         Cardinality(ok) < NSquads
  PROVE  BatchAdds(s, b, ok, hits)
<1> DEFINE all == ok \cup Behind(Len(s), hits)
           k == Cardinality(ok)
           n == Cardinality(hits)
           needed == NSquads - k
           m == IF needed < n THEN needed ELSE n
           l == Len(s)
<1>1. /\ l \in Nat /\ Len(b) \in Nat /\ s \o b \in Seq(S) /\ Len(s \o b) = l + Len(b)
      /\ \A i \in 1..(l + Len(b)) : (s \o b)[i] = IF i <= l THEN s[i] ELSE b[i - l]
  BY LenProperties, ConcatProperties
<1>2. NSquads \in Nat \ {0}
  BY SamplerAssumption
<1>3. k \in Nat /\ n \in Nat /\ k < NSquads
  BY RowRanks
<1>4. /\ Rows(all) /\ Cardinality(all) = k + n
      /\ \A i \in 1..k : InOrder(all)[i] = InOrder(ok)[i]
      /\ \A i \in 1..n : InOrder(all)[k + i] = l + InOrder(hits)[i]
  <2>1. l \in Nat /\ (\A i \in ok : i <= l) /\ \A h \in hits : 0 < h
    BY <1>1 DEF Within
  <2> QED
    <3>1. JoinInOrder(l, ok, hits)
      BY <2>1, JoinedInOrder
    <3> QED
      BY <3>1 DEF JoinInOrder
<1>5. \A i \in 1..k : InOrder(ok)[i] \in 1..l
  BY <1>1, InOrderRows DEF Within, Rows
<1>6. \A i \in 1..n : InOrder(hits)[i] \in 1..Len(b)
  BY <1>1, InOrderRows DEF Within, Rows
<1> DEFINE a == Cardinality(all)
           t == IF a < NSquads THEN a ELSE NSquads
<1>7. /\ KeptOf(all, s \o b).squads = [i \in 1..t |-> (s \o b)[InOrder(all)[i]]]
      /\ KeptOf(all, s \o b).proposals = IF t = NSquads THEN InOrder(all)[t] ELSE Len(s \o b)
  BY DEF KeptOf
<1>8. KeptOf(ok, s) = [squads |-> [i \in 1..k |-> s[InOrder(ok)[i]]], proposals |-> l]
  BY <1>2, <1>3 DEF KeptOf
<1>9. a = k + n
  BY <1>4
<1> HIDE DEF all, a, k, n
<1>10. t = k + m /\ m \in Nat /\ m <= n /\ needed \in Nat \ {0} /\ k + needed = NSquads
  BY <1>2, <1>3, <1>9
<1>11. /\ n >= needed => t = NSquads /\ m = needed
       /\ ~(n >= needed) => t # NSquads
  BY <1>2, <1>3, <1>9
<1> HIDE DEF l, t, m, needed
<1>12. ASSUME NEW i \in 1..t
       PROVE  (s \o b)[InOrder(all)[i]] = IF i <= k THEN s[InOrder(ok)[i]] ELSE b[InOrder(hits)[i - k]]
  <2>1. CASE i <= k
    <3>1. i \in 1..k
      BY <1>3, <1>10, <2>1
    <3>2. InOrder(all)[i] = InOrder(ok)[i] /\ InOrder(ok)[i] \in 1..l
      BY <1>4, <1>5, <3>1
    <3> DEFINE x == InOrder(ok)[i]
    <3> HIDE DEF x
    <3>3. x \in 1..(l + Len(b)) /\ x <= l
      BY <1>1, <3>2 DEF x
    <3>4. (s \o b)[x] = s[x]
      BY <1>1, <3>3
    <3> QED
      BY <2>1, <3>2, <3>4 DEF x
  <2>2. CASE ~(i <= k)
    <3>1. i - k \in 1..n /\ k + (i - k) = i
      BY <1>3, <1>10, <2>2
    <3> DEFINE x == InOrder(hits)[i - k]
    <3>2. InOrder(all)[i] = l + x /\ x \in 1..Len(b)
      BY <1>4, <1>6, <3>1
    <3> HIDE DEF x
    <3>3. l + x \in 1..(l + Len(b)) /\ ~(l + x <= l) /\ (l + x) - l = x
      BY <1>1, <3>2
    <3>4. (s \o b)[l + x] = b[x]
      BY <1>1, <3>3
    <3> QED
      BY <2>2, <3>2, <3>4 DEF x
  <2> QED
    BY <2>1, <2>2
<1>13. ASSUME n >= needed PROVE InOrder(all)[NSquads] = l + InOrder(hits)[needed]
  <2>1. needed \in 1..n /\ k + needed = NSquads
    BY <1>3, <1>10, <1>13
  <2> QED
    BY <1>4, <2>1
<1>14. KeptOf(all, s \o b).proposals = l + (IF n >= needed THEN InOrder(hits)[needed] ELSE Len(b))
  <2>1. CASE n >= needed
    BY <1>7, <1>11, <1>13, <2>1
  <2>2. CASE ~(n >= needed)
    BY <1>1, <1>7, <1>11, <2>2 DEF l
  <2> QED
    BY <2>1, <2>2
<1>15. KeptOf(all, s \o b).squads
         = [i \in 1..t |-> IF i <= k THEN s[InOrder(ok)[i]] ELSE b[InOrder(hits)[i - k]]]
  <2>1. [i \in 1..t |-> (s \o b)[InOrder(all)[i]]]
          = [i \in 1..t |-> IF i <= k THEN s[InOrder(ok)[i]] ELSE b[InOrder(hits)[i - k]]]
    BY <1>12
  <2> QED
    BY <1>7, <2>1
<1> QED
  BY <1>8, <1>10, <1>14, <1>15 DEF all, k, n, l, m, needed, BatchAdds

LEMMA TakenRows ==
  ASSUME NEW w, NEW b, DOMAIN b = 1..Batch, NEW needed \in Nat
  PROVE  LET n == Cardinality(Hits(w, b))
             m == IF needed < n THEN needed ELSE n
             t == Taken(w, b, needed) IN
           DOMAIN t = 1..m /\ Len(t) = m /\ \A i \in 1..m : t[i] = InOrder(Hits(w, b))[i]
<1> DEFINE n == Cardinality(Hits(w, b))
           h == InOrder(Hits(w, b))
           m == IF needed < n THEN needed ELSE n
           R == {h[i] : i \in 1..m}
<1>1. n \in Nat
  BY SamplerAssumption, HitsCount
<1>2. m \in Nat
  BY <1>1
<1>3. Taken(w, b, needed) = SubSeq(h, 1, m)
  BY DEF Taken
<1>4. \A i \in 1..m : h[i] \in R
  OBVIOUS
<1> HIDE DEF n, h, m, R
<1>5. /\ SubSeq(h, 1, m) \in Seq(R) /\ Len(SubSeq(h, 1, m)) = IF 1 <= m THEN m - 1 + 1 ELSE 0
      /\ \A i \in 1..(m - 1 + 1) : SubSeq(h, 1, m)[i] = h[1 + i - 1]
  BY <1>2, <1>4, SubSeqProperties
<1>6. Len(SubSeq(h, 1, m)) = m
  BY <1>2, <1>5
<1>7. DOMAIN SubSeq(h, 1, m) = 1..m
  BY <1>5, <1>6, LenProperties
<1>8. \A i \in 1..m : SubSeq(h, 1, m)[i] = h[i]
  <2> TAKE i \in 1..m
  <2>1. i \in 1..(m - 1 + 1) /\ 1 + i - 1 = i
    BY <1>2
  <2> QED
    BY <1>5, <2>1
<1> QED
  BY <1>3, <1>6, <1>7, <1>8 DEF n, h, m

(* The accepted rows of a stream with a batch behind it. *)
LEMMA AcceptedBehind ==
  ASSUME NEW S, NEW s \in Seq(S), NEW b \in Seq(S), NEW w
  PROVE  Accepted(w, s \o b) = Accepted(w, s) \cup Behind(Len(s), Accepted(w, b))
<1> DEFINE l == Len(s)
           k == Len(b)
<1>1. /\ l \in Nat /\ k \in Nat /\ DOMAIN s = 1..l /\ DOMAIN b = 1..k
      /\ s \o b \in Seq(S) /\ Len(s \o b) = l + k
      /\ \A i \in 1..(l + k) : (s \o b)[i] = IF i <= l THEN s[i] ELSE b[i - l]
  BY LenProperties, ConcatProperties
<1>2. DOMAIN (s \o b) = 1..(l + k)
  BY <1>1, LenProperties
<1> DEFINE c == s \o b
<1> HIDE DEF l, k, c
<1>3. \A i : i \in Accepted(w, c) <=> i \in 1..(l + k) /\ InF(w, c[i])
  BY <1>2 DEF Accepted, c
<1>4. \A i : i \in Accepted(w, s) <=> i \in 1..l /\ InF(w, s[i])
  BY <1>1 DEF Accepted
<1>5. \A i : i \in Accepted(w, b) <=> i \in 1..k /\ InF(w, b[i])
  BY <1>1 DEF Accepted
<1>6. ASSUME NEW i \in 1..l PROVE i \in 1..(l + k) /\ c[i] = s[i]
  BY <1>1 DEF c
<1>7. ASSUME NEW i \in 1..k PROVE l + i \in 1..(l + k) /\ c[l + i] = b[i] /\ ~(l + i <= l)
  <2>1. l + i \in 1..(l + k) /\ ~(l + i <= l) /\ (l + i) - l = i
    BY <1>1
  <2>2. c[l + i] = b[(l + i) - l]
    BY <1>1, <2>1 DEF c
  <2> QED
    BY <2>1, <2>2
<1>8. ASSUME NEW i \in 1..(l + k), ~(i \in 1..l) PROVE \E j \in 1..k : i = l + j
  <2>1. i - l \in 1..k /\ i = l + (i - l)
    BY <1>1, <1>8
  <2> QED
    BY <2>1
<1>9. \A i : i \in Accepted(w, c) => i \in Accepted(w, s) \/ i \in Behind(l, Accepted(w, b))
  <2> SUFFICES ASSUME NEW i, i \in 1..(l + k), InF(w, c[i])
               PROVE  i \in Accepted(w, s) \/ i \in Behind(l, Accepted(w, b))
    BY <1>3
  <2>1. CASE i \in 1..l
    BY <1>4, <1>6, <2>1
  <2>2. CASE ~(i \in 1..l)
    <3>1. PICK j \in 1..k : i = l + j
      BY <1>8, <2>2
    <3>2. j \in Accepted(w, b)
      BY <1>5, <1>7, <3>1
    <3> QED
      BY <3>1, <3>2 DEF Behind
  <2> QED
    BY <2>1, <2>2
<1>10. \A i : i \in Accepted(w, s) => i \in Accepted(w, c)
  BY <1>3, <1>4, <1>6
<1>11. \A i : i \in Behind(l, Accepted(w, b)) => i \in Accepted(w, c)
  <2> SUFFICES ASSUME NEW j \in Accepted(w, b) PROVE l + j \in Accepted(w, c)
    BY DEF Behind
  <2> QED
    BY <1>3, <1>5, <1>7
<1> QED
  BY <1>9, <1>10, <1>11 DEF c, l

LEMMA SameTop ==
  ASSUME NEW a \in Nat, NEW b \in Nat, 1..a = 1..b
  PROVE  a = b
<1>1. a # 0 => a \in 1..a
  OBVIOUS
<1>2. b # 0 => b \in 1..b
  OBVIOUS
<1>3. a # 0 => a <= b
  <2> SUFFICES ASSUME a # 0 PROVE a <= b
    OBVIOUS
  <2>1. a \in 1..b
    BY <1>1
  <2> QED
    BY <2>1
<1>4. b # 0 => b <= a
  <2> SUFFICES ASSUME b # 0 PROVE b <= a
    OBVIOUS
  <2>1. b \in 1..a
    BY <1>2
  <2> QED
    BY <2>1
<1> QED
  BY <1>3, <1>4

(* A batch drawn for a week that is still short. *)
LEMMA BatchKeepsFirst ==
  ASSUME Drawn, AllCounted, BuildBatch
  PROVE  LET all == Accepted(week, stream') IN
           /\ \E S : stream' \in Seq(S)
           /\ kept' = KeptOf(all, stream').squads /\ counted' = KeptOf(all, stream').proposals
<1> DEFINE needed == NSquads - Len(kept)
           ok == Accepted(week, stream)
           k == Cardinality(ok)
<1>1. PICK b \in [1..Batch -> Proposals(week)] :
        LET t == Taken(week, b, needed) IN
          /\ kept' = kept \o [i \in DOMAIN t |-> b[t[i]]]
          /\ counted' = counted + Counts(week, b, needed)
          /\ stream' = stream \o b
  BY DEF BuildBatch
<1> DEFINE hits == Hits(week, b)
           n == Cardinality(hits)
           m == IF needed < n THEN needed ELSE n
           t == Taken(week, b, needed)
           add == [i \in 1..m |-> b[t[i]]]
<1>2. Len(kept) < NSquads /\ NSquads \in Nat \ {0} /\ Batch \in Nat \ {0}
  BY SamplerAssumption DEF BuildBatch
<1>3. PICK K : kept \in Seq(K)
  BY DEF AllCounted
<1>4. PICK T : stream \in Seq(T)
  BY DEF AllCounted
<1>5. Len(kept) \in Nat /\ DOMAIN kept = 1..Len(kept) /\ Len(stream) \in Nat
  BY <1>3, <1>4, LenProperties
<1>6. Rows(ok) /\ Within(ok, Len(stream))
  BY <1>4, AcceptedRows
<1>7. k \in Nat
  BY <1>6, RowRanks
<1>8. k = Len(kept) /\ k < NSquads
  <2> DEFINE q == IF k < NSquads THEN k ELSE NSquads
             e == [i \in 1..q |-> stream[InOrder(ok)[i]]]
  <2>1. kept = KeptOf(ok, stream).squads
    BY DEF Drawn, KeptFirst
  <2>2. KeptOf(ok, stream).squads = e
    BY DEF KeptOf
  <2>3. DOMAIN e = 1..q /\ q \in Nat
    BY <1>2, <1>7
  <2> HIDE DEF e, q
  <2>4. 1..q = 1..Len(kept)
    BY <1>5, <2>1, <2>2, <2>3
  <2>5. q = Len(kept)
    BY <1>5, <2>3, <2>4, SameTop
  <2> QED
    BY <1>2, <1>7, <2>5 DEF q
<1>9. needed \in Nat \ {0} /\ needed = NSquads - k
  <2>1. needed = NSquads - k
    BY <1>8
  <2> HIDE DEF needed, k
  <2>2. NSquads - k \in Nat \ {0}
    BY <1>2, <1>7, <1>8
  <2> QED
    BY <2>1, <2>2
<1> DEFINE X == T \cup Proposals(week)
<1>10. stream \in Seq(X) /\ b \in Seq(X) /\ Len(b) = Batch /\ DOMAIN b = 1..Batch
  <2> HIDE DEF X
  <2>1. T \subseteq X /\ Proposals(week) \subseteq X
    BY DEF X
  <2>2. b \in [1..Batch -> X]
    BY <2>1
  <2>3. b \in Seq(X) /\ Len(b) = Batch
    BY <1>2, <2>2, IsASeq, LenProperties
  <2> QED
    BY <1>4, <2>1, <2>3, SeqMonotonic
<1> HIDE DEF X
<1>11. hits = Accepted(week, b)
  <2>1. \A i \in 1..Batch : b[i] \in Proposals(week)
    OBVIOUS
  <2>2. \A i \in 1..Batch : Feasible(week, b[i]) <=> InF(week, b[i])
    BY <2>1, FeasibleIsInF DEF Drawn
  <2> QED
    BY <1>10, <2>2 DEF Hits, Accepted
<1>12. Rows(hits) /\ Within(hits, Len(b)) /\ n \in Nat
  BY <1>10, <1>11, AcceptedRows, RowRanks
<1>13. Accepted(week, stream') = ok \cup Behind(Len(stream), hits)
  BY <1>1, <1>10, <1>11, AcceptedBehind
<1>14. DOMAIN t = 1..m /\ Len(t) = m /\ \A i \in 1..m : t[i] = InOrder(hits)[i]
  BY <1>9, <1>10, TakenRows
<1>15. stream' = stream \o b /\ stream' \in Seq(X)
  BY <1>1, <1>10, ConcatProperties
<1> DEFINE all == ok \cup Behind(Len(stream), hits)
           of == KeptOf(all, stream \o b)
<1> HIDE DEF hits, ok, t
<1>16. /\ KeptOf(ok, stream).proposals = Len(stream)
       /\ KeptOf(ok, stream).squads = [i \in 1..k |-> stream[InOrder(ok)[i]]]
       /\ of.squads = [i \in 1..(k + m) |->
                         IF i <= k THEN stream[InOrder(ok)[i]] ELSE b[InOrder(hits)[i - k]]]
       /\ of.proposals = Len(stream) + (IF n >= needed THEN InOrder(hits)[needed] ELSE Len(b))
  <2> DEFINE short == NSquads - Cardinality(ok)
             e == IF short < Cardinality(hits) THEN short ELSE Cardinality(hits)
  <2>1. /\ KeptOf(ok, stream).proposals = Len(stream)
        /\ KeptOf(ok, stream).squads = [i \in 1..Cardinality(ok) |-> stream[InOrder(ok)[i]]]
        /\ of.squads = [i \in 1..(Cardinality(ok) + e) |->
                          IF i <= Cardinality(ok) THEN stream[InOrder(ok)[i]]
                                                  ELSE b[InOrder(hits)[i - Cardinality(ok)]]]
        /\ of.proposals = Len(stream) + (IF Cardinality(hits) >= short THEN InOrder(hits)[short] ELSE Len(b))
    <3>1. BatchAdds(stream, b, ok, hits)
      BY <1>6, <1>8, <1>10, <1>12, BatchBehind
    <3> QED
      BY <3>1 DEF BatchAdds, of, all
  <2>2. short = needed
    BY <1>9
  <2> QED
    BY <2>1, <2>2
<1> HIDE DEF of, all
<1>17. kept = KeptOf(ok, stream).squads /\ counted = KeptOf(ok, stream).proposals
  BY DEF Drawn, KeptFirst, ok
<1>18. m \in Nat /\ (n >= needed => m = needed)
  BY <1>9, <1>12
<1>19. counted' = of.proposals
  <2>1. counted' = counted + Counts(week, b, needed)
    BY <1>1
  <2>2. Counts(week, b, needed) = IF n >= needed THEN Last(t) ELSE Batch
    BY DEF Counts, hits, t
  <2>3. n >= needed => Last(t) = InOrder(hits)[needed]
    <3> SUFFICES ASSUME n >= needed PROVE Last(t) = InOrder(hits)[needed]
      OBVIOUS
    <3>1. m = needed /\ needed \in 1..m
      BY <1>9, <1>18
    <3>2. Last(t) = t[Len(t)]
      BY DEF Last
    <3> QED
      BY <1>14, <3>1, <3>2
  <2> QED
    BY <1>10, <1>16, <1>17, <2>1, <2>2, <2>3
<1>20. kept' = of.squads
  <2>1. kept' = kept \o add
    <3>1. kept' = kept \o [i \in DOMAIN t |-> b[t[i]]]
      BY <1>1 DEF t
    <3> QED
      BY <1>14, <3>1
  <2> DEFINE Y == K \cup {add[i] : i \in 1..m}
  <2>2. add \in [1..m -> Y] /\ kept \in Seq(Y)
    <3>1. \A i \in 1..m : add[i] \in Y
      OBVIOUS
    <3>2. K \subseteq Y
      OBVIOUS
    <3>3. DOMAIN add = 1..m /\ add = [i \in 1..m |-> add[i]]
      OBVIOUS
    <3> HIDE DEF add, Y
    <3> QED
      BY <1>3, <3>1, <3>2, <3>3, SeqMonotonic
  <2>3. \A i \in 1..m : add[i] = b[InOrder(hits)[i]]
    BY <1>14
  <2> HIDE DEF add, Y, m
  <2>4. add \in Seq(Y) /\ Len(add) = m
    BY <1>18, <2>2, IsASeq, LenProperties
  <2>5. /\ kept \o add \in Seq(Y) /\ Len(kept \o add) = k + m
        /\ \A i \in 1..(k + m) : (kept \o add)[i] = IF i <= k THEN kept[i] ELSE add[i - k]
    <3>1. /\ kept \o add \in Seq(Y) /\ Len(kept \o add) = Len(kept) + Len(add)
          /\ \A i \in 1..(Len(kept) + Len(add)) :
               (kept \o add)[i] = IF i <= Len(kept) THEN kept[i] ELSE add[i - Len(kept)]
      BY <2>2, <2>4, ConcatProperties
    <3> QED
      BY <1>8, <2>4, <3>1
  <2>6. kept \o add = [i \in 1..(k + m) |-> (kept \o add)[i]]
    BY <2>5, LenProperties
  <2>7. ASSUME NEW i \in 1..(k + m)
        PROVE  (kept \o add)[i] = IF i <= k THEN stream[InOrder(ok)[i]] ELSE b[InOrder(hits)[i - k]]
    <3>1. CASE i <= k
      <4>1. i \in 1..k
        BY <1>7, <3>1
      <4> QED
        BY <1>16, <1>17, <2>5, <3>1, <4>1
    <3>2. CASE ~(i <= k)
      <4>1. i - k \in 1..m
        BY <1>7, <1>18, <3>2
      <4> QED
        BY <2>3, <2>5, <3>2, <4>1
    <3> QED
      BY <3>1, <3>2
  <2>8. [i \in 1..(k + m) |-> (kept \o add)[i]]
          = [i \in 1..(k + m) |-> IF i <= k THEN stream[InOrder(ok)[i]] ELSE b[InOrder(hits)[i - k]]]
    BY <2>7
  <2>9. of.squads = [i \in 1..(k + m) |-> IF i <= k THEN stream[InOrder(ok)[i]] ELSE b[InOrder(hits)[i - k]]]
    BY <1>16 DEF m
  <2> QED
    BY <2>1, <2>6, <2>8, <2>9
<1> QED
  BY <1>13, <1>15, <1>19, <1>20 DEF of, all

LEMMA EmptyDrawn ==
  ASSUME frame' \in Frames, week' \in Weeks, stream' = <<>>, kept' = <<>>, counted' = 0
  PROVE  Drawn'
<1>1. Accepted(week, stream)' = {}
  BY DEF Accepted
<1>2. KeptOf(Accepted(week, stream)', stream') = [squads |-> <<>>, proposals |-> 0]
  BY <1>1, NothingDrawn
<1>3. KeptFirst'
  BY <1>2 DEF KeptFirst
<1>4. stream' \in Seq({})
  OBVIOUS
<1> QED
  BY <1>3, <1>4 DEF Drawn

LEMMA DrawnStep == Drawn /\ AllCounted /\ [Next]_vars => Drawn'
<1> SUFFICES ASSUME Drawn, AllCounted, [Next]_vars PROVE Drawn'
  OBVIOUS
<1>1. frame' = frame /\ mode' = mode
  BY DEF Next, BuildUniverses, PilotBatch, NextPilot, Ladder, CapExceeded, BuildBatch, FinishWeek, input, vars
<1>2. frame' \in Frames
  BY <1>1 DEF Drawn
<1>3. \A w, s : Accepted(w, s) = {i \in DOMAIN s : InF(w, s[i])}
  BY DEF Accepted
<1>4. Accepted(week, stream)' = Accepted(week', stream')
  BY <1>1 DEF Accepted, InF
<1>5. ASSUME UNCHANGED <<week, kept, counted, stream>>, pc' \in Built \/ pc \notin Built PROVE Drawn'
  <2>1. KeptFirst'
    BY <1>4, <1>5 DEF Drawn, KeptFirst
  <2> QED
    BY <1>2, <1>5, <2>1 DEF Drawn
<1>6. CASE BuildUniverses
  BY <1>5, <1>6 DEF BuildUniverses, Built
<1>7. CASE PilotBatch
  BY <1>5, <1>7 DEF PilotBatch, Built
<1>8. CASE NextPilot
  <2>1. week' \in Weeks
    BY <1>8, WeeksInTurn DEF NextPilot, Drawn
  <2>2. stream' = <<>> /\ kept' = <<>> /\ counted' = 0
    BY <1>8 DEF NextPilot, Drawn, Built
  <2> QED
    BY <1>2, <2>1, <2>2, EmptyDrawn
<1>9. CASE Ladder
  BY <1>5, <1>9 DEF Ladder, Built
<1>10. CASE CapExceeded
  BY <1>5, <1>10 DEF CapExceeded, Built
<1>11. CASE BuildBatch
  <2> DEFINE of == KeptOf(Accepted(week, stream'), stream')
  <2>1. (\E S : stream' \in Seq(S)) /\ kept' = of.squads /\ counted' = of.proposals
    BY <1>11, BatchKeepsFirst
  <2>2. pc' = pc /\ pc = "build" /\ week' = week
    BY <1>11 DEF BuildBatch
  <2>3. Accepted(week, stream)' = Accepted(week, stream')
    BY <1>4, <2>2
  <2>4. KeptFirst'
    BY <2>1, <2>3 DEF KeptFirst
  <2> QED
    BY <1>2, <2>1, <2>2, <2>4 DEF Drawn, Built
<1>12. CASE FinishWeek
  <2>1. week' \in Weeks
    BY <1>12, WeeksInTurn DEF FinishWeek, Drawn
  <2>2. stream' = <<>> /\ kept' = <<>> /\ counted' = 0
    BY <1>12 DEF FinishWeek
  <2> QED
    BY <1>2, <2>1, <2>2, EmptyDrawn
<1>13. CASE UNCHANGED vars
  BY <1>5, <1>13 DEF vars
<1> QED
  BY <1>6, <1>7, <1>8, <1>9, <1>10, <1>11, <1>12, <1>13 DEF Next

LEMMA DrawnInit == Init => Drawn
<1> SUFFICES ASSUME Init PROVE Drawn
  OBVIOUS
<1>1. frame \in Frames /\ week \in Weeks /\ stream = <<>> /\ kept = <<>> /\ counted = 0
  BY WeeksInTurn DEF Init
<1>2. Accepted(week, stream) = {}
  BY <1>1 DEF Accepted
<1>3. KeptOf(Accepted(week, stream), stream) = [squads |-> <<>>, proposals |-> 0]
  BY <1>1, <1>2, NothingDrawn
<1>4. KeptFirst
  BY <1>1, <1>3 DEF KeptFirst
<1>5. stream \in Seq({})
  BY <1>1
<1> QED
  BY <1>1, <1>4, <1>5 DEF Drawn

(* The squads of a week are the first accepted proposals of its stream and   *)
(* its count ends at the last of them, however the stream was cut into       *)
(* batches: _build_week's slicing of a batch and its counting agree.         *)
THEOREM BatchesDoNotShow == Spec => []FirstAccepted
<1>1. Drawn => FirstAccepted
  <2> SUFFICES ASSUME Drawn PROVE FirstAccepted
    OBVIOUS
  <2> DEFINE ok == Accepted(week, stream)
  <2>1. PICK S : stream \in Seq(S)
    BY DEF Drawn
  <2>2. Len(InOrder(ok)) = Cardinality(ok)
    BY <2>1, AcceptedRows, InOrderRows
  <2>3. kept = KeptOf(ok, stream).squads /\ counted = KeptOf(ok, stream).proposals
    BY DEF Drawn, KeptFirst
  <2>4. ok = {i \in DOMAIN stream : InF(week, stream[i])}
    BY DEF Accepted
  <2> HIDE DEF ok
  <2> DEFINE n == IF Len(InOrder(ok)) < NSquads THEN Len(InOrder(ok)) ELSE NSquads
  <2>5. /\ kept = [i \in 1..n |-> stream[InOrder(ok)[i]]]
        /\ counted = IF n = NSquads THEN InOrder(ok)[n] ELSE Len(stream)
    BY <2>2, <2>3 DEF KeptOf
  <2> QED
    BY <2>4, <2>5 DEF FirstAccepted
<1> QED
  BY <1>1, DrawnInit, DrawnStep, AllAreCounted, PTL DEF Spec

--------------------------------------------------------------------------------
(* The free-hit fill.  The pool, and what has been scored of it.            *)
PoolHolds ==
  /\ price \in [Players -> Nat]
  /\ signal.first \in Values /\ signal.second \in Values /\ signal.fdr \in Values
  /\ policy \in {"single", "composite"}
  /\ phase \in {"score", "fill", "squad", "infeasible"}
  /\ phase # "score" => score = [x \in Players |-> IF policy = "single" THEN signal.first[x] ELSE Composite(x)]

LEMMA PoolInit == FillInit => PoolHolds
BY PoolAssumption DEF FillInit, PoolHolds

LEMMA PoolStep == PoolHolds /\ [FillNext]_FillVars => PoolHolds'
<1> SUFFICES ASSUME PoolHolds, [FillNext]_FillVars PROVE PoolHolds'
  OBVIOUS
<1>1. UNCHANGED pool
  BY DEF FillNext, FillVars, ScorePool, Pick, Skip, NextPosition, GiveUp, Finish
<1>2. \A x : Composite(x)' = Composite(x)
  BY <1>1 DEF pool, Composite, Terms, Ease, Normalized, HalfRank, Span, Scorable
<1>3. CASE ScorePool
  BY <1>1, <1>2, <1>3 DEF PoolHolds, ScorePool, pool
<1>4. CASE UNCHANGED score /\ phase # "score" /\ phase' \in {"fill", "squad", "infeasible"}
  BY <1>1, <1>2, <1>4 DEF PoolHolds, pool
<1>5. CASE UNCHANGED FillVars
  BY <1>1, <1>2, <1>5 DEF PoolHolds, pool, FillVars
<1> QED
  BY <1>3, <1>4, <1>5 DEF FillNext, Pick, Skip, NextPosition, GiveUp, Finish, IsNext

(* The order of the completion, and the last of any candidates in it. *)
LEMMA IndexParts ==
  ASSUME NEW p \in Positions
  PROVE  Index(p) \in Nat /\ PositionOrder[Index(p)] = p
<1>1. \E i \in DOMAIN PositionOrder : PositionOrder[i] = p
  BY DEF Positions, Range
<1>2. DOMAIN PositionOrder \subseteq Nat
  BY RulesAssumption
<1> QED
  BY <1>1, <1>2 DEF Index

LEMMA CheaperOrders ==
  ASSUME PoolHolds
  PROVE  /\ \A x, y, z \in Players : CheaperAt(x, y) /\ CheaperAt(y, z) => CheaperAt(x, z)
         /\ \A x \in Players : ~CheaperAt(x, x)
         /\ \A x, y \in Players : x = y \/ CheaperAt(x, y) \/ CheaperAt(y, x)
<1>1. \A x \in Players : /\ x \in Nat /\ price[x] \in Nat /\ PositionOf[x] \in Positions
                         /\ Index(PositionOf[x]) \in Nat
  BY IndexParts, RulesAssumption, PoolAssumption DEF PoolHolds
<1>2. \A x, y \in Players : Index(PositionOf[x]) = Index(PositionOf[y]) => PositionOf[x] = PositionOf[y]
  BY <1>1, IndexParts
<1>3. \A x, y, z \in Players : CheaperAt(x, y) /\ CheaperAt(y, z) => CheaperAt(x, z)
  BY <1>1 DEF CheaperAt
<1>4. \A x \in Players : ~CheaperAt(x, x)
  BY <1>1 DEF CheaperAt
<1>5. \A x, y \in Players : x = y \/ CheaperAt(x, y) \/ CheaperAt(y, x)
  BY <1>1, <1>2 DEF CheaperAt
<1> QED
  BY <1>3, <1>4, <1>5

LEMMA LastInTurn ==
  ASSUME PoolHolds, NEW S \in SUBSET Players, S # {}
  PROVE  \E x \in S : \A y \in S \ {x} : CheaperAt(y, x)
<1> DEFINE R == {r \in Players \X Players : CheaperAt(r[2], r[1])}
<1>1. \A x, y \in Players : <<x, y>> \in R <=> CheaperAt(y, x)
  OBVIOUS
<1> HIDE DEF R
<1>2. Orders(R, S)
  <2>1. \A x, y, z \in S : <<x, y>> \in R /\ <<y, z>> \in R => <<x, z>> \in R
    BY <1>1, CheaperOrders
  <2>2. \A x \in S : <<x, x>> \notin R
    BY <1>1, CheaperOrders
  <2>3. \A x, y \in S : x = y \/ <<x, y>> \in R \/ <<y, x>> \in R
    BY <1>1, CheaperOrders
  <2> QED
    BY <2>1, <2>2, <2>3 DEF Orders
<1>3. IsFiniteSet(S)
  BY FS_Subset, RulesAssumption
<1>4. PICK x \in S : \A y \in S \ {x} : <<x, y>> \in R
  BY <1>2, <1>3, FirstOf
<1> QED
  BY <1>1, <1>4

(* The completion exists: the candidate whose turn is last changes nothing  *)
(* for the others.                                                          *)
LEMMA CompletionExists ==
  ASSUME PoolHolds, NEW T \in SUBSET Players
  PROVE  \E G \in SUBSET Players :
           /\ T \subseteq G
           /\ \A x \in Players \ T : x \in G <=> IsTaken(BeforeTurn(T, G, x), x)
<1> DEFINE Rest == Players \ T
           Turn(A, x) == T \cup {y \in A : CheaperAt(y, x)}
           Fair(A, I) == \A x \in I : x \in A <=> IsTaken(Turn(A, x), x)
           B == {I \in SUBSET Rest : ~\E A \in SUBSET I : Fair(A, I)}
<1>1. B = {}
  <2> SUFFICES ASSUME B # {} PROVE FALSE
    OBVIOUS
  <2>1. IsFiniteSet(Rest)
    BY FS_Subset, RulesAssumption
  <2>2. PICK I \in B : \A U \in B : U \subseteq I => U = I
    <3>1. B \in SUBSET SUBSET Rest
      OBVIOUS
    <3> HIDE DEF B, Rest
    <3> QED
      BY <2>1, <3>1, SmallestSet
  <2>3. I \in SUBSET Rest /\ ~\E A \in SUBSET I : Fair(A, I)
    BY <2>2
  <2>4. I # {}
    BY <2>3
  <2>5. PICK z \in I : \A y \in I \ {z} : CheaperAt(y, z)
    BY <2>3, <2>4, LastInTurn
  <2>6. I \ {z} \notin B
    BY <2>2, <2>5
  <2>7. PICK A \in SUBSET (I \ {z}) : Fair(A, I \ {z})
    BY <2>3, <2>6
  <2> DEFINE C == IF IsTaken(Turn(A, z), z) THEN A \cup {z} ELSE A
  <2>8. C \in SUBSET I /\ A \subseteq C /\ C \subseteq A \cup {z} /\ (z \in C <=> IsTaken(Turn(A, z), z))
    BY <2>7
  <2> HIDE DEF C
  <2>9. ASSUME NEW x \in I PROVE Turn(C, x) = Turn(A, x)
    <3>1. ~CheaperAt(z, x)
      BY <2>3, <2>5, CheaperOrders
    <3> QED
      BY <2>8, <3>1
  <2>10. Fair(C, I)
    <3> SUFFICES ASSUME NEW x \in I PROVE x \in C <=> IsTaken(Turn(C, x), x)
      OBVIOUS
    <3>1. Turn(C, x) = Turn(A, x)
      BY <2>9
    <3>2. CASE x = z
      BY <2>8, <3>1, <3>2
    <3>3. CASE x # z
      <4>1. x \in A <=> IsTaken(Turn(A, x), x)
        BY <2>7, <3>3
      <4> QED
        BY <2>8, <3>1, <3>3, <4>1
    <3> QED
      BY <3>2, <3>3
  <2> QED
    BY <2>3, <2>8, <2>10
<1>2. PICK A \in SUBSET Rest : Fair(A, Rest)
  <2> HIDE DEF Fair, Rest
  <2>1. Rest \in SUBSET Rest /\ Rest \notin B
    BY <1>1
  <2> QED
    BY <2>1
<1> DEFINE G == T \cup A
<1>3. G \in SUBSET Players /\ T \subseteq G
  OBVIOUS
<1>4. ASSUME NEW x \in Players \ T PROVE x \in G <=> IsTaken(BeforeTurn(T, G, x), x)
  <2>1. BeforeTurn(T, G, x) = Turn(A, x)
    BY DEF BeforeTurn
  <2>2. x \in A <=> IsTaken(Turn(A, x), x)
    BY <1>2
  <2> QED
    BY <2>1, <2>2
<1> QED
  BY <1>3, <1>4

LEMMA CompletionParts ==
  ASSUME PoolHolds, NEW T \in SUBSET Players
  PROVE  /\ GreedyCompletion(T) \in SUBSET Players
         /\ T \subseteq GreedyCompletion(T)
         /\ \A x \in Players \ T :
              x \in GreedyCompletion(T) <=> IsTaken(BeforeTurn(T, GreedyCompletion(T), x), x)
BY CompletionExists DEF GreedyCompletion

--------------------------------------------------------------------------------
(* Places of a position and of a club. *)
ClubsFit(S) == \A x \in S : Cardinality(OfClub(S, club[x])) <= MaxPerClub

LEMMA PlacesParts ==
  ASSUME NEW S \in SUBSET Players
  PROVE  /\ IsFiniteSet(S)
         /\ \A p : IsFiniteSet(At(S, p)) /\ Cardinality(At(S, p)) \in Nat
         /\ \A k : IsFiniteSet(OfClub(S, k)) /\ Cardinality(OfClub(S, k)) \in Nat
         /\ \A p \in Positions : Needed(S, p) = Quota[p] - Cardinality(At(S, p)) /\ Needed(S, p) \in Int
<1>1. IsFiniteSet(S)
  BY FS_Subset, RulesAssumption
<1>2. \A p : At(S, p) \subseteq S
  BY DEF At
<1>3. \A k : OfClub(S, k) \subseteq S
  BY DEF OfClub
<1>4. \A p : IsFiniteSet(At(S, p)) /\ Cardinality(At(S, p)) \in Nat
  BY <1>1, <1>2, FS_Subset, FS_CardinalityType
<1>5. \A k : IsFiniteSet(OfClub(S, k)) /\ Cardinality(OfClub(S, k)) \in Nat
  BY <1>1, <1>3, FS_Subset, FS_CardinalityType
<1>6. \A p \in Positions : Needed(S, p) = Quota[p] - Cardinality(At(S, p)) /\ Needed(S, p) \in Int
  BY <1>4, RulesAssumption DEF Needed
<1> QED
  BY <1>1, <1>4, <1>5, <1>6

(* One more player takes at most one more place. *)
LEMMA OneMore ==
  ASSUME NEW S, NEW W, IsFiniteSet(W), NEW x, S \subseteq W \cup {x}
  PROVE  IsFiniteSet(S) /\ Cardinality(S) <= Cardinality(W) + 1
<1>1. /\ IsFiniteSet(W \cup {x})
      /\ Cardinality(W \cup {x}) = Cardinality(W) \/ Cardinality(W \cup {x}) = Cardinality(W) + 1
  BY FS_AddElement
<1>2. IsFiniteSet(S) /\ Cardinality(S) <= Cardinality(W \cup {x})
  BY <1>1, FS_Subset
<1>3. Cardinality(S) \in Nat /\ Cardinality(W) \in Nat
  BY <1>2, FS_CardinalityType
<1> QED
  BY <1>1, <1>2, <1>3

(* The completion keeps the club limit and the quotas. *)
LEMMA ClubsKept ==
  ASSUME PoolHolds, NEW T \in SUBSET Players, ClubsFit(T)
  PROVE  ClubsFit(GreedyCompletion(T))
<1> DEFINE G == GreedyCompletion(T)
<1>1. /\ G \in SUBSET Players /\ T \subseteq G
      /\ \A x \in Players \ T : x \in G <=> IsTaken(BeforeTurn(T, G, x), x)
  BY CompletionParts
<1> HIDE DEF G
<1> SUFFICES ASSUME NEW x \in G PROVE Cardinality(OfClub(G, club[x])) <= MaxPerClub
  BY DEF ClubsFit, G
<1> DEFINE k == club[x]
           N == OfClub(G \ T, k)
<1>2. CASE N = {}
  <2>1. OfClub(G, k) = OfClub(T, k) /\ x \in T
    BY <1>1, <1>2 DEF OfClub
  <2> QED
    BY <2>1 DEF ClubsFit
<1>3. CASE N # {}
  <2>1. N \in SUBSET Players
    BY <1>1 DEF OfClub
  <2>2. PICK z \in N : \A y \in N \ {z} : CheaperAt(y, z)
    <3> HIDE DEF N
    <3> QED
      BY <1>3, <2>1, LastInTurn
  <2>3. z \in G \ T /\ club[z] = k
    BY <2>2 DEF OfClub
  <2> DEFINE W == BeforeTurn(T, G, z)
  <2>4. W \in SUBSET Players /\ OfClub(G, k) \subseteq OfClub(W, k) \cup {z}
    BY <1>1, <2>2 DEF BeforeTurn, OfClub
  <2>5. Cardinality(OfClub(W, k)) < MaxPerClub
    BY <1>1, <2>3 DEF IsTaken, HasRoom
  <2>6. IsFiniteSet(OfClub(W, k)) /\ Cardinality(OfClub(W, k)) \in Nat
    BY <2>4, PlacesParts
  <2>7. Cardinality(OfClub(G, k)) \in Nat
    BY <1>1, PlacesParts
  <2>8. Cardinality(OfClub(G, k)) <= Cardinality(OfClub(W, k)) + 1
    BY <2>4, <2>6, OneMore
  <2> QED
    BY <2>5, <2>6, <2>7, <2>8, RulesAssumption
<1> QED
  BY <1>2, <1>3

LEMMA QuotasKept ==
  ASSUME PoolHolds, NEW T \in SUBSET Players, NEW p \in Positions, Cardinality(At(T, p)) <= Quota[p]
  PROVE  Cardinality(At(GreedyCompletion(T), p)) <= Quota[p]
<1> DEFINE G == GreedyCompletion(T)
<1>1. /\ G \in SUBSET Players /\ T \subseteq G
      /\ \A x \in Players \ T : x \in G <=> IsTaken(BeforeTurn(T, G, x), x)
  BY CompletionParts
<1> HIDE DEF G
<1> DEFINE N == At(G \ T, p)
<1>2. CASE N = {}
  <2>1. At(G, p) = At(T, p)
    BY <1>1, <1>2 DEF At
  <2> QED
    BY <2>1 DEF G
<1>3. CASE N # {}
  <2>1. N \in SUBSET Players
    BY <1>1 DEF At
  <2>2. PICK z \in N : \A y \in N \ {z} : CheaperAt(y, z)
    <3> HIDE DEF N
    <3> QED
      BY <1>3, <2>1, LastInTurn
  <2>3. z \in G \ T /\ PositionOf[z] = p
    BY <2>2 DEF At
  <2> DEFINE W == BeforeTurn(T, G, z)
  <2>4. W \in SUBSET Players /\ At(G, p) \subseteq At(W, p) \cup {z}
    BY <1>1, <2>2 DEF BeforeTurn, At
  <2>5. Needed(W, p) > 0
    BY <1>1, <2>3 DEF IsTaken
  <2> HIDE DEF W, N
  <2>6. IsFiniteSet(At(W, p)) /\ Cardinality(At(W, p)) \in Nat
    BY <2>4, PlacesParts
  <2>7. Cardinality(At(G, p)) \in Nat
    BY <1>1, PlacesParts
  <2>8. Cardinality(At(G, p)) <= Cardinality(At(W, p)) + 1
    BY <2>4, <2>6, OneMore
  <2>9. Quota[p] \in Nat /\ Needed(W, p) = Quota[p] - Cardinality(At(W, p))
    BY RulesAssumption DEF Needed
  <2>10. Cardinality(At(G, p)) <= Quota[p]
    BY <2>5, <2>6, <2>7, <2>8, <2>9
  <2> QED
    BY <2>10 DEF G
<1> QED
  BY <1>2, <1>3

(* What can_complete() accepts has a legal squad around it. *)
LEMMA CompletionIsLegal ==
  ASSUME PoolHolds, NEW T \in SUBSET Players, ClubsFit(T), CanComplete(T)
  PROVE  \E S \in LegalSquads : T \subseteq S
<1>1. GreedyCompletion(T) \in SUBSET Players /\ T \subseteq GreedyCompletion(T)
  BY CompletionParts
<1>2. Legal(GreedyCompletion(T))
  BY ClubsKept DEF ClubsFit, CanComplete, Legal
<1> QED
  BY <1>1, <1>2 DEF LegalSquads

(* A part of a squad keeps its club limit and costs no more. *)
LEMMA CostParts ==
  ASSUME PoolHolds, NEW S \in SUBSET Players
  PROVE  /\ IntOn(price, S) /\ Cost(S) \in Nat
         /\ \A x \in S : Cost(S) = price[x] + Cost(S \ {x})
<1>1. IntOn(price, S) /\ \A x \in S : price[x] >= 0
  BY PlacesParts DEF IntOn, PoolHolds
<1>2. Cost(S) \in Int /\ Cost(S) >= 0
  BY <1>1, SumInt, SumNonNegative DEF Cost
<1> QED
  BY <1>1, <1>2, SumAdd DEF Cost

LEMMA PartOfSquad ==
  ASSUME PoolHolds, NEW S \in SUBSET Players, NEW T \in SUBSET S
  PROVE  /\ Cost(T) <= Cost(S)
         /\ ClubsFit(S) => ClubsFit(T)
         /\ \A p : Cardinality(At(T, p)) <= Cardinality(At(S, p))
<1>1. Cost(T) <= Cost(S)
  <2>1. T \in SUBSET Players /\ S \ T \in SUBSET Players /\ T \cap (S \ T) = {} /\ T \cup (S \ T) = S
    OBVIOUS
  <2>2. IntOn(price, T) /\ IntOn(price, S \ T) /\ Cost(T) \in Nat /\ Cost(S \ T) \in Nat /\ Cost(S) \in Nat
    BY <2>1, CostParts
  <2>3. Cost(S) = Cost(T) + Cost(S \ T)
    BY <2>1, <2>2, SumUnion DEF Cost
  <2> QED
    BY <2>2, <2>3
<1>2. \A k : Cardinality(OfClub(T, k)) <= Cardinality(OfClub(S, k))
  <2> TAKE k
  <2>1. OfClub(T, k) \in SUBSET OfClub(S, k) /\ IsFiniteSet(OfClub(S, k))
    BY PlacesParts DEF OfClub
  <2> QED
    BY <2>1, FS_Subset
<1>3. \A p : Cardinality(At(T, p)) <= Cardinality(At(S, p))
  <2> TAKE p
  <2>1. At(T, p) \in SUBSET At(S, p) /\ IsFiniteSet(At(S, p))
    BY PlacesParts DEF At
  <2> QED
    BY <2>1, FS_Subset
<1>4. ASSUME ClubsFit(S) PROVE ClubsFit(T)
  <2> SUFFICES ASSUME NEW x \in T PROVE Cardinality(OfClub(T, club[x])) <= MaxPerClub
    BY DEF ClubsFit
  <2>1. Cardinality(OfClub(S, club[x])) <= MaxPerClub
    BY <1>4 DEF ClubsFit
  <2>2. Cardinality(OfClub(S, club[x])) \in Nat /\ Cardinality(OfClub(T, club[x])) \in Nat
    BY PlacesParts
  <2> QED
    BY <1>2, <2>1, <2>2, RulesAssumption
<1> QED
  BY <1>1, <1>3, <1>4

--------------------------------------------------------------------------------
(* The squad so far: some legal squad holds it, its finished positions are  *)
(* full, and the picks of the position at work have been considered.        *)
PicksReach == picked # {} => WithinReach(picked)

FillHolds ==
  /\ picked \in SUBSET Players /\ seen \in SUBSET Players
  /\ at \in Nat /\ at <= Len(PositionOrder) + 1
  /\ phase = "score" => picked = {} /\ seen = {}
  /\ PicksReach
  /\ \A p \in Positions : Needed(picked, p) = 0 \/ At(picked, p) \subseteq seen
  /\ seen # {} => at \in DOMAIN PositionOrder /\ seen \subseteq At(Players, Position)
  /\ \A i \in DOMAIN PositionOrder : i < at => Needed(picked, PositionOrder[i]) = 0
  /\ phase = "squad" => at = Len(PositionOrder) + 1

LEMMA OrderParts ==
  /\ Len(PositionOrder) \in Nat /\ DOMAIN PositionOrder = 1..Len(PositionOrder)
  /\ \A i \in DOMAIN PositionOrder : PositionOrder[i] \in Positions
  /\ \A p \in Positions : \E i \in DOMAIN PositionOrder : PositionOrder[i] = p
BY RulesAssumption, LenProperties DEF Positions, Range

LEMMA SamePool ==
  ASSUME UNCHANGED pool
  PROVE  LegalSquads' = LegalSquads
BY DEF pool, LegalSquads, Legal, Full, Needed, OfClub, Cost

LEMMA EmptyPlaces == \A p : At({}, p) = {}
BY DEF At

LEMMA FillInitHolds == FillInit => FillHolds
<1> SUFFICES ASSUME FillInit PROVE FillHolds
  OBVIOUS
<1>1. at = 1 /\ picked = {} /\ seen = {} /\ phase = "score"
  BY DEF FillInit
<1>2. \A i \in DOMAIN PositionOrder : ~(i < at)
  BY <1>1, OrderParts
<1>3. at \in Nat /\ at <= Len(PositionOrder) + 1
  BY <1>1, OrderParts
<1>4. \A p \in Positions : At(picked, p) \subseteq seen
  BY <1>1, EmptyPlaces
<1> QED
  BY <1>1, <1>2, <1>3, <1>4 DEF FillHolds, PicksReach, WithinReach

(* A new pick is not among the picks, and the clubs still fit with him.     *)
LEMMA PickParts ==
  ASSUME PoolHolds, FillHolds, NEW x \in Players, IsNext(x)
  PROVE  /\ Position \in Positions /\ x \in At(Players, Position) /\ x \notin seen
         /\ x \notin picked /\ PositionOf[x] = Position
<1>1. Position \in Positions /\ x \in At(Players, Position) /\ x \notin seen /\ PositionOf[x] = Position
  BY OrderParts DEF IsNext, Position, At
<1>2. At(picked, Position) \subseteq seen
  BY <1>1, PlacesParts DEF FillHolds, IsNext
<1> QED
  BY <1>1, <1>2 DEF At

LEMMA PickReach ==
  ASSUME PoolHolds, FillHolds, NEW x \in Players, Pick(x)
  PROVE  picked' \in SUBSET Players /\ \E S \in LegalSquads : picked' \subseteq S
<1>1. picked' = picked \cup {x} /\ HasRoom(picked, x) /\ CanComplete(picked \cup {x}) /\ IsNext(x)
  BY DEF Pick, Fits
<1>2. picked' \in SUBSET Players /\ picked \in SUBSET Players
  BY <1>1 DEF FillHolds
<1>3. ClubsFit(picked)
  <2>1. CASE picked = {}
    BY <2>1 DEF ClubsFit
  <2>2. CASE picked # {}
    <3>1. PICK S \in LegalSquads : picked \subseteq S
      BY <2>2 DEF FillHolds, PicksReach, WithinReach
    <3>2. S \in SUBSET Players /\ ClubsFit(S)
      BY DEF LegalSquads, Legal, ClubsFit
    <3> QED
      BY <3>1, <3>2, PartOfSquad
  <2> QED
    BY <2>1, <2>2
<1>4. ClubsFit(picked \cup {x})
  <2> SUFFICES ASSUME NEW y \in picked \cup {x}
               PROVE  Cardinality(OfClub(picked \cup {x}, club[y])) <= MaxPerClub
    BY DEF ClubsFit
  <2> DEFINE k == club[y]
  <2>1. IsFiniteSet(OfClub(picked, k)) /\ Cardinality(OfClub(picked, k)) \in Nat
        /\ Cardinality(OfClub(picked \cup {x}, k)) \in Nat
    BY <1>2, PlacesParts
  <2>2. CASE k = club[x]
    <3>1. OfClub(picked \cup {x}, k) \subseteq OfClub(picked, k) \cup {x}
      BY DEF OfClub
    <3>2. Cardinality(OfClub(picked \cup {x}, k)) <= Cardinality(OfClub(picked, k)) + 1
      BY <2>1, <3>1, OneMore
    <3>3. Cardinality(OfClub(picked, k)) < MaxPerClub
      BY <1>1, <2>2 DEF HasRoom
    <3> QED
      BY <2>1, <3>2, <3>3, RulesAssumption
  <2>3. CASE k # club[x]
    <3>1. OfClub(picked \cup {x}, k) = OfClub(picked, k) /\ y \in picked
      BY <2>3 DEF OfClub
    <3> QED
      BY <1>3, <3>1 DEF ClubsFit
  <2> QED
    BY <2>2, <2>3
<1>5. picked \cup {x} \in SUBSET Players
  BY <1>2
<1> QED
  BY <1>1, <1>2, <1>4, <1>5, CompletionIsLegal

LEMMA FillStep == PoolHolds /\ FillHolds /\ [FillNext]_FillVars => FillHolds'
<1> SUFFICES ASSUME PoolHolds, FillHolds, [FillNext]_FillVars PROVE FillHolds'
  OBVIOUS
<1>1. ASSUME NEW x \in Players, Pick(x) PROVE FillHolds'
  <2>1. /\ picked' = picked \cup {x} /\ seen' = seen \cup {x} /\ UNCHANGED <<pool, phase, at>>
        /\ phase = "fill" /\ at \in DOMAIN PositionOrder /\ Needed(picked, Position) > 0
    BY <1>1 DEF Pick, IsNext
  <2>2. /\ Position \in Positions /\ x \in At(Players, Position) /\ x \notin picked
        /\ PositionOf[x] = Position
    BY <1>1, PickParts DEF Pick
  <2>3. PicksReach'
    BY <1>1, <2>1, PickReach, SamePool DEF PicksReach, WithinReach
  <2>4. \A p : p # Position => At(picked', p) = At(picked, p)
    BY <2>1, <2>2 DEF At
  <2>5. \A p : p # Position => Needed(picked', p) = Needed(picked, p)
    BY <2>4 DEF Needed
  <2>6. ASSUME NEW p \in Positions PROVE Needed(picked', p) = 0 \/ At(picked', p) \subseteq seen'
    <3>1. CASE p # Position
      BY <2>1, <2>4, <2>5, <3>1 DEF FillHolds
    <3>2. CASE p = Position
      <4>1. At(picked, p) \subseteq seen
        BY <2>1, <3>2, <2>2, PlacesParts DEF FillHolds
      <4> QED
        BY <2>1, <4>1 DEF At
    <3> QED
      BY <3>1, <3>2
  <2>7. \A i \in DOMAIN PositionOrder : i < at' => Needed(picked', PositionOrder[i]) = 0
    <3> TAKE i \in DOMAIN PositionOrder
    <3> HAVE i < at'
    <3>1. Needed(picked, PositionOrder[i]) = 0
      BY <2>1 DEF FillHolds
    <3>2. PositionOrder[i] # Position
      BY <2>1, <3>1
    <3> QED
      BY <2>5, <3>1, <3>2
  <2>8. seen' \subseteq At(Players, Position) /\ Position' = Position
    BY <2>1, <2>2 DEF FillHolds, Position
  <2>9. picked' \in SUBSET Players /\ seen' \in SUBSET Players
    BY <2>1 DEF FillHolds
  <2> QED
    BY <2>1, <2>3, <2>6, <2>7, <2>8, <2>9 DEF FillHolds
<1>2. ASSUME NEW x \in Players, Skip(x) PROVE FillHolds'
  <2>1. /\ picked' = picked /\ seen' = seen \cup {x} /\ UNCHANGED <<pool, phase, at>>
        /\ phase = "fill" /\ at \in DOMAIN PositionOrder
    BY <1>2 DEF Skip, IsNext
  <2>2. x \in At(Players, Position)
    BY <1>2, PickParts DEF Skip
  <2>3. PicksReach'
    BY <2>1, SamePool DEF PicksReach, WithinReach, FillHolds
  <2>4. seen' \subseteq At(Players, Position) /\ Position' = Position
    BY <2>1, <2>2 DEF FillHolds, Position
  <2> QED
    BY <2>1, <2>3, <2>4 DEF FillHolds
<1>3. CASE NextPosition
  <2>1. /\ picked' = picked /\ seen' = {} /\ at' = at + 1 /\ UNCHANGED <<pool, phase>>
        /\ phase = "fill" /\ at \in DOMAIN PositionOrder /\ Needed(picked, Position) = 0
    BY <1>3 DEF NextPosition
  <2>2. PicksReach'
    BY <2>1, SamePool DEF PicksReach, WithinReach, FillHolds
  <2>3. ASSUME NEW p \in Positions PROVE Needed(picked, p) = 0 \/ At(picked, p) = {}
    <3>1. CASE p = Position
      BY <2>1, <3>1
    <3>2. CASE p # Position
      <4>1. Needed(picked, p) = 0 \/ At(picked, p) \subseteq seen
        BY DEF FillHolds
      <4>2. \A y \in seen : PositionOf[y] = Position
        BY DEF FillHolds, At
      <4> QED
        BY <3>2, <4>1, <4>2 DEF At
    <3> QED
      BY <3>1, <3>2
  <2>4. at' \in Nat /\ at' <= Len(PositionOrder) + 1
    BY <2>1, OrderParts
  <2>5. \A i \in DOMAIN PositionOrder : i < at' => Needed(picked, PositionOrder[i]) = 0
    <3> TAKE i \in DOMAIN PositionOrder
    <3> HAVE i < at'
    <3>1. i = at \/ i < at
      BY <2>1, OrderParts
    <3> QED
      BY <2>1, <3>1 DEF FillHolds, Position
  <2> QED
    BY <2>1, <2>2, <2>3, <2>4, <2>5 DEF FillHolds
<1>4. CASE GiveUp \/ Finish \/ ScorePool \/ UNCHANGED FillVars
  <2>1. UNCHANGED <<pool, at, seen, picked>>
    BY <1>4 DEF GiveUp, Finish, ScorePool, FillVars
  <2>2. PicksReach'
    BY <2>1, SamePool DEF PicksReach, WithinReach, FillHolds
  <2>3. phase' = "score" => phase = "score"
    BY <1>4 DEF GiveUp, Finish, ScorePool, FillVars
  <2>4. phase' = "squad" => at = Len(PositionOrder) + 1
    BY <1>4 DEF GiveUp, Finish, ScorePool, FillVars, FillHolds
  <2>5. Position' = Position
    BY <2>1 DEF Position
  <2> QED
    BY <2>1, <2>2, <2>3, <2>4, <2>5 DEF FillHolds
<1> QED
  BY <1>1, <1>2, <1>3, <1>4 DEF FillNext

LEMMA FillInvariant == FillSpec => [](PoolHolds /\ FillHolds)
<1>1. FillInit => PoolHolds /\ FillHolds
  BY PoolInit, FillInitHolds
<1>2. PoolHolds /\ FillHolds /\ [FillNext]_FillVars => PoolHolds' /\ FillHolds'
  BY PoolStep, FillStep
<1> QED
  BY <1>1, <1>2, PTL DEF FillSpec

(* No pick is a dead end, whatever the prices, clubs and scores: what       *)
(* can_complete() accepts has a legal squad around it, and the fill ends    *)
(* with one (feasibility.py:34-37).                                         *)
THEOREM PicksAreNoDeadEnds == FillSpec => []PicksCanComplete
<1>1. PoolHolds /\ FillHolds => PicksCanComplete
  <2> SUFFICES ASSUME PoolHolds, FillHolds PROVE PicksCanComplete
    OBVIOUS
  <2>1. ASSUME phase = "squad" PROVE Legal(picked)
    <3>1. \A i \in DOMAIN PositionOrder : Needed(picked, PositionOrder[i]) = 0
      BY <2>1, OrderParts DEF FillHolds
    <3>2. Full(picked)
      BY <3>1, OrderParts DEF Full
    <3>3. ClubsFit(picked) /\ Cost(picked) <= Budget
      <4>1. CASE picked = {}
        BY <4>1, SumEmpty, RulesAssumption DEF ClubsFit, Cost
      <4>2. CASE picked # {}
        <5>1. PICK S \in LegalSquads : picked \subseteq S
          BY <4>2 DEF FillHolds, PicksReach, WithinReach
        <5>2. S \in SUBSET Players /\ ClubsFit(S) /\ Cost(S) <= Budget
          BY DEF LegalSquads, Legal, ClubsFit
        <5>3. ClubsFit(picked) /\ Cost(picked) <= Cost(S) /\ Cost(S) \in Nat /\ Cost(picked) \in Nat
          BY <5>1, <5>2, PartOfSquad, CostParts
        <5> QED
          BY <5>2, <5>3, RulesAssumption
      <4> QED
        BY <4>1, <4>2
    <3> QED
      BY <3>2, <3>3 DEF Legal, ClubsFit
  <2> QED
    BY <2>1 DEF PicksCanComplete, FillHolds, PicksReach, WithinReach
<1> QED
  BY <1>1, FillInvariant, PTL

--------------------------------------------------------------------------------
(* Where no place of a club is spent in an earlier position and missed in a *)
(* later one, the completion is a cheapest one: within a position the club  *)
(* limit and the quota leave the cheapest candidates a free exchange.       *)

(* Whom R adds to T at a position from a club; each position within the     *)
(* places its clubs have left over from T.                                  *)
Added(R, T, p, k) == {y \in R \ T : PositionOf[y] = p /\ club[y] = k}
OwnCaps(R, T) ==
  \A x \in R \ T :
    Cardinality(Added(R, T, PositionOf[x], club[x])) + Cardinality(OfClub(T, club[x])) <= MaxPerClub

LEMMA AddedParts ==
  ASSUME NEW R \in SUBSET Players, NEW T \in SUBSET Players, NEW p, NEW k
  PROVE  /\ Added(R, T, p, k) \in SUBSET Players
         /\ IsFiniteSet(Added(R, T, p, k)) /\ Cardinality(Added(R, T, p, k)) \in Nat
<1>1. Added(R, T, p, k) \in SUBSET Players
  BY DEF Added
<1> QED
  BY <1>1, PlacesParts, FS_CardinalityType

LEMMA FullMeans ==
  ASSUME NEW S \in SUBSET Players
  PROVE  Full(S) <=> \A p \in Positions : Cardinality(At(S, p)) = Quota[p]
<1>1. \A p \in Positions : Quota[p] \in Nat /\ Cardinality(At(S, p)) \in Nat
  BY PlacesParts, RulesAssumption
<1> QED
  BY <1>1 DEF Full, Needed

(* A squad within the club limit is within it position by position. *)
LEMMA SquadCaps ==
  ASSUME NEW S \in SUBSET Players, ClubsFit(S), NEW T \in SUBSET S
  PROVE  OwnCaps(S, T)
<1> SUFFICES ASSUME NEW x \in S \ T
             PROVE  Cardinality(Added(S, T, PositionOf[x], club[x])) + Cardinality(OfClub(T, club[x])) <= MaxPerClub
  BY DEF OwnCaps
<1> DEFINE k == club[x]
           A == Added(S, T, PositionOf[x], k)
           C == OfClub(T, k)
<1>1. T \in SUBSET Players /\ A \cap C = {} /\ A \cup C \in SUBSET OfClub(S, k)
  BY DEF Added, OfClub
<1>2. /\ IsFiniteSet(A) /\ IsFiniteSet(C) /\ Cardinality(A) \in Nat /\ Cardinality(C) \in Nat
      /\ IsFiniteSet(OfClub(S, k)) /\ Cardinality(OfClub(S, k)) \in Nat
  BY <1>1, AddedParts, PlacesParts
<1>3. Cardinality(OfClub(S, k)) <= MaxPerClub
  BY DEF ClubsFit
<1> HIDE DEF A, C, k
<1>4. Cardinality(A \cup C) = Cardinality(A) + Cardinality(C)
  <2>1. Cardinality(A \cap C) = 0
    BY <1>1, FS_EmptySet
  <2>2. Cardinality(A \cup C) = Cardinality(A) + Cardinality(C) - Cardinality(A \cap C)
    BY <1>2, FS_Union
  <2> QED
    BY <1>2, <2>1, <2>2
<1>5. Cardinality(A \cup C) <= Cardinality(OfClub(S, k))
  BY <1>1, <1>2, FS_Subset
<1>6. Cardinality(A) + Cardinality(C) <= MaxPerClub
  BY <1>2, <1>3, <1>4, <1>5, RulesAssumption
<1> QED
  BY <1>6 DEF A, C, k

(* Whoever is turned away with a place of his position free has his club    *)
(* taken up by T and by those added before him at his own position.         *)
LEMMA TurnedAway ==
  ASSUME PoolHolds, NEW T \in SUBSET Players, ~ClubSpentEarlier(T),
         NEW x \in Players \ T, x \notin GreedyCompletion(T),
         Needed(BeforeTurn(T, GreedyCompletion(T), x), PositionOf[x]) > 0
  PROVE  LET C == {y \in Added(GreedyCompletion(T), T, PositionOf[x], club[x]) : CheaperAt(y, x)} IN
         MaxPerClub <= Cardinality(OfClub(T, club[x])) + Cardinality(C)
<1> DEFINE G == GreedyCompletion(T)
           W == BeforeTurn(T, G, x)
           k == club[x]
           C == {y \in Added(G, T, PositionOf[x], k) : CheaperAt(y, x)}
<1>1. /\ G \in SUBSET Players /\ T \subseteq G
      /\ x \in G <=> IsTaken(W, x)
  BY CompletionParts
<1>2. ~HasRoom(W, x)
  BY <1>1 DEF IsTaken
<1>3. \A y \in W \ T : club[y] = k => PositionOf[y] = PositionOf[x]
  BY <1>2 DEF ClubSpentEarlier
<1>4. OfClub(W, k) \subseteq OfClub(T, k) \cup C
  BY <1>3 DEF OfClub, BeforeTurn, Added
<1>5. W \in SUBSET Players /\ C \in SUBSET Players
  BY <1>1 DEF BeforeTurn, Added
<1> HIDE DEF W, C, G, k
<1>6. /\ IsFiniteSet(OfClub(T, k)) /\ Cardinality(OfClub(T, k)) \in Nat
      /\ Cardinality(OfClub(W, k)) \in Nat
      /\ IsFiniteSet(C) /\ Cardinality(C) \in Nat
  BY <1>5, PlacesParts, FS_CardinalityType
<1>7. /\ IsFiniteSet(OfClub(T, k) \cup C)
      /\ Cardinality(OfClub(T, k) \cup C) <= Cardinality(OfClub(T, k)) + Cardinality(C)
  <2>1. /\ IsFiniteSet(OfClub(T, k) \cup C)
        /\ Cardinality(OfClub(T, k) \cup C)
             = Cardinality(OfClub(T, k)) + Cardinality(C) - Cardinality(OfClub(T, k) \cap C)
    BY <1>6, FS_Union
  <2>2. Cardinality(OfClub(T, k) \cap C) \in Nat
    BY <1>6, FS_Intersection, FS_CardinalityType
  <2> QED
    BY <1>6, <2>1, <2>2
<1>8. Cardinality(OfClub(W, k)) <= Cardinality(OfClub(T, k) \cup C)
  BY <1>4, <1>7, FS_Subset
<1>9. ~(Cardinality(OfClub(W, k)) < MaxPerClub)
  BY <1>2 DEF HasRoom, k
<1>10. Cardinality(OfClub(T, k) \cup C) \in Nat
  BY <1>7, FS_CardinalityType
<1>11. MaxPerClub <= Cardinality(OfClub(T, k)) + Cardinality(C)
  BY <1>6, <1>7, <1>8, <1>9, <1>10, RulesAssumption
<1> QED
  BY <1>11 DEF C, G, k

(* The first of any candidates in the order of the completion. *)
LEMMA FirstInTurn ==
  ASSUME PoolHolds, NEW S \in SUBSET Players, S # {}
  PROVE  \E x \in S : \A y \in S \ {x} : CheaperAt(x, y)
<1> DEFINE R == {r \in Players \X Players : CheaperAt(r[1], r[2])}
<1>1. \A x, y \in Players : <<x, y>> \in R <=> CheaperAt(x, y)
  OBVIOUS
<1> HIDE DEF R
<1>2. Orders(R, S)
  <2>1. \A x, y, z \in S : <<x, y>> \in R /\ <<y, z>> \in R => <<x, z>> \in R
    BY <1>1, CheaperOrders
  <2>2. \A x \in S : <<x, x>> \notin R
    BY <1>1, CheaperOrders
  <2>3. \A x, y \in S : x = y \/ <<x, y>> \in R \/ <<y, x>> \in R
    BY <1>1, CheaperOrders
  <2> QED
    BY <2>1, <2>2, <2>3 DEF Orders
<1>3. IsFiniteSet(S)
  BY FS_Subset, RulesAssumption
<1>4. PICK x \in S : \A y \in S \ {x} : <<x, y>> \in R
  BY <1>2, <1>3, FirstOf
<1> QED
  BY <1>1, <1>4

(* One for another of his position: the places stay, the cost changes by    *)
(* the difference.                                                          *)
LEMMA Exchanged ==
  ASSUME PoolHolds, NEW S \in SUBSET Players, NEW z \in S, NEW x \in Players \ S,
         PositionOf[x] = PositionOf[z]
  PROVE  LET R == (S \ {z}) \cup {x} IN
         /\ R \in SUBSET Players
         /\ \A p : Cardinality(At(R, p)) = Cardinality(At(S, p))
         /\ Cost(R) + price[z] = Cost(S) + price[x]
<1> DEFINE R == (S \ {z}) \cup {x}
<1>1. R \in SUBSET Players /\ S \ {z} \in SUBSET Players /\ R \ {x} = S \ {z} /\ x \in R
  OBVIOUS
<1>2. ASSUME NEW p PROVE Cardinality(At(R, p)) = Cardinality(At(S, p))
  <2>1. CASE p # PositionOf[z]
    <3>1. At(R, p) = At(S, p)
      BY <2>1 DEF At
    <3> QED
      BY <3>1
  <2>2. CASE p = PositionOf[z]
    <3>1. At(R, p) = At(S \ {z}, p) \cup {x} /\ At(S \ {z}, p) = At(S, p) \ {z}
          /\ z \in At(S, p) /\ x \notin At(S \ {z}, p)
      BY <2>2 DEF At
    <3>2. IsFiniteSet(At(S, p)) /\ IsFiniteSet(At(S \ {z}, p)) /\ Cardinality(At(S, p)) \in Nat
      BY <1>1, PlacesParts
    <3>3. Cardinality(At(S, p) \ {z}) = Cardinality(At(S, p)) - 1
      BY <3>1, <3>2, FS_RemoveElement
    <3>4. Cardinality(At(S \ {z}, p) \cup {x}) = Cardinality(At(S \ {z}, p)) + 1
      BY <3>1, <3>2, FS_AddElement
    <3> HIDE DEF R
    <3> QED
      BY <3>1, <3>2, <3>3, <3>4
  <2> QED
    BY <2>1, <2>2
<1>3. Cost(S) = price[z] + Cost(S \ {z}) /\ Cost(R) = price[x] + Cost(R \ {x})
  BY <1>1, CostParts
<1>4. Cost(S) \in Nat /\ Cost(R) \in Nat /\ Cost(S \ {z}) \in Nat /\ price[x] \in Nat /\ price[z] \in Nat
  BY <1>1, CostParts DEF PoolHolds
<1> HIDE DEF R
<1>5. Cost(R) + price[z] = Cost(S) + price[x]
  BY <1>1, <1>3, <1>4
<1> QED
  BY <1>1, <1>2, <1>5 DEF R

(* One for another of his position who has room for his club: the clubs     *)
(* stay within what their positions have.                                   *)
LEMMA ExchangedCaps ==
  ASSUME NEW S \in SUBSET Players, NEW T \in SUBSET S, OwnCaps(S, T),
         NEW z \in S \ T, NEW x \in Players \ S, PositionOf[x] = PositionOf[z],
         \/ club[x] = club[z]
         \/ Cardinality(Added(S, T, PositionOf[x], club[x])) + Cardinality(OfClub(T, club[x])) < MaxPerClub
  PROVE  OwnCaps((S \ {z}) \cup {x}, T)
<1> DEFINE R == (S \ {z}) \cup {x}
<1> SUFFICES ASSUME NEW u \in R \ T
             PROVE  Cardinality(Added(R, T, PositionOf[u], club[u])) + Cardinality(OfClub(T, club[u])) <= MaxPerClub
  BY DEF OwnCaps
<1> DEFINE p == PositionOf[u]
           k == club[u]
           A == Added(S, T, p, k)
           C == Added(R, T, p, k)
           n == Cardinality(OfClub(T, k))
<1>1. T \in SUBSET Players /\ R \in SUBSET Players /\ z \notin R /\ x \notin T
  OBVIOUS
<1>2. IsFiniteSet(A) /\ Cardinality(A) \in Nat /\ Cardinality(C) \in Nat /\ n \in Nat
  BY <1>1, AddedParts, PlacesParts
<1>3. CASE PositionOf[x] = p /\ club[x] = k
  <2>1. CASE club[x] = club[z]
    <3>1. z \in A /\ C \subseteq (A \ {z}) \cup {x}
      BY <1>3, <2>1 DEF Added
    <3>2. IsFiniteSet(A \ {z}) /\ Cardinality(A \ {z}) = Cardinality(A) - 1
      BY <1>2, <3>1, FS_RemoveElement
    <3>3. Cardinality(C) <= Cardinality(A \ {z}) + 1
      BY <3>1, <3>2, OneMore
    <3>4. Cardinality(A) + n <= MaxPerClub
      BY <1>3, <2>1 DEF OwnCaps
    <3> HIDE DEF A, C, n, p, k
    <3>5. Cardinality(C) + n <= MaxPerClub
      BY <1>2, <3>2, <3>3, <3>4, RulesAssumption
    <3> QED
      BY <3>5 DEF C, n, p, k
  <2>2. CASE club[x] # club[z]
    <3>1. C \subseteq A \cup {x}
      BY DEF Added
    <3>2. Cardinality(C) <= Cardinality(A) + 1
      BY <1>2, <3>1, OneMore
    <3>3. Cardinality(A) + n < MaxPerClub
      BY <1>3, <2>2
    <3> HIDE DEF A, C, n, p, k
    <3>4. Cardinality(C) + n <= MaxPerClub
      BY <1>2, <3>2, <3>3, RulesAssumption
    <3> QED
      BY <3>4 DEF C, n, p, k
  <2> QED
    BY <2>1, <2>2
<1>4. CASE ~(PositionOf[x] = p /\ club[x] = k)
  <2>1. u \in S \ T /\ C \in SUBSET A
    BY <1>4 DEF Added
  <2>2. Cardinality(C) <= Cardinality(A)
    BY <1>2, <2>1, FS_Subset
  <2>3. Cardinality(A) + n <= MaxPerClub
    BY <2>1 DEF OwnCaps
  <2> HIDE DEF A, C, n, p, k
  <2>4. Cardinality(C) + n <= MaxPerClub
    BY <1>2, <2>2, <2>3, RulesAssumption
  <2> QED
    BY <2>4 DEF C, n, p, k
<1> QED
  BY <1>3, <1>4

(* A squad around T that differs from the completion can be brought nearer  *)
(* to it.                                                                   *)
Around(R, T) == R \in SUBSET Players /\ T \subseteq R /\ Full(R) /\ OwnCaps(R, T)

LEMMA BroughtNearer ==
  ASSUME PoolHolds, NEW R, NEW T, Around(R, T), NEW z \in R \ GreedyCompletion(T), T \subseteq GreedyCompletion(T),
         NEW x \in GreedyCompletion(T) \ R, PositionOf[x] = PositionOf[z], x \in Players,
         \/ club[x] = club[z]
         \/ Cardinality(Added(R, T, PositionOf[x], club[x])) + Cardinality(OfClub(T, club[x])) < MaxPerClub
  PROVE  LET Q == (R \ {z}) \cup {x} IN
         /\ Around(Q, T) /\ Cost(Q) + price[z] = Cost(R) + price[x]
         /\ Q \ GreedyCompletion(T) = (R \ GreedyCompletion(T)) \ {z}
<1> DEFINE Q == (R \ {z}) \cup {x}
<1>1. R \in SUBSET Players /\ T \in SUBSET R /\ z \in R \ T /\ x \in Players \ R /\ z \in R
  BY DEF Around
<1>2. /\ Q \in SUBSET Players /\ Cost(Q) + price[z] = Cost(R) + price[x]
      /\ \A p : Cardinality(At(Q, p)) = Cardinality(At(R, p))
  BY <1>1, Exchanged
<1>3. OwnCaps(Q, T)
  BY <1>1, ExchangedCaps DEF Around
<1>4. T \subseteq Q /\ Q \ GreedyCompletion(T) = (R \ GreedyCompletion(T)) \ {z}
  BY <1>1
<1> HIDE DEF Q
<1>5. Full(Q)
  BY <1>1, <1>2, FullMeans DEF Around
<1> QED
  BY <1>2, <1>3, <1>4, <1>5 DEF Around, Q

LEMMA CompletionIsFull ==
  ASSUME PoolHolds, NEW S, NEW T, Around(S, T), ~ClubSpentEarlier(T)
  PROVE  Full(GreedyCompletion(T))
<1> DEFINE G == GreedyCompletion(T)
           B == {R \ G : R \in {U \in SUBSET Players : Around(U, T)}}
<1>1. T \in SUBSET Players /\ G \in SUBSET Players /\ T \subseteq G
  BY CompletionParts DEF Around
<1> SUFFICES ASSUME NEW p \in Positions PROVE Cardinality(At(G, p)) = Quota[p]
  BY <1>1, FullMeans
<1>2. PICK D \in B : \A U \in B : U \subseteq D => U = D
  <2>1. B \in SUBSET SUBSET Players /\ B # {}
    BY DEF Around
  <2> HIDE DEF B
  <2> QED
    BY <2>1, RulesAssumption, SmallestSet
<1>3. PICK R \in SUBSET Players : Around(R, T) /\ D = R \ G
  BY <1>2
<1>4. /\ Cardinality(At(R, p)) = Quota[p] /\ Quota[p] \in Nat
      /\ IsFiniteSet(At(G, p)) /\ Cardinality(At(G, p)) \in Nat
  BY <1>1, <1>3, FullMeans, PlacesParts, RulesAssumption DEF Around
<1>5. Cardinality(At(G, p)) <= Quota[p]
  <2>1. T \in SUBSET R
    BY <1>3 DEF Around
  <2>2. Cardinality(At(T, p)) <= Quota[p]
    BY <1>4, <2>1, PartOfSquad
  <2> QED
    BY <1>1, <2>2, QuotasKept
<1> SUFFICES ASSUME Cardinality(At(G, p)) < Quota[p] PROVE FALSE
  BY <1>4, <1>5
<1>6. ASSUME NEW z \in At(R, p), z \notin G PROVE FALSE
  <2> DEFINE k == club[z]
             W == BeforeTurn(T, G, z)
             A == Added(R, T, p, k)
             C == Added(G, T, p, k)
             E == {y \in C : CheaperAt(y, z)}
             n == Cardinality(OfClub(T, k))
  <2>1. z \in R \ T /\ z \in Players \ T /\ PositionOf[z] = p /\ z \in R \ G
    BY <1>1, <1>3, <1>6 DEF At
  <2>2. Needed(W, p) > 0
    <3>1. W \in SUBSET G /\ W \in SUBSET Players
      BY <1>1 DEF BeforeTurn
    <3> HIDE DEF W, G
    <3>2. Cardinality(At(W, p)) <= Cardinality(At(G, p)) /\ Cardinality(At(W, p)) \in Nat
      BY <1>1, <3>1, PartOfSquad, PlacesParts
    <3> QED
      BY <1>4, <3>2 DEF Needed
  <2>3. MaxPerClub <= n + Cardinality(E)
    BY <1>1, <1>6, <2>1, <2>2, TurnedAway
  <2>4. Cardinality(A) + n <= MaxPerClub
    BY <1>3, <2>1 DEF Around, OwnCaps
  <2>5. /\ IsFiniteSet(A) /\ Cardinality(A) \in Nat /\ IsFiniteSet(C) /\ Cardinality(C) \in Nat /\ n \in Nat
    BY <1>1, AddedParts, PlacesParts
  <2>6. E \in SUBSET C /\ z \in A /\ z \notin C
    BY <2>1 DEF Added
  <2>7. PICK x \in C : x \notin A
    <3> SUFFICES ASSUME C \subseteq A PROVE FALSE
      OBVIOUS
    <3> HIDE DEF A, C, E, n, G
    <3>1. Cardinality(E) <= Cardinality(C) /\ Cardinality(E) \in Nat
      BY <2>5, <2>6, FS_Subset, FS_CardinalityType
    <3>2. Cardinality(C) <= Cardinality(A)
      BY <2>5, FS_Subset
    <3>3. Cardinality(C) = Cardinality(A)
      BY <2>3, <2>4, <2>5, <3>1, <3>2, RulesAssumption
    <3>4. C = A
      BY <2>5, <3>3, FS_Subset
    <3> QED
      BY <2>6, <3>4
  <2>8. x \in G \ R /\ x \in Players /\ PositionOf[x] = PositionOf[z] /\ club[x] = club[z]
    BY <1>1, <2>1, <2>7 DEF Added
  <2> DEFINE Q == (R \ {z}) \cup {x}
  <2>9. Around(Q, T) /\ Q \ G = D \ {z}
    <3>1. Around(R, T) /\ z \in R \ G /\ T \subseteq G
      BY <1>1, <1>3, <2>1
    <3> HIDE DEF B, W, A, C, E, n, k
    <3>2. Around(Q, T) /\ Q \ G = (R \ G) \ {z}
      BY <2>8, <3>1, BroughtNearer
    <3> QED
      BY <1>3, <3>2
  <2>10. D \ {z} \in B
    <3>1. Q \in SUBSET Players
      BY <2>9 DEF Around
    <3> QED
      BY <2>9, <3>1
  <2> QED
    BY <1>2, <1>3, <2>1, <2>10
<1>7. At(R, p) \in SUBSET At(G, p)
  BY <1>6 DEF At
<1> HIDE DEF G
<1>8. Cardinality(At(R, p)) <= Cardinality(At(G, p))
  BY <1>4, <1>7, FS_Subset
<1> QED
  BY <1>4, <1>8

(* No squad around T is cheaper: where it first differs from the completion *)
(* it can be brought nearer at no cost.                                     *)
LEMMA CheapestCompletion ==
  ASSUME PoolHolds, NEW S, NEW T, Around(S, T), ClubsFit(T), ~ClubSpentEarlier(T)
  PROVE  Cost(GreedyCompletion(T)) <= Cost(S)
<1> DEFINE G == GreedyCompletion(T)
           Better == {R \in SUBSET Players : Around(R, T) /\ Cost(R) <= Cost(S)}
           B == {R \ G : R \in Better}
<1>1. T \in SUBSET Players /\ G \in SUBSET Players /\ T \subseteq G /\ Full(G) /\ T \in SUBSET G
  BY CompletionParts, CompletionIsFull DEF Around
<1>2. OwnCaps(G, T)
  BY <1>1, ClubsKept, SquadCaps
<1>3. S \in Better
  <2>1. S \in SUBSET Players /\ Cost(S) \in Nat
    BY CostParts DEF Around
  <2> QED
    BY <2>1
<1>4. PICK D \in B : \A U \in B : U \subseteq D => U = D
  <2>1. B \in SUBSET SUBSET Players /\ B # {}
    BY <1>3
  <2> HIDE DEF B
  <2> QED
    BY <2>1, RulesAssumption, SmallestSet
<1>5. PICK R \in SUBSET Players : Around(R, T) /\ Cost(R) <= Cost(S) /\ D = R \ G
  BY <1>4
<1>6. T \subseteq R /\ Full(R) /\ OwnCaps(R, T)
  BY <1>5 DEF Around
<1>7. \A p \in Positions : /\ Cardinality(At(R, p)) = Quota[p] /\ Cardinality(At(G, p)) = Quota[p]
                           /\ Quota[p] \in Nat /\ IsFiniteSet(At(R, p)) /\ IsFiniteSet(At(G, p))
  BY <1>1, <1>6, FullMeans, PlacesParts, RulesAssumption
<1>8. \A x \in Players : PositionOf[x] \in Positions
  BY RulesAssumption
<1>9. ASSUME NEW z0 \in D PROVE FALSE
  <2> DEFINE p == PositionOf[z0]
             Diff == At((R \ G) \cup (G \ R), p)
  <2>1. p \in Positions /\ Diff \in SUBSET Players /\ z0 \in Diff
    BY <1>1, <1>5, <1>8, <1>9 DEF At
  <2>2. PICK x \in Diff : \A y \in Diff \ {x} : CheaperAt(x, y)
    <3> HIDE DEF Diff
    <3> QED
      BY <2>1, FirstInTurn
  <2>3. x \in Players /\ PositionOf[x] = p /\ x \notin T /\ (x \in R \ G \/ x \in G \ R)
    BY <1>1, <1>6, <2>1, <2>2 DEF At
  <2>4. \A y \in Players : PositionOf[y] = p /\ y # x /\ CheaperAt(y, x) => (y \in R <=> y \in G)
    <3> SUFFICES ASSUME NEW y \in Players, PositionOf[y] = p, y # x, CheaperAt(y, x), ~(y \in R <=> y \in G)
                 PROVE  FALSE
      OBVIOUS
    <3>1. CheaperAt(x, y)
      BY <2>2 DEF At
    <3> QED
      BY <2>3, <3>1, CheaperOrders
  <2> DEFINE k == club[x]
             A == Added(R, T, p, k)
             C == Added(G, T, p, k)
             n == Cardinality(OfClub(T, k))
  <2>5. /\ IsFiniteSet(A) /\ Cardinality(A) \in Nat /\ IsFiniteSet(C) /\ Cardinality(C) \in Nat /\ n \in Nat
    BY <1>1, AddedParts, PlacesParts
  <2>6. CASE x \in R \ G
    <3> DEFINE W == BeforeTurn(T, G, x)
               E == {y \in C : CheaperAt(y, x)}
    <3>1. W \in SUBSET Players /\ At(W, p) \in SUBSET (At(R, p) \ {x}) /\ x \in At(R, p)
      BY <1>1, <1>6, <2>3, <2>4, <2>6 DEF BeforeTurn, At
    <3>2. E \in SUBSET (A \ {x}) /\ x \in A
      BY <1>1, <2>3, <2>4, <2>6 DEF Added
    <3>3. Needed(W, p) > 0
      <4> DEFINE a == At(R, p)
                 w == At(W, p)
      <4>1. IsFiniteSet(a) /\ Cardinality(a) = Quota[p] /\ Quota[p] \in Nat /\ x \in a /\ w \in SUBSET (a \ {x})
        BY <1>7, <2>1, <3>1
      <4>2. Needed(W, p) = Quota[p] - Cardinality(w)
        BY DEF Needed
      <4> HIDE DEF a, w, W, G, p
      <4>3. IsFiniteSet(a \ {x}) /\ Cardinality(a \ {x}) = Cardinality(a) - 1
        BY <4>1, FS_RemoveElement
      <4>4. IsFiniteSet(w) /\ Cardinality(w) <= Cardinality(a \ {x})
        BY <4>1, <4>3, FS_Subset
      <4>5. Cardinality(w) \in Nat
        BY <4>4, FS_CardinalityType
      <4> QED
        BY <4>1, <4>2, <4>3, <4>4, <4>5
    <3>4. MaxPerClub <= n + Cardinality(E)
      BY <1>1, <2>3, <2>6, <3>3, TurnedAway
    <3>5. Cardinality(A) + n <= MaxPerClub
      BY <1>6, <2>3, <2>6 DEF OwnCaps
    <3> HIDE DEF A, E, n, C
    <3>6. IsFiniteSet(A \ {x}) /\ Cardinality(A \ {x}) = Cardinality(A) - 1
      BY <2>5, <3>2, FS_RemoveElement
    <3>7. Cardinality(E) <= Cardinality(A) - 1 /\ Cardinality(E) \in Nat
      BY <3>2, <3>6, FS_Subset, FS_CardinalityType
    <3> QED
      BY <2>5, <3>4, <3>5, <3>7, RulesAssumption
  <2>7. CASE x \in G \ R
    <3>1. PICK y \in R \ G : /\ PositionOf[y] = p
                             /\ club[y] = k \/ Cardinality(A) + n < MaxPerClub
      <4>1. CASE Cardinality(A) + n < MaxPerClub
        <5>1. PICK y \in At(R, p) : y \notin At(G, p)
          <6> SUFFICES ASSUME At(R, p) \subseteq At(G, p) PROVE FALSE
            OBVIOUS
          <6>1. x \in At(G, p) /\ x \notin At(R, p)
            BY <2>3, <2>7 DEF At
          <6> HIDE DEF G, p
          <6>2. At(R, p) = At(G, p)
            BY <1>7, <2>1, FS_Subset
          <6> QED
            BY <6>1, <6>2
        <5>2. y \in R \ G /\ PositionOf[y] = p
          BY <1>5, <5>1 DEF At
        <5> QED
          BY <4>1, <5>2
      <4>2. CASE ~(Cardinality(A) + n < MaxPerClub)
        <5>1. Cardinality(C) + n <= MaxPerClub /\ x \in C /\ x \notin A
          BY <1>2, <2>3, <2>7 DEF OwnCaps, Added
        <5>2. PICK y \in A : y \notin C
          <6> SUFFICES ASSUME A \subseteq C PROVE FALSE
            OBVIOUS
          <6> HIDE DEF A, C, n
          <6>1. Cardinality(A) <= Cardinality(C)
            BY <2>5, FS_Subset
          <6>2. Cardinality(A) = Cardinality(C)
            BY <2>5, <4>2, <5>1, <6>1, RulesAssumption
          <6>3. A = C
            BY <2>5, <6>2, FS_Subset
          <6> QED
            BY <5>1, <6>3
        <5>3. y \in R \ G /\ PositionOf[y] = p /\ club[y] = k
          BY <5>2 DEF Added
        <5> QED
          BY <5>3
      <4> QED
        BY <4>1, <4>2
    <3> DEFINE Q == (R \ {y}) \cup {x}
    <3>2. y \in Diff \ {x} /\ PositionOf[x] = PositionOf[y] /\ y \in Players
      BY <1>5, <2>3, <2>7, <3>1 DEF At
    <3>3. Around(Q, T) /\ Cost(Q) + price[y] = Cost(R) + price[x] /\ Q \ G = D \ {y}
      BY <1>1, <1>5, <2>3, <2>7, <3>1, <3>2, BroughtNearer
    <3>4. price[x] <= price[y]
      <4>1. CheaperAt(x, y)
        BY <2>2, <3>2
      <4>2. price[x] \in Nat /\ price[y] \in Nat /\ Index(PositionOf[x]) \in Nat
        BY <1>8, <2>3, <3>2, IndexParts DEF PoolHolds
      <4> QED
        BY <3>2, <4>1, <4>2 DEF CheaperAt
    <3>5. Q \in SUBSET Players /\ Cost(Q) <= Cost(S)
      <4>1. Q \in SUBSET Players /\ S \in SUBSET Players
        BY <3>3 DEF Around
      <4> HIDE DEF Q
      <4>2. /\ Cost(Q) \in Nat /\ Cost(R) \in Nat /\ Cost(S) \in Nat
            /\ price[x] \in Nat /\ price[y] \in Nat
        BY <2>3, <3>2, <4>1, CostParts DEF PoolHolds
      <4> QED
        BY <1>5, <3>3, <3>4, <4>1, <4>2
    <3>6. D \ {y} \in B
      BY <3>3, <3>5
    <3> QED
      BY <1>4, <1>5, <3>1, <3>6
  <2> QED
    BY <2>3, <2>6, <2>7
<1>10. R = G
  <2>1. R \in SUBSET G
    BY <1>5, <1>9
  <2>2. ASSUME NEW x \in G PROVE x \in R
    <3> DEFINE p == PositionOf[x]
    <3>1. p \in Positions /\ At(R, p) \in SUBSET At(G, p) /\ x \in At(G, p)
      BY <1>1, <1>8, <2>1, <2>2 DEF At
    <3>2. At(R, p) = At(G, p)
      BY <1>7, <3>1, FS_Subset
    <3> QED
      BY <3>1, <3>2 DEF At
  <2> QED
    BY <2>1, <2>2
<1> QED
  BY <1>5, <1>10 DEF G

LEMMA PartCompletes ==
  ASSUME PoolHolds, NEW S \in LegalSquads, NEW T \in SUBSET S, ~ClubSpentEarlier(T)
  PROVE  CanComplete(T)
<1>1. S \in SUBSET Players /\ Full(S) /\ ClubsFit(S) /\ Cost(S) <= Budget /\ T \in SUBSET Players
  BY DEF LegalSquads, Legal, ClubsFit
<1>2. Around(S, T) /\ ClubsFit(T) /\ Cost(T) <= Cost(S)
  BY <1>1, SquadCaps, PartOfSquad DEF Around
<1>3. Full(GreedyCompletion(T)) /\ Cost(GreedyCompletion(T)) <= Cost(S)
  BY <1>2, CompletionIsFull, CheapestCompletion
<1>4. Cost(GreedyCompletion(T)) \in Nat /\ Cost(S) \in Nat /\ Cost(T) \in Nat
  BY <1>1, CompletionParts, CostParts
<1> QED
  BY <1>1, <1>2, <1>3, <1>4, RulesAssumption DEF CanComplete

(* So what can_complete turns down wrongly is missing a club spent earlier. *)
LEMMA RefusalsRight ==
  ASSUME PoolHolds, FillHolds PROVE ErrsOnlyAcrossPositions
<1> SUFFICES ASSUME NEW x \in Players, IsNext(x), ~Fits(x), WithinReach(picked \cup {x}),
                    ~ClubSpentEarlier(picked \cup {x})
             PROVE  FALSE
  BY DEF ErrsOnlyAcrossPositions
<1>1. PICK S \in LegalSquads : picked \cup {x} \subseteq S
  BY DEF WithinReach
<1>2. S \in SUBSET Players /\ ClubsFit(S) /\ Cost(S) <= Budget
  BY DEF LegalSquads, Legal, ClubsFit
<1>3. x \in Players \ picked /\ picked \in SUBSET Players
  BY PickParts DEF FillHolds
<1> DEFINE T == picked \cup {x}
<1>4. T \in SUBSET S /\ T \in SUBSET Players /\ x \in T /\ T \ {x} = picked
  BY <1>1, <1>3
<1> HIDE DEF T
<1>5. CanComplete(T) /\ ClubsFit(T)
  BY <1>2, <1>4, PartCompletes, PartOfSquad DEF T
<1>6. HasRoom(picked, x)
  <2> DEFINE K == OfClub(T, club[x])
  <2>1. x \in K /\ OfClub(picked, club[x]) = K \ {x} /\ IsFiniteSet(K) /\ Cardinality(K) \in Nat
    BY <1>4, PlacesParts DEF OfClub
  <2>2. Cardinality(K) <= MaxPerClub
    BY <1>4, <1>5 DEF ClubsFit
  <2> HIDE DEF K
  <2>3. Cardinality(K \ {x}) = Cardinality(K) - 1
    BY <2>1, FS_RemoveElement
  <2> QED
    BY <2>1, <2>2, <2>3, RulesAssumption DEF HasRoom
<1>7. Cost(picked) + price[x] <= Budget
  <2>1. Cost(T) <= Budget
    BY <1>5 DEF CanComplete
  <2>2. Cost(T) = price[x] + Cost(T \ {x})
    BY <1>4, CostParts
  <2>3. Cost(picked) \in Nat /\ price[x] \in Nat
    BY <1>3, CostParts DEF PoolHolds
  <2> QED
    BY <1>4, <2>1, <2>2, <2>3
<1> QED
  BY <1>5, <1>6, <1>7 DEF Fits, T

--------------------------------------------------------------------------------
(* Scores.  Ranks are shared by ties and rise with the signal.              *)
LEMMA CountsOf ==
  ASSUME NEW S \in SUBSET Players
  PROVE  IsFiniteSet(S) /\ Cardinality(S) \in Nat
BY RulesAssumption, FS_Subset, FS_CardinalityType

LEMMA NormalizedParts ==
  ASSUME NEW f \in Values, NEW x \in Scorable(f)
  PROVE  /\ Normalized(f, x) \in Nat
         /\ Span(f) \in Nat /\ Span(f) > 0
<1> DEFINE C == Scorable(f)
           Below == {y \in C : f[y] < f[x]}
           Same == {y \in C : f[y] = f[x]}
<1>1. C \in SUBSET Players /\ Below \in SUBSET Players /\ Same \in SUBSET Players /\ Same # {} /\ C # {}
  BY DEF Scorable
<1>2. HalfRank(f, x) = 2 * Cardinality(Below) + Cardinality(Same) - 1
  BY DEF HalfRank
<1> HIDE DEF C, Below, Same
<1>3. /\ Cardinality(C) \in Nat /\ Cardinality(C) # 0
      /\ Cardinality(Below) \in Nat
      /\ Cardinality(Same) \in Nat /\ Cardinality(Same) # 0
  BY <1>1, CountsOf, FS_EmptySet
<1>4. HalfRank(f, x) \in Nat
  BY <1>2, <1>3
<1> QED
  BY <1>3, <1>4 DEF Normalized, Span, C

LEMMA RanksRise ==
  ASSUME NEW f \in Values, NEW x \in Scorable(f), NEW y \in Scorable(f), f[x] > f[y]
  PROVE  Normalized(f, x) > Normalized(f, y)
<1> DEFINE C == Scorable(f)
           Below(z) == {w \in C : f[w] < f[z]}
           Same(z) == {w \in C : f[w] = f[z]}
<1>1. \A w \in C : w \in Players /\ f[w] \in Int
  BY DEF Scorable, Values
<1>2. \A z : Below(z) \in SUBSET Players /\ Same(z) \in SUBSET Players
  BY <1>1
<1>3. Below(y) \cup Same(y) \in SUBSET Below(x) /\ Below(y) \cap Same(y) = {}
  BY <1>1
<1>4. x \in Same(x) /\ y \in Same(y)
  OBVIOUS
<1>5. Cardinality(C) # 1
  <2>1. {x, y} \in SUBSET C /\ x # y /\ C \in SUBSET Players
    BY <1>1
  <2>2. Cardinality({x, y}) = 2
    <3>1. IsFiniteSet({x}) /\ Cardinality({x}) = 1 /\ {x} \cup {y} = {x, y} /\ y \notin {x}
      BY <2>1, FS_Singleton
    <3>2. Cardinality({x} \cup {y}) = Cardinality({x}) + 1
      BY <3>1, FS_AddElement
    <3> QED
      BY <3>1, <3>2
  <2> HIDE DEF C
  <2>3. IsFiniteSet(C) /\ Cardinality(C) \in Nat
    BY <2>1, CountsOf
  <2>4. Cardinality({x, y}) <= Cardinality(C)
    BY <2>1, <2>3, FS_Subset
  <2> QED
    BY <2>2, <2>3, <2>4
<1>6. \A z : HalfRank(f, z) = 2 * Cardinality(Below(z)) + Cardinality(Same(z)) - 1
  BY DEF HalfRank
<1>7. Normalized(f, x) = HalfRank(f, x) /\ Normalized(f, y) = HalfRank(f, y)
  BY <1>5 DEF Normalized
<1> HIDE DEF Below, Same
<1>8. /\ \A z : Cardinality(Below(z)) \in Nat /\ Cardinality(Same(z)) \in Nat
      /\ \A z : IsFiniteSet(Below(z)) /\ IsFiniteSet(Same(z))
  BY <1>2, CountsOf
<1>9. Cardinality(Below(y) \cup Same(y)) = Cardinality(Below(y)) + Cardinality(Same(y))
  <2>1. Cardinality(Below(y) \cup Same(y))
          = Cardinality(Below(y)) + Cardinality(Same(y)) - Cardinality(Below(y) \cap Same(y))
    BY <1>8, FS_Union
  <2>2. Cardinality(Below(y) \cap Same(y)) = 0
    BY <1>3, FS_EmptySet
  <2> QED
    BY <1>8, <2>1, <2>2
<1>10. Cardinality(Below(y) \cup Same(y)) <= Cardinality(Below(x))
  BY <1>3, <1>8, FS_Subset
<1>11. Cardinality(Same(x)) # 0 /\ Cardinality(Same(y)) # 0
  BY <1>4, <1>8, FS_EmptySet
<1> QED
  BY <1>6, <1>7, <1>8, <1>9, <1>10, <1>11

LEMMA RanksShared ==
  ASSUME NEW f, NEW x, NEW y, f[x] = f[y]
  PROVE  Normalized(f, x) = Normalized(f, y)
BY DEF Normalized, HalfRank

(* A term of the weighted sum rises with its rank. *)
LEMMA Weighted ==
  ASSUME NEW w \in Nat, w > 0, NEW s \in Nat, s > 0, NEW t \in Nat, t > 0, NEW a \in Nat, NEW b \in Nat
  PROVE  /\ w * a * s * t \in Nat
         /\ a >= b => w * a * s * t >= w * b * s * t
         /\ a > b => w * a * s * t > w * b * s * t
<1>1. \A x, y \in Nat : x * y \in Nat /\ (x > 0 /\ y > 0 => x * y > 0)
  OBVIOUS
<1>2. w * a \in Nat /\ w * a * s \in Nat /\ w * a * s * t \in Nat
  BY <1>1
<1>3. w * b \in Nat /\ w * b * s \in Nat /\ w * b * s * t \in Nat
  BY <1>1
<1>4. ASSUME a >= b
      PROVE  \E d \in Nat : w * a * s * t = w * b * s * t + d /\ (a > b => d > 0)
  <2> DEFINE e == a - b
  <2>1. e \in Nat /\ a = b + e /\ (a > b => e > 0)
    BY <1>4
  <2> HIDE DEF e
  <2>2. w * e \in Nat /\ w * e * s \in Nat /\ w * e * s * t \in Nat
        /\ (e > 0 => w * e > 0) /\ (w * e > 0 => w * e * s > 0) /\ (w * e * s > 0 => w * e * s * t > 0)
    BY <1>1, <2>1
  <2>0. \A p, q, m \in Nat : (p + q) * m = p * m + q * m
    OBVIOUS
  <2>3. w * a = w * b + w * e
    BY <2>1
  <2>4. w * a * s = w * b * s + w * e * s
    <3>1. w * a * s = (w * b + w * e) * s
      BY <2>3
    <3> QED
      BY <1>3, <2>0, <2>2, <3>1
  <2>5. w * a * s * t = w * b * s * t + w * e * s * t
    <3>1. w * a * s * t = (w * b * s + w * e * s) * t
      BY <2>4
    <3> QED
      BY <1>3, <2>0, <2>2, <3>1
  <2> QED
    BY <2>1, <2>2, <2>5
<1> QED
  BY <1>2, <1>3, <1>4

LEMMA TermsParts ==
  ASSUME PoolHolds
  PROVE  \A i \in 1..3 : Terms[i] \in Values
<1>1. Ease \in Values
  <2>1. \A x \in Players : signal.fdr[x] = NoValue \/ signal.fdr[x] \in Int
    BY DEF PoolHolds, Values
  <2> QED
    BY <2>1 DEF Ease, Values
<1>2. Terms[1] \in Values /\ Terms[2] \in Values /\ Terms[3] \in Values
  BY <1>1 DEF Terms, PoolHolds
<1> QED
  BY <1>2

(* Where every term has a value the composite is an increasing sum.         *)
LEMMA CompositeParts ==
  ASSUME PoolHolds, NEW x \in Players, \A i \in 1..3 : Terms[i][x] # NoValue
  PROVE  /\ Composite(x) \in Nat
         /\ \A i \in 1..3 : x \in Scorable(Terms[i])
<1>1. \A i \in 1..3 : x \in Scorable(Terms[i])
  BY DEF Scorable
<1>2. \A i \in 1..3 : /\ Normalized(Terms[i], x) \in Nat
                      /\ Span(Terms[i]) \in Nat /\ Span(Terms[i]) > 0
  BY <1>1, TermsParts, NormalizedParts
<1> DEFINE n(i) == Normalized(Terms[i], x)
           s(i) == Span(Terms[i])
<1>3. Composite(x) = 1 * n(1) * s(2) * s(3) + 1 * n(2) * s(1) * s(3) + 2 * n(3) * s(1) * s(2)
  BY DEF Composite, Weights
<1>4. \A i \in 1..3 : n(i) \in Nat /\ s(i) \in Nat /\ s(i) > 0
  BY <1>2
<1> HIDE DEF n, s
<1>5. 1 * n(1) * s(2) * s(3) \in Nat /\ 1 * n(2) * s(1) * s(3) \in Nat /\ 2 * n(3) * s(1) * s(2) \in Nat
  BY <1>4, Weighted
<1> QED
  BY <1>1, <1>3, <1>5

LEMMA CompositeRises ==
  ASSUME PoolHolds, NEW x \in Players, NEW y \in Players,
         \A i \in 1..3 : Terms[i][x] # NoValue /\ Terms[i][y] # NoValue /\ Terms[i][x] >= Terms[i][y],
         NEW j \in 1..3, Terms[j][x] # Terms[j][y]
  PROVE  Composite(x) > Composite(y)
<1> DEFINE n(i, z) == Normalized(Terms[i], z)
           s(i) == Span(Terms[i])
           sum(z) == 1 * n(1, z) * s(2) * s(3) + 1 * n(2, z) * s(1) * s(3) + 2 * n(3, z) * s(1) * s(2)
<1>1. Composite(x) = sum(x) /\ Composite(y) = sum(y)
  BY DEF Composite, Weights
<1>2. \A i \in 1..3 : x \in Scorable(Terms[i]) /\ y \in Scorable(Terms[i]) /\ Terms[i] \in Values
  BY TermsParts DEF Scorable
<1>3. \A i \in 1..3 : /\ n(i, x) \in Nat /\ n(i, y) \in Nat
                      /\ s(i) \in Nat /\ s(i) > 0
  BY <1>2, NormalizedParts
<1>4. \A i \in 1..3 : Terms[i][x] \in Int /\ Terms[i][y] \in Int
  BY <1>2 DEF Values
<1>5. \A i \in 1..3 : /\ Terms[i][x] = Terms[i][y] => n(i, x) = n(i, y)
                      /\ Terms[i][x] > Terms[i][y] => n(i, x) > n(i, y)
  BY <1>2, RanksRise, RanksShared
<1>6. \A i \in 1..3 : n(i, x) >= n(i, y) /\ (i = j => n(i, x) > n(i, y))
  BY <1>3, <1>4, <1>5
<1> HIDE DEF n, s
<1>7. \A z \in {x, y} : 1 * n(1, z) * s(2) * s(3) \in Nat /\ 1 * n(2, z) * s(1) * s(3) \in Nat
                        /\ 2 * n(3, z) * s(1) * s(2) \in Nat
  BY <1>3, Weighted
<1>8. /\ 1 * n(1, x) * s(2) * s(3) >= 1 * n(1, y) * s(2) * s(3)
      /\ j = 1 => 1 * n(1, x) * s(2) * s(3) > 1 * n(1, y) * s(2) * s(3)
  BY <1>3, <1>6, Weighted
<1>9. /\ 1 * n(2, x) * s(1) * s(3) >= 1 * n(2, y) * s(1) * s(3)
      /\ j = 2 => 1 * n(2, x) * s(1) * s(3) > 1 * n(2, y) * s(1) * s(3)
  BY <1>3, <1>6, Weighted
<1>10. /\ 2 * n(3, x) * s(1) * s(2) >= 2 * n(3, y) * s(1) * s(2)
       /\ j = 3 => 2 * n(3, x) * s(1) * s(2) > 2 * n(3, y) * s(1) * s(2)
  BY <1>3, <1>6, Weighted
<1>11. sum(x) > sum(y)
  <2> DEFINE a(z) == 1 * n(1, z) * s(2) * s(3)
             b(z) == 1 * n(2, z) * s(1) * s(3)
             c(z) == 2 * n(3, z) * s(1) * s(2)
  <2>1. \A z \in {x, y} : a(z) \in Nat /\ b(z) \in Nat /\ c(z) \in Nat
    BY <1>7
  <2>2. a(x) >= a(y) /\ b(x) >= b(y) /\ c(x) >= c(y) /\ (j = 1 => a(x) > a(y))
        /\ (j = 2 => b(x) > b(y)) /\ (j = 3 => c(x) > c(y))
    BY <1>8, <1>9, <1>10
  <2>3. sum(x) = a(x) + b(x) + c(x) /\ sum(y) = a(y) + b(y) + c(y)
    OBVIOUS
  <2> HIDE DEF a, b, c, sum
  <2>4. j = 1 \/ j = 2 \/ j = 3
    OBVIOUS
  <2> QED
    BY <2>1, <2>2, <2>3, <2>4
<1> QED
  BY <1>1, <1>11

LEMMA ScoresParts ==
  ASSUME PoolHolds, phase # "score"
  PROVE  score \in Values
<1>1. \A x \in Players : Composite(x) \in Int \cup {NoValue}
  <2> TAKE x \in Players
  <2>1. CASE \E i \in 1..3 : Terms[i][x] = NoValue
    BY <2>1 DEF Composite
  <2>2. CASE \A i \in 1..3 : Terms[i][x] # NoValue
    BY <2>2, CompositeParts
  <2> QED
    BY <2>1, <2>2
<1> QED
  BY <1>1 DEF PoolHolds, Values

LEMMA ScoresDominate == PoolHolds => CompositeDominates
<1> SUFFICES ASSUME PoolHolds, phase # "score", policy = "composite",
                    NEW x \in Players, NEW y \in Players, score[x] # NoValue, score[y] # NoValue,
                    \A i \in 1..3 : Terms[i][x] >= Terms[i][y]
             PROVE  IF \A i \in 1..3 : Terms[i][x] = Terms[i][y] THEN score[x] = score[y] ELSE score[x] > score[y]
  BY DEF CompositeDominates
<1>1. score[x] = Composite(x) /\ score[y] = Composite(y)
  BY DEF PoolHolds
<1>2. \A i \in 1..3 : Terms[i][x] # NoValue /\ Terms[i][y] # NoValue
  BY <1>1 DEF Composite
<1>3. CASE \A i \in 1..3 : Terms[i][x] = Terms[i][y]
  <2>1. \A i \in 1..3 : Normalized(Terms[i], x) = Normalized(Terms[i], y)
    BY <1>3, RanksShared
  <2>2. Composite(x) = Composite(y)
    BY <1>2, <2>1 DEF Composite
  <2> QED
    BY <1>1, <1>3, <2>2
<1>4. CASE \E j \in 1..3 : Terms[j][x] # Terms[j][y]
  BY <1>1, <1>2, <1>4, CompositeRises
<1> QED
  BY <1>3, <1>4

--------------------------------------------------------------------------------
(* Where nobody was turned down wrongly: nobody passed over fits any legal  *)
(* squad that holds the picks, nor one that holds the picks but a lower-    *)
(* ranked one of his position.                                              *)
PassedOver == \A y \in seen \ picked, S \in LegalSquads : ~(picked \cup {y} \subseteq S)

Unbeaten ==
  \A x \in picked, y \in Players \ picked :
    PositionOf[x] = PositionOf[y] /\ Ahead(y, x) =>
      \A S \in LegalSquads : ~((picked \ {x}) \cup {y} \subseteq S)

RightHolds ==
  ~misjudged => PassedOver /\ Unbeaten /\ (phase = "infeasible" => LegalSquads = {})

LEMMA AheadOneWay ==
  ASSUME PoolHolds, phase # "score", NEW x \in Players, NEW y \in Players, Ahead(x, y)
  PROVE  ~Ahead(y, x)
<1>1. /\ score[x] = NoValue \/ score[x] \in Int
      /\ score[y] = NoValue \/ score[y] \in Int
      /\ NoValue \notin Int /\ x \in Nat /\ y \in Nat
  BY ScoresParts, PoolAssumption DEF Values
<1>2. CASE score[x] = NoValue
  BY <1>1, <1>2 DEF Ahead
<1>3. CASE score[x] \in Int /\ score[y] = NoValue
  BY <1>1, <1>3 DEF Ahead
<1>4. CASE score[x] \in Int /\ score[y] \in Int
  BY <1>1, <1>4 DEF Ahead
<1> QED
  BY <1>1, <1>2, <1>3, <1>4

LEMMA RightInit == FillInit => RightHolds
BY DEF FillInit, RightHolds, PassedOver, Unbeaten

LEMMA RightStep == PoolHolds /\ FillHolds /\ RightHolds /\ [FillNext]_FillVars => RightHolds'
<1> SUFFICES ASSUME PoolHolds, FillHolds, RightHolds, [FillNext]_FillVars, ~misjudged'
             PROVE  PassedOver' /\ Unbeaten' /\ (phase' = "infeasible" => LegalSquads' = {})
  BY DEF RightHolds
<1>1. UNCHANGED pool
  BY DEF FillNext, FillVars, ScorePool, Pick, Skip, NextPosition, GiveUp, Finish
<1>2. LegalSquads' = LegalSquads /\ ~misjudged
  <2>1. LegalSquads' = LegalSquads
    BY <1>1, SamePool
  <2>2. misjudged' = misjudged \/ \E x \in Players : misjudged' = (misjudged \/ WithinReach(picked \cup {x}))
    BY DEF FillNext, FillVars, ScorePool, Pick, Skip, NextPosition, GiveUp, Finish
  <2>3. ~misjudged
    BY <2>2, Zenon
  <2> QED
    BY <2>1, <2>3
<1>3. PassedOver /\ Unbeaten /\ (phase = "infeasible" => LegalSquads = {})
  BY <1>2 DEF RightHolds
<1>4. UNCHANGED score => \A x, y : Ahead(x, y)' <=> Ahead(x, y)
  BY DEF Ahead
<1>5. ASSUME NEW x \in Players, Pick(x)
      PROVE  PassedOver' /\ Unbeaten' /\ (phase' = "infeasible" => LegalSquads' = {})
  <2>1. /\ picked' = picked \cup {x} /\ seen' = seen \cup {x} /\ UNCHANGED <<score, phase>>
        /\ phase = "fill" /\ IsNext(x)
    BY <1>5 DEF Pick, IsNext
  <2>2. x \in Players \ picked /\ PositionOf[x] = Position
    BY <2>1, PickParts
  <2>3. PassedOver'
    <3> SUFFICES ASSUME NEW y \in seen' \ picked', NEW S \in LegalSquads, picked' \cup {y} \subseteq S
                 PROVE  FALSE
      BY <1>2 DEF PassedOver
    <3>1. y \in seen \ picked /\ picked \cup {y} \subseteq S
      BY <2>1
    <3> QED
      BY <1>3, <3>1 DEF PassedOver
  <2>4. Unbeaten'
    <3> SUFFICES ASSUME NEW z \in picked', NEW y \in Players \ picked', PositionOf[z] = PositionOf[y],
                        Ahead(y, z), NEW S \in LegalSquads, (picked' \ {z}) \cup {y} \subseteq S
                 PROVE  FALSE
      BY <1>2, <1>4, <2>1 DEF Unbeaten
    <3>1. CASE z # x
      <4>1. z \in picked /\ y \in Players \ picked /\ (picked \ {z}) \cup {y} \subseteq S
        BY <2>1, <3>1
      <4> QED
        BY <1>3, <4>1 DEF Unbeaten
    <3>2. CASE z = x
      <4>1. y # x /\ y \notin picked /\ y \in At(Players, Position)
        BY <2>1, <2>2, <3>2 DEF At
      <4>2. ~Ahead(x, y)
        BY <2>1, <2>2, <3>2, AheadOneWay
      <4>3. y \in seen
        BY <2>1, <4>1, <4>2 DEF IsNext
      <4>4. picked \cup {y} \subseteq S
        BY <2>1, <2>2, <3>2
      <4> QED
        BY <1>3, <4>1, <4>3, <4>4 DEF PassedOver
    <3> QED
      BY <3>1, <3>2
  <2> QED
    BY <2>1, <2>3, <2>4
<1>6. ASSUME NEW x \in Players, Skip(x)
      PROVE  PassedOver' /\ Unbeaten' /\ (phase' = "infeasible" => LegalSquads' = {})
  <2>1. picked' = picked /\ seen' = seen \cup {x} /\ UNCHANGED <<score, phase>> /\ phase = "fill"
    BY <1>6 DEF Skip, IsNext
  <2>2. \A S \in LegalSquads : ~(picked \cup {x} \subseteq S)
    BY <1>6 DEF Skip, WithinReach
  <2>3. PassedOver'
    BY <1>2, <1>3, <2>1, <2>2 DEF PassedOver
  <2>4. Unbeaten'
    BY <1>2, <1>3, <1>4, <2>1 DEF Unbeaten
  <2> QED
    BY <2>1, <2>3, <2>4
<1>7. CASE GiveUp
  <2>1. UNCHANGED <<score, seen, picked>> /\ Needed(picked, Position) > 0 /\ at \in DOMAIN PositionOrder
        /\ At(Players, Position) \subseteq seen
    BY <1>7 DEF GiveUp
  <2>2. PassedOver' /\ Unbeaten'
    BY <1>2, <1>3, <1>4, <2>1 DEF PassedOver, Unbeaten
  <2>3. ASSUME NEW S \in LegalSquads PROVE FALSE
    <3>1. PICK R \in LegalSquads : picked \subseteq R
      BY <2>3 DEF FillHolds, PicksReach, WithinReach
    <3>2. R \in SUBSET Players /\ Full(R) /\ Position \in Positions
      BY <2>1, OrderParts DEF LegalSquads, Legal, Position
    <3>3. Needed(R, Position) = 0
      BY <3>2 DEF Full
    <3>4. PICK y \in At(R, Position) : y \notin picked
      <4> SUFFICES ASSUME At(R, Position) \subseteq picked PROVE FALSE
        OBVIOUS
      <4>1. At(R, Position) = At(picked, Position)
        BY <3>1 DEF At
      <4> QED
        BY <2>1, <3>3, <4>1 DEF Needed
    <3>5. y \in seen \ picked /\ picked \cup {y} \subseteq R
      BY <2>1, <3>1, <3>2, <3>4 DEF At
    <3> QED
      BY <1>3, <3>5 DEF PassedOver
  <2> QED
    BY <1>2, <2>2, <2>3
<1>8. CASE NextPosition
  <2>1. UNCHANGED <<score, picked, phase>> /\ seen' = {} /\ phase = "fill"
    BY <1>8 DEF NextPosition
  <2> QED
    BY <1>2, <1>3, <1>4, <2>1 DEF PassedOver, Unbeaten
<1>9. CASE Finish \/ UNCHANGED FillVars
  <2>1. UNCHANGED <<score, seen, picked>> /\ (phase' = "infeasible" => phase = "infeasible")
    BY <1>9 DEF Finish, FillVars
  <2> QED
    BY <1>2, <1>3, <1>4, <2>1 DEF PassedOver, Unbeaten
<1>10. CASE ScorePool
  <2>1. picked' = {} /\ seen' = {} /\ phase' = "fill"
    BY <1>10 DEF ScorePool, FillHolds
  <2> QED
    BY <2>1 DEF PassedOver, Unbeaten
<1> QED
  BY <1>5, <1>6, <1>7, <1>8, <1>9, <1>10 DEF FillNext

(* A candidate no worse on any signal is scored no worse; can_complete      *)
(* turns down a candidate who fits a legal squad only where its completion  *)
(* spent his club, or another's, in an earlier position; and where it never *)
(* did, the fill takes the best remaining candidate that leaves a legal     *)
(* squad and finds one whenever there is one (candidates.py:317-320,        *)
(* :456-458, feasibility.py:25-45): whatever the pool, its clubs, its ties  *)
(* and its missing signals.                                                 *)
THEOREM BetterComesFirst == FillSpec => []BestFirst
<1>1. FillInit => PoolHolds /\ FillHolds /\ RightHolds
  BY PoolInit, FillInitHolds, RightInit
<1>2. PoolHolds /\ FillHolds /\ RightHolds /\ [FillNext]_FillVars => PoolHolds' /\ FillHolds' /\ RightHolds'
  BY PoolStep, FillStep, RightStep
<1>3. PoolHolds /\ FillHolds /\ RightHolds => BestFirst
  <2> SUFFICES ASSUME PoolHolds, FillHolds, RightHolds PROVE BestFirst
    OBVIOUS
  <2>1. ASSUME ~misjudged, NEW x \in picked, NEW y \in Players \ picked,
               PositionOf[x] = PositionOf[y], Ahead(y, x), Legal((picked \ {x}) \cup {y})
        PROVE  FALSE
    <3>1. (picked \ {x}) \cup {y} \in LegalSquads
      BY <2>1 DEF FillHolds, LegalSquads
    <3> QED
      BY <2>1, <3>1 DEF RightHolds, Unbeaten
  <2>2. BestWhereNotMisjudged
    BY <2>1 DEF BestWhereNotMisjudged, RightHolds
  <2> QED
    BY <2>2, RefusalsRight, ScoresDominate DEF BestFirst
<1> QED
  BY <1>1, <1>2, <1>3, PTL DEF FillSpec
================================================================================
