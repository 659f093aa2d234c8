---------------------------- MODULE SquadWeekProofs ----------------------------
(***************************************************************************)
(* Proofs about a squad-week, for every squad, every ranking, every set of *)
(* players who featured and every ordering of the bench: what the XI is    *)
(* best at, what the substitutions keep, and what the regret is against.   *)
(***************************************************************************)
EXTENDS SquadWeek, FiniteSums, SequenceTheorems

--------------------------------------------------------------------------------
(* The first of a finite set in a strict order (Orders, FiniteSums). *)
FirstIn(S, R, n) == {x \in S : Cardinality(InFrontOf(S, R, x)) < n}

(* The first n are in front of all the others. *)
LEMMA FirstAreInFront ==
  ASSUME NEW S, IsFiniteSet(S), NEW R, Orders(R, S), NEW n \in Int,
         NEW x \in FirstIn(S, R, n), NEW y \in S \ FirstIn(S, R, n)
  PROVE  <<x, y>> \in R
<1> SUFFICES ASSUME <<x, y>> \notin R PROVE FALSE
  OBVIOUS
<1>1. x \in S /\ y \in S /\ <<y, x>> \in R
  BY DEF Orders, FirstIn
<1>2. InFrontOf(S, R, y) \subseteq InFrontOf(S, R, x)
  BY <1>1 DEF Orders, InFrontOf
<1> DEFINE a == Cardinality(InFrontOf(S, R, x))
           b == Cardinality(InFrontOf(S, R, y))
<1>3. a \in Nat /\ b \in Nat /\ b <= a
  BY <1>2, InFrontCounts, FS_Subset
<1>4. a < n /\ ~(b < n)
  BY DEF FirstIn
<1> HIDE DEF a, b
<1> QED
  BY <1>3, <1>4

(* And they are n. *)
LEMMA FirstAreMany ==
  ASSUME NEW S, IsFiniteSet(S), NEW R, Orders(R, S), NEW n \in 0..Cardinality(S)
  PROVE  Cardinality(FirstIn(S, R, n)) = n
<1> DEFINE C == Cardinality(S)
           F(m) == FirstIn(S, R, m)
           D == {m \in 0..C : Cardinality(F(m)) # m}
<1> SUFFICES ASSUME D # {} PROVE FALSE
  BY DEF D
<1>1. C \in Nat /\ \A x : /\ IsFiniteSet(InFrontOf(S, R, x))
                          /\ Cardinality(InFrontOf(S, R, x)) \in Nat
  BY FS_CardinalityType, InFrontCounts
<1>2. SomeInts(D)
  <2>1. D \subseteq 0..C /\ IsFiniteSet(0..C)
    BY <1>1, FS_Interval
  <2>2. 0..C \subseteq Int
    BY <1>1
  <2> HIDE DEF D
  <2> QED
    BY <2>1, <2>2, FS_Subset DEF SomeInts
<1> DEFINE m == Min(D)
<1>3. m \in D /\ \A k \in D : m <= k
  <2> HIDE DEF D
  <2> QED
    BY <1>2, Extremes
<1>4. m \in 0..C /\ Cardinality(F(m)) # m
  BY <1>3
<1>5. m # 0
  <2>1. F(0) = {}
    BY <1>1 DEF FirstIn
  <2>2. Cardinality(F(0)) = 0
    BY <2>1, FS_EmptySet
  <2> HIDE DEF F, m
  <2> QED
    BY <1>4, <2>2
<1> DEFINE k == m - 1
<1>6. k \in 0..C /\ k < m /\ m = k + 1 /\ k < C
  <2> HIDE DEF m, C
  <2> QED
    BY <1>1, <1>4, <1>5
<1> HIDE DEF m
<1>7. Cardinality(F(k)) = k
  <2>1. k \notin D
    <3> HIDE DEF D
    <3> QED
      BY <1>3, <1>4, <1>6
  <2> HIDE DEF k, F
  <2> QED
    BY <1>6, <2>1
<1> HIDE DEF k, D
<1>8. F(k) \subseteq S /\ F(k) # S /\ IsFiniteSet(F(k))
  <2>1. F(k) \subseteq S
    BY DEF FirstIn
  <2>2. k # C
    BY <1>1, <1>6
  <2> HIDE DEF F
  <2> QED
    BY <1>7, <2>1, <2>2, FS_Subset
<1>9. PICK f \in S \ F(k) : \A y \in (S \ F(k)) \ {f} : <<f, y>> \in R
  <2> DEFINE Rest == S \ F(k)
  <2>1. IsFiniteSet(Rest) /\ Rest # {} /\ Orders(R, Rest)
    <3> HIDE DEF F
    <3>1. Rest \in SUBSET S /\ Rest # {}
      BY <1>8
    <3> QED
      BY <3>1, FS_Subset, OrdersPart
  <2> HIDE DEF Rest
  <2>2. \E f \in Rest : \A y \in Rest \ {f} : <<f, y>> \in R
    BY <2>1, FirstOf
  <2> QED
    BY <2>2 DEF Rest
<1>10. \A x \in F(k), y \in S \ F(k) : <<x, y>> \in R
  <2>1. k \in Int
    BY <1>1, <1>6
  <2> QED
    BY <2>1, FirstAreInFront
<1>11. InFrontOf(S, R, f) = F(k)
  <2>1. \A y \in F(k) : y \in InFrontOf(S, R, f)
    <3> HIDE DEF F
    <3> QED
      BY <1>8, <1>9, <1>10 DEF InFrontOf
  <2>2. \A y \in InFrontOf(S, R, f) : y \in F(k)
    <3> HIDE DEF F
    <3>1. SUFFICES ASSUME NEW y \in S, <<y, f>> \in R, y \notin F(k) PROVE FALSE
      BY DEF InFrontOf
    <3>2. y # f
      BY <1>9, <3>1 DEF Orders
    <3>3. <<f, y>> \in R
      BY <1>9, <3>1, <3>2
    <3> QED
      BY <1>9, <3>1, <3>3 DEF Orders
  <2> HIDE DEF F
  <2> QED
    BY <2>1, <2>2
<1>12. F(m) = F(k) \cup {f}
  <2>1. \A x \in F(k) : x \in F(m)
    BY <1>1, <1>4, <1>6 DEF FirstIn
  <2>2. f \in F(m)
    <3>1. Cardinality(InFrontOf(S, R, f)) < m
      <4> HIDE DEF F
      <4> QED
        BY <1>6, <1>7, <1>11
    <3> QED
      BY <1>9, <3>1 DEF FirstIn
  <2>3. ASSUME NEW y \in S \ F(k), y # f PROVE y \notin F(m)
    <3>1. F(k) \cup {f} \subseteq InFrontOf(S, R, y)
      <4>1. \A x \in F(k) : <<x, y>> \in R
        BY <1>10
      <4>2. <<f, y>> \in R
        BY <1>9, <2>3
      <4> HIDE DEF F
      <4> QED
        BY <1>8, <1>9, <4>1, <4>2 DEF InFrontOf
    <3>2. Cardinality(F(k) \cup {f}) = k + 1
      <4> HIDE DEF F
      <4> QED
        BY <1>7, <1>8, <1>9, FS_AddElement
    <3>3. Cardinality(F(k) \cup {f}) <= Cardinality(InFrontOf(S, R, y))
      <4> HIDE DEF F
      <4> QED
        BY <1>1, <3>1, FS_Subset
    <3>4. ~(Cardinality(InFrontOf(S, R, y)) < m)
      <4> DEFINE c == Cardinality(InFrontOf(S, R, y))
      <4>1. c \in Nat /\ m <= c
        BY <1>1, <1>6, <3>2, <3>3
      <4> HIDE DEF c
      <4>2. ~(c < m)
        BY <1>4, <4>1
      <4> QED
        BY <4>2 DEF c
    <3> QED
      BY <3>4 DEF FirstIn
  <2>4. F(m) \subseteq S
    BY DEF FirstIn
  <2> HIDE DEF F
  <2> QED
    BY <2>1, <2>2, <2>3, <2>4
<1>13. Cardinality(F(m)) = k + 1
  <2> HIDE DEF F
  <2> QED
    BY <1>7, <1>8, <1>9, <1>12, FS_AddElement
<1> QED
  BY <1>4, <1>6, <1>13

--------------------------------------------------------------------------------
(* Legal sides, position by position. *)

LEMMA SquadParts ==
  /\ IsFiniteSet(Squad) /\ Squad \subseteq Nat \ {0}
  /\ IsFiniteSet(Positions)
  /\ \A x \in Squad : PositionOf[x] \in Positions
  /\ \A p \in Positions : XiMin[p] \in Nat \ {0} /\ XiMax[p] \in Nat
  /\ XiSize \in Nat
<1>1. PositionOrder \in Seq(Positions)
  BY SquadAssumption
<1>2. DOMAIN PositionOrder = 1..Len(PositionOrder) /\ Len(PositionOrder) \in Nat
  BY <1>1
<1>3. IsFiniteSet(DOMAIN PositionOrder)
  BY <1>2, FS_Interval
<1>4. IsFiniteSet(Positions)
  BY <1>3, FiniteImage DEF Positions, Range
<1> QED
  BY <1>4, SquadAssumption

LEMMA AtParts ==
  ASSUME NEW S \in SUBSET Squad, NEW p
  PROVE  /\ At(S, p) \in SUBSET S /\ At(S, p) \in SUBSET Squad
         /\ IsFiniteSet(S) /\ Cardinality(S) \in Nat
         /\ IsFiniteSet(At(S, p)) /\ Cardinality(At(S, p)) \in Nat
<1>1. At(S, p) \in SUBSET S
  BY DEF At
<1> QED
  BY <1>1, SquadParts, FS_Subset, FS_CardinalityType

(* The players of all positions are the side. *)
LEMMA CountsAdd ==
  ASSUME NEW S \in SUBSET Squad
  PROVE  SumFunction(Counts(S)) = Cardinality(S)
<1> DEFINE B == {T \in SUBSET S : SumFunction(Counts(T)) # Cardinality(T)}
<1> SUFFICES ASSUME B # {} PROVE FALSE
  BY DEF B
<1>1. IsFiniteSet(S) /\ IsFiniteSet(Positions)
  BY SquadParts, FS_Subset
<1>2. PICK T \in B : \A U \in B : U \subseteq T => U = T
  <2>1. B \in SUBSET SUBSET S
    OBVIOUS
  <2> HIDE DEF B
  <2> QED
    BY <1>1, <2>1, SmallestSet
<1>3. T \in SUBSET S /\ T \in SUBSET Squad /\ SumFunction(Counts(T)) # Cardinality(T)
  BY <1>2
<1> DEFINE Sum(U, P) == SumFunctionOnSet(Counts(U), P)
<1>4. \A U : SumFunction(Counts(U)) = Sum(U, Positions)
  BY DEF SumFunction, Counts
<1>5. \A U \in SUBSET Squad : \A P \in SUBSET Positions : IntOn(Counts(U), P)
  <2> TAKE U \in SUBSET Squad
  <2> TAKE P \in SUBSET Positions
  <2>1. IsFiniteSet(P)
    BY <1>1, FS_Subset
  <2>2. \A p \in P : Counts(U)[p] = Cardinality(At(U, p)) /\ Cardinality(At(U, p)) \in Nat
    BY AtParts DEF Counts
  <2> QED
    BY <2>1, <2>2 DEF IntOn
<1>6. T # {}
  <2>1. Cardinality({}) = 0
    BY FS_EmptySet
  <2>2. \A p \in Positions : Counts({})[p] = 0
    <3>1. \A p : At({}, p) = {}
      BY DEF At
    <3> QED
      BY <2>1, <3>1 DEF Counts
  <2>3. Sum({}, Positions) = 0
    <3> DEFINE BZ == {P \in SUBSET Positions : Sum({}, P) # 0}
    <3> SUFFICES ASSUME BZ # {} PROVE FALSE
      BY DEF BZ
    <3>1. PICK P \in BZ : \A U \in BZ : U \subseteq P => U = P
      <4>1. BZ \in SUBSET SUBSET Positions
        OBVIOUS
      <4> HIDE DEF BZ
      <4> QED
        BY <1>1, <4>1, SmallestSet
    <3>2. P \in SUBSET Positions /\ Sum({}, P) # 0
      BY <3>1
    <3>3. PICK p \in P : TRUE
      BY <3>2, SumEmpty
    <3>4. P \ {p} \notin BZ
      BY <3>1, <3>3
    <3>5. Sum({}, P \ {p}) = 0
      BY <3>2, <3>4
    <3>6. Sum({}, P) = Counts({})[p] + Sum({}, P \ {p})
      BY <1>5, <3>2, SumAdd
    <3> HIDE DEF Sum
    <3> QED
      BY <2>2, <3>2, <3>3, <3>5, <3>6
  <2> HIDE DEF Sum
  <2> QED
    BY <1>3, <1>4, <2>1, <2>3
<1>7. PICK x \in T : TRUE
  BY <1>6
<1> DEFINE u == T \ {x}
           q == PositionOf[x]
           rest == Positions \ {q}
<1>8. u \in SUBSET Squad /\ Sum(u, Positions) = Cardinality(u)
  <2>1. u \in SUBSET S /\ u \notin B
    BY <1>2, <1>3, <1>7
  <2>2. SumFunction(Counts(u)) = Cardinality(u)
    BY <2>1
  <2> QED
    BY <1>3, <1>4, <2>2
<1>9. q \in Positions
  BY <1>3, <1>7, SquadParts
<1>10. At(T, q) = At(u, q) \cup {x} /\ x \notin At(u, q) /\ \A p \in rest : At(T, p) = At(u, p)
  BY <1>7 DEF At
<1>11. Counts(T)[q] = Counts(u)[q] + 1 /\ Counts(u)[q] \in Nat
  <2>1. IsFiniteSet(At(u, q)) /\ Cardinality(At(u, q)) \in Nat
    BY <1>8, AtParts
  <2>2. Cardinality(At(T, q)) = Cardinality(At(u, q)) + 1
    <3> HIDE DEF u, q
    <3> QED
      BY <1>10, <2>1, FS_AddElement
  <2> QED
    BY <1>9, <2>1, <2>2 DEF Counts
<1>12. Sum(T, rest) = Sum(u, rest)
  <2>1. \A p \in rest : Counts(T)[p] = Counts(u)[p]
    BY <1>10 DEF Counts
  <2>2. IntOn(Counts(T), rest) /\ IntOn(Counts(u), rest)
    BY <1>3, <1>5, <1>8
  <2> QED
    BY <2>1, <2>2, SumSame DEF IntOn
<1>13. Sum(T, Positions) = Counts(T)[q] + Sum(T, rest) /\ Sum(u, Positions) = Counts(u)[q] + Sum(u, rest)
  BY <1>3, <1>5, <1>8, <1>9, SumAdd
<1>14. Sum(u, rest) \in Int
  BY <1>5, <1>8, SumInt
<1>15. Cardinality(T) = Cardinality(u) + 1 /\ Cardinality(u) \in Nat
  <2>1. IsFiniteSet(T)
    BY <1>3, AtParts
  <2>2. IsFiniteSet(u) /\ T = u \cup {x} /\ x \notin u
    BY <1>7, <2>1, FS_Subset
  <2> QED
    BY <2>2, FS_AddElement, FS_CardinalityType
<1>16. Sum(T, Positions) # Cardinality(T)
  BY <1>3, <1>4
<1> DEFINE a == Sum(u, rest)
           b == Counts(u)[q]
           c == Sum(T, Positions)
           e == Cardinality(u)
           g == Cardinality(T)
<1>17. a \in Int /\ b \in Nat /\ c = (b + 1) + a /\ e = b + a /\ g = e + 1 /\ c # g
  BY <1>8, <1>11, <1>12, <1>13, <1>14, <1>15, <1>16
<1> HIDE DEF a, b, c, e, g
<1> QED
  BY <1>17

(* The bounds of every position are kept. *)
InBounds(S) ==
  \A p \in Positions : XiMin[p] <= Cardinality(At(S, p)) /\ Cardinality(At(S, p)) <= XiMax[p]

LEMMA LegalMeans ==
  ASSUME NEW S \in SUBSET Squad
  PROVE  IsLegalXI(S) <=> Cardinality(S) = XiSize /\ InBounds(S)
<1>1. \A p \in Positions : Counts(S)[p] = Cardinality(At(S, p)) /\ Cardinality(At(S, p)) \in Nat
  BY AtParts DEF Counts
<1>2. \A p \in Positions : Counts(S)[p] \in XiMin[p]..XiMax[p]
                             <=> XiMin[p] <= Counts(S)[p] /\ Counts(S)[p] <= XiMax[p]
  BY <1>1, SquadParts
<1>3. Counts(S) \in WithinBounds <=> \A p \in Positions : Counts(S)[p] \in XiMin[p]..XiMax[p]
  <2>1. ASSUME \A p \in Positions : Counts(S)[p] \in XiMin[p]..XiMax[p]
        PROVE  Counts(S) \in [Positions -> UNION {XiMin[p]..XiMax[p] : p \in Positions}]
    <3> DEFINE V == UNION {XiMin[p]..XiMax[p] : p \in Positions}
    <3>1. \A p \in Positions : Counts(S)[p] \in V
      BY <2>1
    <3> HIDE DEF V
    <3>2. Counts(S) \in [Positions -> V]
      BY <3>1 DEF Counts
    <3> QED
      BY <3>2 DEF V
  <2> QED
    BY <2>1 DEF WithinBounds
<1>4. IsLegalXI(S) <=> Counts(S) \in WithinBounds /\ SumFunction(Counts(S)) = XiSize
  BY DEF IsLegalXI, LegalFormations
<1> QED
  BY <1>1, <1>2, <1>3, <1>4, CountsAdd DEF InBounds

(* A formation is within the bounds and can be fielded. *)
LEMMA FormationParts ==
  ASSUME NEW f \in LegalFormations, NEW p \in Positions
  PROVE  /\ f[p] \in Nat \ {0} /\ XiMin[p] <= f[p] /\ f[p] <= XiMax[p]
         /\ f[p] \in 0..Cardinality(At(Squad, p))
         /\ DOMAIN f = Positions
         /\ SumFunction(f) = XiSize
<1>1. f \in WithinBounds /\ SumFunction(f) = XiSize
  BY DEF LegalFormations
<1>2. f[p] \in XiMin[p]..XiMax[p] /\ DOMAIN f = Positions
  BY <1>1 DEF WithinBounds
<1>3. XiMin[p] \in Nat \ {0} /\ XiMax[p] \in Nat /\ XiMax[p] <= Cardinality(At(Squad, p))
  BY SquadParts, SquadAssumption
<1>4. Cardinality(At(Squad, p)) \in Nat
  BY AtParts
<1> QED
  BY <1>1, <1>2, <1>3, <1>4

--------------------------------------------------------------------------------
(* One player for another. *)
Swap(S, s, t) == (S \ {s}) \cup {t}

Values(v) == v \in [Squad -> Int]

LEMMA TotalParts ==
  ASSUME NEW v, Values(v), NEW S \in SUBSET Squad
  PROVE  /\ IntOn(v, S) /\ Total(S, v) \in Int
         /\ \A x \in S : Total(S, v) = v[x] + Total(S \ {x}, v)
<1>1. IntOn(v, S)
  BY AtParts DEF IntOn, Values
<1> QED
  BY <1>1, SumInt, SumAdd DEF Total

LEMMA SwapParts ==
  ASSUME NEW S \in SUBSET Squad, NEW s \in S, NEW t \in Squad \ S
  PROVE  /\ Swap(S, s, t) \in SUBSET Squad
         /\ Cardinality(Swap(S, s, t)) = Cardinality(S)
         /\ \A v : Values(v) => Total(Swap(S, s, t), v) = Total(S, v) - v[s] + v[t]
<1> DEFINE u == S \ {s}
           w == Swap(S, s, t)
<1>1. w \in SUBSET Squad /\ u \in SUBSET Squad /\ w \ {t} = u /\ t \in w /\ t \notin u /\ w = u \cup {t}
  BY DEF Swap
<1>2. S = u \cup {s} /\ s \notin u
  OBVIOUS
<1>3. IsFiniteSet(u) /\ Cardinality(u) \in Nat
  BY <1>1, AtParts
<1> HIDE DEF u, w
<1>4. Cardinality(w) = Cardinality(u) + 1 /\ Cardinality(S) = Cardinality(u) + 1
  BY <1>1, <1>2, <1>3, FS_AddElement
<1>5. ASSUME NEW v, Values(v) PROVE Total(w, v) = Total(S, v) - v[s] + v[t]
  <2> DEFINE a == Total(w, v)
             b == Total(S, v)
             c == Total(u, v)
  <2>1. a = v[t] + c
    BY <1>1, <1>5, TotalParts
  <2>2. S \ {s} = u
    BY <1>2
  <2>3. b = v[s] + c
    BY <1>5, <2>2, TotalParts
  <2>4. c \in Int /\ v[s] \in Int /\ v[t] \in Int
    BY <1>1, <1>5, TotalParts DEF Values
  <2> HIDE DEF a, b, c
  <2>5. a = b - v[s] + v[t]
    BY <2>1, <2>3, <2>4
  <2> QED
    BY <2>5 DEF a, b
<1> QED
  BY <1>1, <1>4, <1>5 DEF w

(* At how many of a position the swap leaves the side. *)
LEMMA SwapCounts ==
  ASSUME NEW S \in SUBSET Squad, NEW s \in S, NEW t \in Squad \ S, NEW p
  PROVE  LET n == Cardinality(At(S, p))
             m == Cardinality(At(Swap(S, s, t), p)) IN
           /\ PositionOf[s] = PositionOf[t] => m = n
           /\ PositionOf[s] # PositionOf[t] =>
                /\ p = PositionOf[s] => m = n - 1
                /\ p = PositionOf[t] => m = n + 1
                /\ p # PositionOf[s] /\ p # PositionOf[t] => m = n
<1> DEFINE A == At(S, p)
           w == Swap(S, s, t)
           Z == At(w, p)
           n == Cardinality(A)
           m == Cardinality(Z)
<1>1. IsFiniteSet(A) /\ n \in Nat
  BY AtParts
<1>2. w \in SUBSET Squad
  BY SwapParts
<1>3. IsFiniteSet(Z) /\ m \in Nat
  BY <1>2, AtParts
<1>4. CASE PositionOf[s] # p /\ PositionOf[t] # p
  <2>1. Z = A
    BY <1>4 DEF At, Swap
  <2> HIDE DEF A, Z
  <2>2. m = n
    BY <2>1
  <2> QED
    BY <1>4, <2>2 DEF A, Z
<1>5. CASE PositionOf[s] = p /\ PositionOf[t] # p
  <2>1. A = Z \cup {s} /\ s \notin Z
    BY <1>5 DEF At, Swap
  <2> HIDE DEF A, Z
  <2>2. n = m + 1
    BY <1>3, <2>1, FS_AddElement
  <2> HIDE DEF n, m
  <2>3. m = n - 1
    BY <1>1, <1>3, <2>2
  <2> QED
    BY <1>5, <2>3 DEF n, m, A, Z
<1>6. CASE PositionOf[s] # p /\ PositionOf[t] = p
  <2>1. Z = A \cup {t} /\ t \notin A
    BY <1>6 DEF At, Swap
  <2> HIDE DEF A, Z
  <2>2. m = n + 1
    BY <1>1, <2>1, FS_AddElement
  <2> QED
    BY <1>6, <2>2 DEF A, Z
<1>7. CASE PositionOf[s] = p /\ PositionOf[t] = p
  <2> DEFINE C == A \ {s}
  <2>1. A = C \cup {s} /\ s \notin C /\ Z = C \cup {t} /\ t \notin C
    BY <1>7 DEF At, Swap
  <2>2. IsFiniteSet(C)
    BY <1>1, FS_Subset
  <2> HIDE DEF A, Z, C
  <2>3. m = Cardinality(C) + 1 /\ n = Cardinality(C) + 1
    BY <2>1, <2>2, FS_AddElement
  <2>4. m = n
    BY <2>3
  <2> QED
    BY <1>7, <2>4 DEF A, Z
<1> QED
  BY <1>4, <1>5, <1>6, <1>7

(* A side within another of its size is that one. *)
LEMMA SameSize ==
  ASSUME NEW S \in SUBSET Squad, NEW T \in SUBSET Squad, Cardinality(S) = Cardinality(T), S # T
  PROVE  \E s \in S : s \notin T
<1>1. IsFiniteSet(T)
  BY AtParts
<1> QED
  BY <1>1, FS_Subset

--------------------------------------------------------------------------------
(* The best side of a formation, under an order of the squad. *)
BestSide(f, R) == UNION {FirstIn(At(Squad, p), R, f[p]) : p \in Positions}

(* Who is ahead is worth at least as much. *)
Worth(v, R) == Values(v) /\ \A x, y \in Squad : <<x, y>> \in R => v[x] >= v[y]

LEMMA BestSideParts ==
  ASSUME NEW R, Orders(R, Squad), NEW f \in LegalFormations
  PROVE  /\ BestSide(f, R) \in SUBSET Squad
         /\ \A p \in Positions : /\ At(BestSide(f, R), p) = FirstIn(At(Squad, p), R, f[p])
                                 /\ Cardinality(At(BestSide(f, R), p)) = f[p]
         /\ Counts(BestSide(f, R)) = f
         /\ IsLegalXI(BestSide(f, R))
<1> DEFINE T == BestSide(f, R)
<1>1. \A p : FirstIn(At(Squad, p), R, f[p]) \subseteq At(Squad, p)
  BY DEF FirstIn
<1>2. T \in SUBSET Squad
  BY <1>1 DEF BestSide, At
<1>3. \A p \in Positions : At(T, p) = FirstIn(At(Squad, p), R, f[p])
  <2> TAKE p \in Positions
  <2>1. \A x \in At(T, p) : x \in FirstIn(At(Squad, p), R, f[p])
    <3> TAKE x \in At(T, p)
    <3>1. x \in T /\ PositionOf[x] = p
      BY DEF At
    <3>2. PICK q \in Positions : x \in FirstIn(At(Squad, q), R, f[q])
      BY <3>1 DEF BestSide
    <3>3. PositionOf[x] = q
      BY <1>1, <3>2 DEF At
    <3> QED
      BY <3>1, <3>2, <3>3
  <2>2. \A x \in FirstIn(At(Squad, p), R, f[p]) : x \in At(T, p)
    <3> TAKE x \in FirstIn(At(Squad, p), R, f[p])
    <3>1. x \in At(Squad, p)
      BY <1>1
    <3>2. x \in T
      BY DEF BestSide
    <3> QED
      BY <3>1, <3>2 DEF At
  <2> QED
    BY <2>1, <2>2
<1>4. \A p \in Positions : Cardinality(At(T, p)) = f[p]
  <2> TAKE p \in Positions
  <2>1. f[p] \in 0..Cardinality(At(Squad, p))
    BY FormationParts
  <2>2. At(Squad, p) \in SUBSET Squad /\ IsFiniteSet(At(Squad, p))
    BY AtParts
  <2>3. Orders(R, At(Squad, p))
    BY <2>2, OrdersPart
  <2> QED
    BY <1>3, <2>1, <2>2, <2>3, FirstAreMany
<1> HIDE DEF T
<1>5. Counts(T) = f
  <2>1. f \in WithinBounds
    BY DEF LegalFormations
  <2>2. \E V : f \in [Positions -> V]
    BY <2>1 DEF WithinBounds
  <2> QED
    BY <1>4, <2>2 DEF Counts
<1> QED
  BY <1>2, <1>3, <1>4, <1>5 DEF T, IsLegalXI

(* No side of the same formation is worth more: one that is not the best    *)
(* has a player to give for a better one.                                   *)
LEMMA BetterSwap ==
  ASSUME NEW R, Orders(R, Squad), NEW f \in LegalFormations,
         NEW S \in SUBSET Squad, Counts(S) = f, S # BestSide(f, R)
  PROVE  \E s \in S, t \in BestSide(f, R) :
           /\ s \notin BestSide(f, R) /\ t \in Squad \ S
           /\ PositionOf[s] = PositionOf[t] /\ <<t, s>> \in R
           /\ Counts(Swap(S, s, t)) = f
<1> DEFINE T == BestSide(f, R)
<1>1. /\ T \in SUBSET Squad /\ Counts(T) = f
      /\ \A p \in Positions : /\ At(T, p) = FirstIn(At(Squad, p), R, f[p])
                              /\ Cardinality(At(T, p)) = f[p]
  BY BestSideParts
<1> HIDE DEF T
<1>2. \A p \in Positions : Cardinality(At(S, p)) = f[p] /\ At(S, p) \in SUBSET Squad /\ At(T, p) \in SUBSET Squad
  <2>1. \A p \in Positions : Counts(S)[p] = Cardinality(At(S, p))
    BY DEF Counts
  <2> QED
    BY <1>1, <2>1, AtParts
<1>3. Cardinality(S) = Cardinality(T)
  BY <1>1, CountsAdd
<1>4. PICK s \in S : s \notin T
  BY <1>1, <1>3, SameSize DEF T
<1> DEFINE p == PositionOf[s]
<1>5. p \in Positions /\ s \in At(S, p) /\ s \notin At(T, p) /\ s \in At(Squad, p)
  BY <1>4, SquadParts DEF At
<1> HIDE DEF p
<1>6. PICK t \in At(T, p) : t \notin At(S, p)
  BY <1>1, <1>2, <1>5, SameSize
<1>7. t \in T /\ t \in Squad \ S /\ PositionOf[t] = p /\ PositionOf[s] = p
  BY <1>1, <1>5, <1>6 DEF At
<1>8. <<t, s>> \in R
  <2>1. IsFiniteSet(At(Squad, p)) /\ Orders(R, At(Squad, p)) /\ f[p] \in Int
    <3>1. At(Squad, p) \in SUBSET Squad /\ IsFiniteSet(At(Squad, p))
      BY AtParts
    <3> QED
      BY <1>5, <3>1, OrdersPart, FormationParts
  <2>2. t \in FirstIn(At(Squad, p), R, f[p]) /\ s \in At(Squad, p) \ FirstIn(At(Squad, p), R, f[p])
    BY <1>1, <1>5, <1>6
  <2> QED
    BY <2>1, <2>2, FirstAreInFront
<1>9. Counts(Swap(S, s, t)) = Counts(S)
  <2>1. \A q : Cardinality(At(Swap(S, s, t), q)) = Cardinality(At(S, q))
    BY <1>4, <1>7, SwapCounts
  <2> QED
    BY <2>1 DEF Counts
<1> QED
  BY <1>4, <1>7, <1>8, <1>9 DEF T

LEMMA BestOfFormation ==
  ASSUME NEW R, Orders(R, Squad), NEW v, Worth(v, R), NEW f \in LegalFormations,
         NEW S \in SUBSET Squad, Counts(S) = f
  PROVE  Total(S, v) <= Total(BestSide(f, R), v)
<1> DEFINE T == BestSide(f, R)
           Bad == {U \in SUBSET Squad : Counts(U) = f /\ ~(Total(U, v) <= Total(T, v))}
           B == {U \ T : U \in Bad}
<1> SUFFICES ASSUME Bad # {} PROVE FALSE
  BY DEF Bad
<1>1. PICK D \in B : \A E \in B : E \subseteq D => E = D
  <2>1. B \in SUBSET SUBSET Squad /\ B # {} /\ IsFiniteSet(Squad)
    BY SquadParts
  <2> HIDE DEF B
  <2> QED
    BY <2>1, SmallestSet
<1>2. PICK U \in Bad : D = U \ T
  BY <1>1
<1>3. U \in SUBSET Squad /\ Counts(U) = f /\ ~(Total(U, v) <= Total(T, v)) /\ Values(v)
  BY <1>2 DEF Worth
<1>4. T \in SUBSET Squad
  BY BestSideParts
<1>5. Total(T, v) \in Int /\ Total(U, v) \in Int
  BY <1>3, <1>4, TotalParts
<1>6. U # T
  BY <1>3, <1>5
<1>7. PICK s \in U, t \in T :
        /\ s \notin T /\ t \in Squad \ U /\ <<t, s>> \in R
        /\ Counts(Swap(U, s, t)) = f
  BY <1>3, <1>6, BetterSwap
<1> DEFINE W == Swap(U, s, t)
<1>8. W \in SUBSET Squad /\ Total(W, v) = Total(U, v) - v[s] + v[t] /\ Counts(W) = f
  <2>1. Counts(W) = f
    BY <1>7
  <2>2. U \in SUBSET Squad /\ s \in U /\ t \in Squad \ U /\ Values(v)
    BY <1>3, <1>7
  <2> HIDE DEF Bad, T
  <2> QED
    BY <2>1, <2>2, SwapParts
<1>9. v[s] \in Int /\ v[t] \in Int /\ v[t] >= v[s]
  BY <1>3, <1>4, <1>7 DEF Worth, Values
<1>10. W \notin Bad
  <2>1. W \ T \subseteq D /\ W \ T # D
    BY <1>2, <1>7 DEF Swap
  <2>2. W \in Bad => W \ T \in B
    OBVIOUS
  <2> HIDE DEF Bad, B, W, T
  <2> QED
    BY <1>1, <2>1, <2>2
<1>11. Total(W, v) <= Total(T, v)
  BY <1>8, <1>10
<1> DEFINE a == Total(U, v)
           b == Total(T, v)
           c == Total(W, v)
<1>12. ~(a <= b) /\ a \in Int /\ b \in Int /\ c = a - v[s] + v[t] /\ c <= b
  BY <1>3, <1>5, <1>8, <1>11
<1> HIDE DEF a, b, c, W, T, Bad, B
<1> QED
  BY <1>9, <1>12

--------------------------------------------------------------------------------
(* The winner among the best sides of all formations. *)
LowestFirst == {r \in LegalFormations \X LegalFormations : Lower(r[1], r[2])}

LEMMA LowestOrders == Orders(LowestFirst, LegalFormations)
<1> DEFINE P == PositionOrder
           D == DOMAIN P
<1>1. D = 1..Len(P) /\ Len(P) \in Nat /\ \A i \in D : P[i] \in Positions
  <2>1. P \in Seq(Positions)
    BY SquadAssumption
  <2> QED
    BY <2>1
<1>2. \A f \in LegalFormations, i \in D : f[P[i]] \in Nat
  BY <1>1, FormationParts
<1>3. \A f, g \in LegalFormations : <<f, g>> \in LowestFirst <=> Lower(f, g)
  BY DEF LowestFirst
<1>4. ASSUME NEW f \in LegalFormations PROVE <<f, f>> \notin LowestFirst
  <2>1. ~Lower(f, f)
    BY <1>2 DEF Lower
  <2> QED
    BY <1>3, <2>1
<1>5. ASSUME NEW f \in LegalFormations, NEW g \in LegalFormations, NEW h \in LegalFormations,
             <<f, g>> \in LowestFirst, <<g, h>> \in LowestFirst
      PROVE  <<f, h>> \in LowestFirst
  <2>1. PICK i \in D : f[P[i]] < g[P[i]] /\ \A k \in 1..(i - 1) : f[P[k]] = g[P[k]]
    BY <1>3, <1>5 DEF Lower
  <2>2. PICK j \in D : g[P[j]] < h[P[j]] /\ \A k \in 1..(j - 1) : g[P[k]] = h[P[k]]
    BY <1>3, <1>5 DEF Lower
  <2>3. i \in 1..Len(P) /\ j \in 1..Len(P)
    BY <1>1
  <2>4. /\ f[P[i]] \in Nat /\ g[P[i]] \in Nat /\ h[P[i]] \in Nat
        /\ f[P[j]] \in Nat /\ g[P[j]] \in Nat /\ h[P[j]] \in Nat
    BY <1>2
  <2> HIDE DEF P, D
  <2>5. CASE i < j
    <3>1. i \in 1..(j - 1)
      BY <1>1, <2>3, <2>5
    <3>2. f[P[i]] < h[P[i]]
      BY <2>1, <2>2, <2>4, <3>1
    <3>3. \A k \in 1..(i - 1) : f[P[k]] = h[P[k]]
      <4> TAKE k \in 1..(i - 1)
      <4>1. k \in 1..(j - 1)
        BY <1>1, <2>3, <2>5
      <4> QED
        BY <2>1, <2>2, <4>1
    <3>4. Lower(f, h)
      BY <3>2, <3>3 DEF Lower, P, D
    <3> QED
      BY <1>3, <3>4
  <2>6. CASE ~(i < j)
    <3>1. f[P[j]] < h[P[j]]
      <4>1. CASE i = j
        BY <2>1, <2>2, <2>4, <4>1
      <4>2. CASE i # j
        <5>1. j \in 1..(i - 1)
          BY <1>1, <2>3, <2>6, <4>2
        <5> QED
          BY <2>1, <2>2, <5>1
      <4> QED
        BY <4>1, <4>2
    <3>2. \A k \in 1..(j - 1) : f[P[k]] = h[P[k]]
      <4> TAKE k \in 1..(j - 1)
      <4>1. k \in 1..(i - 1)
        BY <1>1, <2>3, <2>6
      <4> QED
        BY <2>1, <2>2, <4>1
    <3>3. Lower(f, h)
      BY <3>1, <3>2 DEF Lower, P, D
    <3> QED
      BY <1>3, <3>3
  <2> QED
    BY <2>5, <2>6
<1>6. ASSUME NEW f \in LegalFormations, NEW g \in LegalFormations, f # g
      PROVE  <<f, g>> \in LowestFirst \/ <<g, f>> \in LowestFirst
  <2> DEFINE K == {i \in D : f[P[i]] # g[P[i]]}
  <2>1. K # {}
    <3>1. \A x \in LegalFormations : x = [p \in Positions |-> x[p]]
      BY DEF LegalFormations, WithinBounds
    <3>2. PICK p \in Positions : f[p] # g[p]
      <4> SUFFICES ASSUME \A p \in Positions : f[p] = g[p] PROVE FALSE
        OBVIOUS
      <4>1. [p \in Positions |-> f[p]] = [p \in Positions |-> g[p]]
        OBVIOUS
      <4> QED
        BY <1>6, <3>1, <4>1
    <3>3. PICK i \in D : P[i] = p
      BY DEF Positions, Range
    <3> QED
      BY <3>2, <3>3
  <2>2. SomeInts(K)
    <3>1. K \in SUBSET (1..Len(P)) /\ IsFiniteSet(1..Len(P)) /\ 1..Len(P) \subseteq Int
      BY <1>1, FS_Interval
    <3> HIDE DEF K
    <3> QED
      BY <2>1, <3>1, FS_Subset DEF SomeInts
  <2> DEFINE i == Min(K)
  <2>3. i \in K /\ \A k \in K : i <= k
    <3> HIDE DEF K
    <3> QED
      BY <2>2, Extremes
  <2> HIDE DEF i
  <2>4. i \in D /\ f[P[i]] # g[P[i]]
    BY <2>3
  <2>5. \A k \in 1..(i - 1) : f[P[k]] = g[P[k]]
    <3> TAKE k \in 1..(i - 1)
    <3>1. k \in D /\ ~(i <= k)
      BY <1>1, <2>4
    <3> QED
      BY <2>3, <3>1
  <2>6. f[P[i]] \in Nat /\ g[P[i]] \in Nat
    BY <1>2, <2>4
  <2>7. Lower(f, g) \/ Lower(g, f)
    <3>1. f[P[i]] < g[P[i]] \/ g[P[i]] < f[P[i]]
      BY <2>4, <2>6
    <3> QED
      BY <2>4, <2>5, <3>1 DEF Lower
  <2> QED
    BY <1>3, <2>7
<1> QED
  BY <1>4, <1>5, <1>6 DEF Orders

(* There are finitely many totals and formations. *)
LEMMA FiniteTotals ==
  ASSUME NEW v
  PROVE  IsFiniteSet({Total(S, v) : S \in SUBSET Squad})
<1> DEFINE g == [S \in SUBSET Squad |-> Total(S, v)]
<1>1. IsFiniteSet({g[S] : S \in SUBSET Squad})
  BY SquadParts, FS_SUBSET, FiniteImage
<1>2. {g[S] : S \in SUBSET Squad} = {Total(S, v) : S \in SUBSET Squad}
  OBVIOUS
<1> QED
  BY <1>1, <1>2

LEMMA FiniteFormations ==
  ASSUME NEW R, Orders(R, Squad)
  PROVE  IsFiniteSet(LegalFormations)
<1> DEFINE g == [S \in SUBSET Squad |-> Counts(S)]
<1>1. IsFiniteSet({g[S] : S \in SUBSET Squad})
  BY SquadParts, FS_SUBSET, FiniteImage
<1>2. ASSUME NEW f \in LegalFormations PROVE f \in {g[S] : S \in SUBSET Squad}
  <2>1. BestSide(f, R) \in SUBSET Squad /\ Counts(BestSide(f, R)) = f
    BY BestSideParts
  <2>2. g[BestSide(f, R)] = f
    BY <2>1
  <2> QED
    BY <2>1, <2>2
<1>3. LegalFormations \subseteq {g[S] : S \in SUBSET Squad}
  BY <1>2
<1> QED
  BY <1>1, <1>3, FS_Subset

SideOf(f, v, R) == [formation |-> f, total |-> Total(BestSide(f, R), v)]
BestSides(v, R) == {SideOf(f, v, R) : f \in LegalFormations}

LEMMA WinnerParts ==
  ASSUME NEW R, Orders(R, Squad), NEW v, Worth(v, R)
  PROVE  LET w == Winner(BestSides(v, R)) IN
           /\ w.formation \in LegalFormations
           /\ w.total = Total(BestSide(w.formation, R), v)
           /\ w = SideOf(w.formation, v, R)
           /\ w \in BestSides(v, R)
           /\ \A S \in SUBSET Squad : IsLegalXI(S) => Total(S, v) <= w.total
<1> DEFINE sides == BestSides(v, R)
           totals == {s.total : s \in sides}
           top == Max(totals)
           level == {s.formation : s \in {t \in sides : t.total = top}}
           first == CHOOSE f \in level : \A g \in level \ {f} : Lower(f, g)
           w == Winner(sides)
<1>1. w = [formation |-> first, total |-> top]
  BY DEF Winner
<1>2. Values(v) /\ LegalFormations # {}
  BY SquadAssumption DEF Worth
<1>3. \A f \in LegalFormations : BestSide(f, R) \in SUBSET Squad /\ Total(BestSide(f, R), v) \in Int
  BY <1>2, BestSideParts, TotalParts
<1>4. \A f : SideOf(f, v, R).formation = f /\ SideOf(f, v, R).total = Total(BestSide(f, R), v)
  BY DEF SideOf
<1>5. totals = {Total(BestSide(f, R), v) : f \in LegalFormations}
  BY <1>4 DEF BestSides
<1>6. SomeInts(totals)
  <2> DEFINE all == {Total(S, v) : S \in SUBSET Squad}
  <2>1. totals \in SUBSET all
    BY <1>3, <1>5
  <2>2. totals \subseteq Int /\ totals # {}
    BY <1>2, <1>3, <1>5
  <2>3. IsFiniteSet(all)
    BY FiniteTotals
  <2> HIDE DEF totals, all
  <2> QED
    BY <2>1, <2>2, <2>3, FS_Subset DEF SomeInts
<1>7. top \in totals /\ \A y \in totals : y <= top
  <2> HIDE DEF totals
  <2> QED
    BY <1>6, Extremes
<1>8. level = {f \in LegalFormations : Total(BestSide(f, R), v) = top}
  <2> HIDE DEF top, totals
  <2> QED
    BY <1>4 DEF BestSides
<1>9. level # {} /\ level \in SUBSET LegalFormations
  <2>1. PICK f \in LegalFormations : top = Total(BestSide(f, R), v)
    <3> HIDE DEF top
    <3> QED
      BY <1>5, <1>7
  <2> HIDE DEF level, top
  <2> QED
    BY <1>8, <2>1
<1>10. first \in level
  <2>1. IsFiniteSet(level) /\ Orders(LowestFirst, level)
    <3> HIDE DEF level
    <3> QED
      BY <1>9, FiniteFormations, FS_Subset, LowestOrders, OrdersPart
  <2>2. PICK f \in level : \A g \in level \ {f} : <<f, g>> \in LowestFirst
    <3> HIDE DEF level
    <3> QED
      BY <1>9, <2>1, FirstOf
  <2>3. \A g \in level \ {f} : Lower(f, g)
    BY <2>2 DEF LowestFirst
  <2> HIDE DEF level
  <2> QED
    BY <2>2, <2>3
<1> HIDE DEF first
<1>11. first \in LegalFormations /\ top = Total(BestSide(first, R), v)
  <2> HIDE DEF level, top
  <2> QED
    BY <1>8, <1>10
<1>12. ASSUME NEW S \in SUBSET Squad, IsLegalXI(S) PROVE Total(S, v) <= top
  <2> DEFINE f == Counts(S)
  <2>1. f \in LegalFormations
    BY <1>12 DEF IsLegalXI
  <2>2. Total(S, v) <= Total(BestSide(f, R), v)
    BY <2>1, BestOfFormation
  <2>3. Total(BestSide(f, R), v) <= top
    <3> HIDE DEF top, totals, f
    <3> QED
      BY <1>5, <1>7, <2>1
  <2>4. Total(S, v) \in Int /\ Total(BestSide(f, R), v) \in Int /\ top \in Int
    <3>1. top \in Int
      <4> HIDE DEF top
      <4> QED
        BY <1>3, <1>11
    <3> HIDE DEF top, f
    <3> QED
      BY <1>2, <1>3, <2>1, <3>1, TotalParts
  <2> DEFINE a == Total(S, v)
             b == Total(BestSide(f, R), v)
  <2> HIDE DEF a, b, top
  <2>5. a <= top
    BY <2>2, <2>3, <2>4 DEF a, b
  <2> QED
    BY <2>5 DEF a
<1>13. /\ w.formation = first /\ w.total = top
       /\ w = SideOf(first, v, R) /\ w \in BestSides(v, R)
  <2> HIDE DEF top, w
  <2>1. w = SideOf(first, v, R)
    BY <1>1, <1>11 DEF SideOf
  <2> QED
    BY <1>1, <1>11, <2>1 DEF BestSides
<1> HIDE DEF top, w
<1>14. /\ w.formation \in LegalFormations
       /\ w.total = Total(BestSide(w.formation, R), v)
       /\ w = SideOf(w.formation, v, R)
       /\ w \in BestSides(v, R)
       /\ \A S \in SUBSET Squad : IsLegalXI(S) => Total(S, v) <= w.total
  BY <1>11, <1>12, <1>13
<1> QED
  BY <1>14 DEF w

--------------------------------------------------------------------------------
(* The best side in hindsight, under the order by points. *)
ByPoints(v) == {r \in Squad \X Squad : Scores(v, r[1], r[2])}

LEMMA ByPointsOrders ==
  ASSUME NEW v, Values(v)
  PROVE  Orders(ByPoints(v), Squad) /\ Worth(v, ByPoints(v))
<1>1. \A x \in Squad : v[x] \in Int /\ x \in Int
  BY SquadParts DEF Values
<1>2. \A x, y \in Squad : <<x, y>> \in ByPoints(v) <=> Scores(v, x, y)
  BY DEF ByPoints
<1>3. \A x, y, z \in Squad : Scores(v, x, y) /\ Scores(v, y, z) => Scores(v, x, z)
  BY <1>1 DEF Scores
<1>4. \A x \in Squad : ~Scores(v, x, x)
  BY <1>1 DEF Scores
<1>5. \A x, y \in Squad : x = y \/ Scores(v, x, y) \/ Scores(v, y, x)
  BY <1>1 DEF Scores
<1>6. \A x, y \in Squad : Scores(v, x, y) => v[x] >= v[y]
  BY <1>1 DEF Scores
<1> QED
  BY <1>2, <1>3, <1>4, <1>5, <1>6 DEF Orders, Worth

Changeable(f) == {p \in Positions : f[p] < Cardinality(At(Squad, p))}
Demotion(xi1, v, p) == Min({v[x] : x \in At(xi1, p)}) - Max({v[x] : x \in At(Squad \ xi1, p)})
Demotions(xi1, f, v) == {Demotion(xi1, v, p) : p \in Changeable(f)}

Hindsight(v) == Winner(BestSides(v, ByPoints(v)))
HindsightXI(v) == BestSide(Hindsight(v).formation, ByPoints(v))
OtherTotals(v) == {s.total : s \in BestSides(v, ByPoints(v)) \ {Hindsight(v)}}
SecondTotal(v) ==
  Max(OtherTotals(v) \cup {Hindsight(v).total - Min(Demotions(HindsightXI(v), Hindsight(v).formation, v))})

LEMMA BestLegalXIParts ==
  ASSUME NEW v
  PROVE  BestLegalXI(v) = [xi |-> HindsightXI(v), best |-> Hindsight(v).total, second |-> SecondTotal(v)]
<1> DEFINE A(x, y) == Scores(v, x, y)
           R == ByPoints(v)
<1>1. \A p, n : Top(p, n, A) = FirstIn(At(Squad, p), R, n)
  BY DEF Top, FirstIn, InFrontOf, At, ByPoints
<1>2. \A f : Pick(f, A) = BestSide(f, R)
  BY <1>1 DEF Pick, BestSide
<1>3. Sides(v, A) = BestSides(v, R)
  BY <1>2 DEF Sides, BestSides, SideOf
<1> QED
  BY <1>2, <1>3 DEF BestLegalXI, HindsightXI, Hindsight, SecondTotal, OtherTotals, Demotions, Demotion, Changeable

(* No legal side totals more. *)
LEMMA BestIsBest ==
  ASSUME NEW v, Values(v)
  PROVE  /\ HindsightXI(v) \in SUBSET Squad /\ IsLegalXI(HindsightXI(v))
         /\ Counts(HindsightXI(v)) = Hindsight(v).formation
         /\ Hindsight(v).formation \in LegalFormations
         /\ Hindsight(v) = SideOf(Hindsight(v).formation, v, ByPoints(v))
         /\ Hindsight(v).total = Total(HindsightXI(v), v)
         /\ Hindsight(v).total \in Int
         /\ \A S \in SUBSET Squad : IsLegalXI(S) => Total(S, v) <= Hindsight(v).total
<1> DEFINE R == ByPoints(v)
<1>1. Orders(R, Squad) /\ Worth(v, R)
  BY ByPointsOrders
<1> HIDE DEF R
<1>2. LET w == Winner(BestSides(v, R)) IN
           /\ w.formation \in LegalFormations
           /\ w.total = Total(BestSide(w.formation, R), v)
           /\ w = SideOf(w.formation, v, R)
           /\ \A S \in SUBSET Squad : IsLegalXI(S) => Total(S, v) <= w.total
  BY <1>1, WinnerParts
<1> DEFINE w == Hindsight(v)
<1>3. /\ w.formation \in LegalFormations
      /\ w.total = Total(HindsightXI(v), v)
      /\ w = SideOf(w.formation, v, R)
      /\ \A S \in SUBSET Squad : IsLegalXI(S) => Total(S, v) <= w.total
  BY <1>2 DEF R, Hindsight, HindsightXI
<1>4. /\ HindsightXI(v) \in SUBSET Squad /\ IsLegalXI(HindsightXI(v))
      /\ Counts(HindsightXI(v)) = w.formation
  <2> HIDE DEF w
  <2>1. HindsightXI(v) = BestSide(w.formation, R)
    BY DEF w, R, HindsightXI
  <2> QED
    BY <1>1, <1>3, <2>1, BestSideParts
<1>5. w.total \in Int
  BY <1>3, <1>4, TotalParts
<1> QED
  BY <1>3, <1>4, <1>5 DEF R

LEMMA LegalXIMeans ==
  \A S : S \in LegalXIs <=> S \in SUBSET Squad /\ IsLegalXI(S)
BY LegalMeans DEF LegalXIs, kSubset

(* What a position's demotion costs: the starter who is worth least gives   *)
(* way to the substitute who is worth most, and that is a legal side.       *)
LEMMA DemotionParts ==
  ASSUME NEW v, Values(v), NEW f \in LegalFormations, NEW S \in SUBSET Squad, Counts(S) = f,
         NEW p \in Changeable(f)
  PROVE  /\ Demotion(S, v, p) \in Int
         /\ \A s \in At(S, p), t \in At(Squad \ S, p) : Demotion(S, v, p) <= v[s] - v[t]
         /\ \E s \in At(S, p), t \in At(Squad \ S, p) : Demotion(S, v, p) = v[s] - v[t]
<1> DEFINE In == {v[x] : x \in At(S, p)}
           Out == {v[x] : x \in At(Squad \ S, p)}
<1>1. p \in Positions /\ f[p] < Cardinality(At(Squad, p)) /\ f[p] \in Nat \ {0}
  BY FormationParts DEF Changeable
<1>2. Cardinality(At(S, p)) = f[p]
  BY <1>1 DEF Counts
<1>3. /\ IsFiniteSet(At(S, p)) /\ IsFiniteSet(At(Squad \ S, p)) /\ IsFiniteSet(At(Squad, p))
      /\ Cardinality(At(Squad, p)) \in Nat
  BY AtParts
<1>4. At(S, p) # {}
  BY <1>1, <1>2, FS_EmptySet
<1>5. At(Squad \ S, p) # {}
  <2> SUFFICES ASSUME At(Squad \ S, p) = {} PROVE FALSE
    OBVIOUS
  <2>1. At(Squad, p) = At(S, p)
    BY DEF At
  <2> QED
    BY <1>1, <1>2, <1>3, <2>1
<1>6. \A x \in At(S, p) \cup At(Squad \ S, p) : v[x] \in Int
  BY DEF Values, At
<1>7. SomeInts(In) /\ SomeInts(Out)
  <2>1. IsFiniteSet(In) /\ IsFiniteSet(Out)
    BY <1>3, FiniteImage
  <2> QED
    BY <1>4, <1>5, <1>6, <2>1 DEF SomeInts
<1>8. /\ Min(In) \in In /\ \A y \in In : Min(In) <= y
      /\ Max(Out) \in Out /\ \A y \in Out : y <= Max(Out)
  <2> HIDE DEF In, Out
  <2> QED
    BY <1>7, Extremes
<1> DEFINE a == Min(In)
           b == Max(Out)
<1>9. Demotion(S, v, p) = a - b
  BY DEF Demotion
<1>10. /\ \A s \in At(S, p) : a <= v[s]
       /\ \A t \in At(Squad \ S, p) : v[t] <= b
       /\ \E s \in At(S, p) : a = v[s]
       /\ \E t \in At(Squad \ S, p) : b = v[t]
  <2> HIDE DEF a, b
  <2> QED
    BY <1>8 DEF a, b
<1> HIDE DEF a, b, In, Out
<1>11. a \in Int /\ b \in Int
  BY <1>6, <1>10
<1>12. ASSUME NEW s \in At(S, p), NEW t \in At(Squad \ S, p)
       PROVE  a - b <= v[s] - v[t]
  <2>1. a <= v[s] /\ v[t] <= b /\ v[s] \in Int /\ v[t] \in Int
    BY <1>6, <1>10
  <2> QED
    BY <1>11, <2>1
<1>13. \E s \in At(S, p), t \in At(Squad \ S, p) : a - b = v[s] - v[t]
  <2>1. PICK s \in At(S, p) : a = v[s]
    BY <1>10
  <2>2. PICK t \in At(Squad \ S, p) : b = v[t]
    BY <1>10
  <2>3. a - b = v[s] - v[t]
    BY <2>1, <2>2
  <2> QED
    BY <2>3
<1>14. a - b \in Int
  BY <1>11
<1> QED
  BY <1>9, <1>12, <1>13, <1>14

LEMMA DemotionsParts ==
  ASSUME NEW v, Values(v), NEW f \in LegalFormations, NEW S \in SUBSET Squad, Counts(S) = f
  PROVE  /\ \E p \in Changeable(f) : Min(Demotions(S, f, v)) = Demotion(S, v, p)
         /\ \A p \in Changeable(f) : Min(Demotions(S, f, v)) <= Demotion(S, v, p)
<1> DEFINE B == Demotions(S, f, v)
<1>1. SomeInts(B)
  <2>1. B \subseteq Int
    <3>1. \A p \in Changeable(f) : Demotion(S, v, p) \in Int
      BY DemotionParts
    <3> QED
      BY <3>1 DEF Demotions
  <2>2. GK \in Changeable(f)
    <3>1. f[GK] = 1 /\ GK \in Positions /\ Cardinality(At(Squad, GK)) = 2
      BY WeekAssumption, FormationParts
    <3> QED
      BY <3>1 DEF Changeable
  <2>3. IsFiniteSet(B)
    <3> DEFINE g == [p \in Changeable(f) |-> Demotion(S, v, p)]
    <3>1. Changeable(f) \in SUBSET Positions
      BY DEF Changeable
    <3>2. IsFiniteSet(Changeable(f))
      BY <3>1, SquadParts, FS_Subset
    <3>3. IsFiniteSet({g[p] : p \in Changeable(f)})
      BY <3>2, FiniteImage
    <3>4. {g[p] : p \in Changeable(f)} = B
      BY DEF Demotions
    <3> QED
      BY <3>3, <3>4
  <2>4. B # {}
    BY <2>2 DEF Demotions
  <2> QED
    BY <2>1, <2>3, <2>4 DEF SomeInts
<1>2. Min(B) \in B /\ \A y \in B : Min(B) <= y
  <2> HIDE DEF B
  <2> QED
    BY <1>1, Extremes
<1> QED
  BY <1>2 DEF Demotions

(* The second total is the best of the legal sides but one: a side of       *)
(* another formation is no better than its best, and one of the same        *)
(* formation lacks a starter for whom a substitute plays.                   *)
LEMMA SecondIsSecond ==
  ASSUME NEW v, Values(v)
  PROVE  /\ Hindsight(v).total = Max({Total(S, v) : S \in LegalXIs})
         /\ SecondTotal(v) = Max({Total(S, v) : S \in LegalXIs \ {HindsightXI(v)}})
<1> DEFINE R == ByPoints(v)
           w == Hindsight(v)
           f == w.formation
           T == HindsightXI(v)
           d == Min(Demotions(T, f, v))
           few == OtherTotals(v) \cup {w.total - d}
           all == {Total(S, v) : S \in LegalXIs}
           others == {Total(S, v) : S \in LegalXIs \ {T}}
           every == {Total(S, v) : S \in SUBSET Squad}
<1>1. Orders(R, Squad) /\ Worth(v, R)
  BY ByPointsOrders
<1> HIDE DEF w, T, R
<1>2. /\ T \in SUBSET Squad /\ IsLegalXI(T) /\ Counts(T) = f /\ f \in LegalFormations
      /\ w = SideOf(f, v, R)
      /\ w.total = Total(T, v) /\ w.total \in Int
      /\ \A S \in SUBSET Squad : IsLegalXI(S) => Total(S, v) <= w.total
  BY BestIsBest DEF w, T, R
<1>3. T = BestSide(f, R)
  BY DEF w, T, R, HindsightXI
<1>4. OtherTotals(v) = {Total(BestSide(g, R), v) : g \in LegalFormations \ {f}}
  <2>1. \A g : SideOf(g, v, R).formation = g /\ SideOf(g, v, R).total = Total(BestSide(g, R), v)
    BY DEF SideOf
  <2>2. \A g : SideOf(g, v, R) = w <=> g = f
    BY <1>2, <2>1
  <2>3. BestSides(v, R) \ {w} = {SideOf(g, v, R) : g \in LegalFormations \ {f}}
    BY <2>2 DEF BestSides
  <2>4. OtherTotals(v) = {s.total : s \in BestSides(v, R) \ {w}}
    BY DEF OtherTotals, w, R
  <2> HIDE DEF f
  <2> QED
    BY <2>1, <2>3, <2>4
<1> HIDE DEF f
<1>5. /\ \E p \in Changeable(f) : d = Demotion(T, v, p)
      /\ \A p \in Changeable(f) : d <= Demotion(T, v, p)
  BY <1>2, DemotionsParts
<1> HIDE DEF d
<1>6. d \in Int
  <2>1. PICK p \in Changeable(f) : d = Demotion(T, v, p)
    BY <1>5
  <2>2. Demotion(T, v, p) \in Int
    BY <1>2, DemotionParts
  <2> QED
    BY <2>1, <2>2
<1>7. \A g \in LegalFormations : /\ BestSide(g, R) \in LegalXIs /\ Counts(BestSide(g, R)) = g
  BY <1>1, BestSideParts, LegalXIMeans
<1>8. few \subseteq others
  <2>1. OtherTotals(v) \subseteq others
    <3>1. \A g \in LegalFormations \ {f} : BestSide(g, R) \in LegalXIs \ {T}
      BY <1>2, <1>7
    <3> QED
      BY <1>4, <3>1
  <2>2. w.total - d \in others
    <3>1. PICK p \in Changeable(f) : d = Demotion(T, v, p)
      BY <1>5
    <3>2. PICK s \in At(T, p), t \in At(Squad \ T, p) : d = v[s] - v[t]
      BY <1>2, <3>1, DemotionParts
    <3>3. s \in T /\ t \in Squad \ T /\ PositionOf[s] = PositionOf[t]
      BY DEF At
    <3> DEFINE U == Swap(T, s, t)
    <3>4. U \in SUBSET Squad /\ Total(U, v) = w.total - v[s] + v[t]
      BY <1>2, <3>3, SwapParts
    <3>5. Counts(U) = Counts(T)
      <4>1. \A q : Cardinality(At(U, q)) = Cardinality(At(T, q))
        BY <1>2, <3>3, SwapCounts
      <4> QED
        BY <4>1 DEF Counts
    <3>6. U \in LegalXIs
      BY <1>2, <3>4, <3>5, LegalXIMeans DEF IsLegalXI
    <3>7. U # T
      BY <3>3 DEF Swap
    <3>8. w.total - v[s] + v[t] = w.total - d
      <4>1. v[s] \in Int /\ v[t] \in Int
        BY <1>2, <3>3 DEF Values
      <4> QED
        BY <1>2, <3>2, <4>1
    <3> HIDE DEF U
    <3> QED
      BY <3>4, <3>6, <3>7, <3>8
  <2> QED
    BY <2>1, <2>2
<1>9. ASSUME NEW S \in LegalXIs \ {T} PROVE \E y \in few : Total(S, v) <= y
  <2>1. S \in SUBSET Squad /\ IsLegalXI(S) /\ S # T
    BY <1>9, LegalXIMeans
  <2> DEFINE g == Counts(S)
  <2>2. g \in LegalFormations
    BY <2>1 DEF IsLegalXI
  <2>3. CASE g # f
    <3>1. Total(S, v) <= Total(BestSide(g, R), v)
      BY <1>1, <2>1, <2>2, BestOfFormation
    <3>2. Total(BestSide(g, R), v) \in OtherTotals(v)
      <4> HIDE DEF g
      <4> QED
        BY <1>4, <2>2, <2>3
    <3> HIDE DEF g
    <3> QED
      BY <3>1, <3>2
  <2>4. CASE g = f
    <3>1. PICK s \in S, t \in T :
            /\ s \notin T /\ t \in Squad \ S /\ PositionOf[s] = PositionOf[t]
            /\ Counts(Swap(S, s, t)) = f
      <4>1. Counts(S) = f /\ S # BestSide(f, R)
        BY <1>3, <2>1, <2>4
      <4> HIDE DEF g
      <4>2. \E s \in S, t \in BestSide(f, R) :
              /\ s \notin BestSide(f, R) /\ t \in Squad \ S
              /\ PositionOf[s] = PositionOf[t] /\ <<t, s>> \in R
              /\ Counts(Swap(S, s, t)) = f
        BY <1>1, <1>2, <2>1, <4>1, BetterSwap
      <4> QED
        BY <1>3, <4>2
    <3> DEFINE p == PositionOf[s]
               U == Swap(S, s, t)
    <3>2. U \in SUBSET Squad /\ Total(U, v) = Total(S, v) - v[s] + v[t]
      BY <2>1, <3>1, SwapParts
    <3>3. Total(U, v) <= w.total
      BY <1>2, <3>1, <3>2 DEF IsLegalXI
    <3>4. p \in Positions /\ t \in At(T, p) /\ s \in At(Squad \ T, p)
      BY <2>1, <3>1, SquadParts DEF At
    <3>5. p \in Changeable(f)
      <4>1. At(T, p) \in SUBSET At(Squad, p) /\ s \in At(Squad, p) /\ s \notin At(T, p)
        BY <1>2, <3>4 DEF At
      <4>2. IsFiniteSet(At(Squad, p))
        BY AtParts
      <4>3. Cardinality(At(T, p)) < Cardinality(At(Squad, p))
        <5> HIDE DEF p
        <5>1. Cardinality(At(T, p)) <= Cardinality(At(Squad, p)) /\ Cardinality(At(T, p)) # Cardinality(At(Squad, p))
          BY <4>1, <4>2, FS_Subset
        <5>2. Cardinality(At(T, p)) \in Nat /\ Cardinality(At(Squad, p)) \in Nat
          BY <1>2, AtParts
        <5> QED
          BY <5>1, <5>2
      <4>4. f[p] = Cardinality(At(T, p))
        BY <1>2, <3>4 DEF Counts
      <4> QED
        BY <3>4, <4>3, <4>4 DEF Changeable
    <3>6. Demotion(T, v, p) <= v[t] - v[s] /\ Demotion(T, v, p) \in Int /\ d <= Demotion(T, v, p)
      BY <1>2, <1>5, <3>4, <3>5, DemotionParts
    <3>7. v[s] \in Int /\ v[t] \in Int /\ Total(S, v) \in Int
      BY <1>2, <2>1, <3>1, TotalParts DEF Values
    <3> DEFINE a == Total(S, v)
               b == w.total
               e == Demotion(T, v, p)
               u == Total(U, v)
    <3>8. u = a - v[s] + v[t] /\ u <= b /\ e <= v[t] - v[s] /\ d <= e
          /\ a \in Int /\ b \in Int /\ e \in Int
      BY <1>2, <3>2, <3>3, <3>6, <3>7
    <3> HIDE DEF a, b, e, u
    <3>9. a <= b - d
      BY <1>6, <3>7, <3>8
    <3> QED
      BY <3>9 DEF a, b
  <2> QED
    BY <2>3, <2>4
<1>10. T \in LegalXIs /\ all \in SUBSET every /\ others \in SUBSET every /\ few # {}
  BY <1>2, LegalXIMeans
<1>11. IsFiniteSet(every) /\ every \subseteq Int
  <2>1. every \subseteq Int
    BY TotalParts
  <2> QED
    BY <2>1, FiniteTotals
<1>12. w.total \in all /\ \A y \in all : y <= w.total
  BY <1>2, <1>10, LegalXIMeans
<1>13. \A o \in others : \E y \in few : o <= y
  BY <1>9
<1>14. SomeInts(all) /\ SomeInts(others) /\ SomeInts(few)
  <2> HIDE DEF all, others, every, few
  <2>1. few \in SUBSET every
    BY <1>8, <1>10
  <2>2. others # {}
    BY <1>8, <1>10
  <2> QED
    BY <1>10, <1>11, <1>12, <2>1, <2>2, FS_Subset DEF SomeInts
<1>15. w.total = Max(all)
  <2> HIDE DEF all
  <2>1. Max(all) \in all /\ \A y \in all : y <= Max(all)
    BY <1>14, Extremes
  <2>2. Max(all) \in Int
    BY <1>14, <2>1 DEF SomeInts
  <2> HIDE DEF w
  <2>3. w.total <= Max(all) /\ Max(all) <= w.total
    BY <1>12, <2>1
  <2> DEFINE m == Max(all)
  <2> HIDE DEF m
  <2>4. w.total = m
    BY <1>2, <2>2, <2>3 DEF m
  <2> QED
    BY <2>4 DEF m
<1>16. Max(few) = Max(others)
  <2> HIDE DEF few, others
  <2>1. /\ Max(few) \in few /\ \A y \in few : y <= Max(few)
        /\ Max(others) \in others /\ \A y \in others : y <= Max(others)
    BY <1>14, Extremes
  <2> DEFINE m == Max(few)
             n == Max(others)
  <2>2. m <= n
    BY <1>8, <2>1
  <2>3. PICK y \in few : n <= y
    BY <1>13, <2>1
  <2>4. y <= m
    BY <2>1, <2>3
  <2>5. m \in Int /\ n \in Int /\ y \in Int
    BY <1>14, <2>1, <2>3 DEF SomeInts
  <2> HIDE DEF m, n
  <2>6. m = n
    BY <2>2, <2>3, <2>4, <2>5
  <2> QED
    BY <2>6 DEF m, n
<1>17. SecondTotal(v) = Max(few)
  BY DEF SecondTotal, f, w, T, d
<1> QED
  BY <1>15, <1>16, <1>17 DEF w, T

--------------------------------------------------------------------------------
(* Sums over sets of players. *)

LEMMA SumZero ==
  ASSUME NEW f, NEW S, IsFiniteSet(S), \A x \in S : f[x] = 0
  PROVE  SumFunctionOnSet(f, S) = 0
<1> DEFINE g == [x \in S |-> 0]
           h == [x \in S |-> 0 - f[x]]
<1>1. IntOn(f, S) /\ IntOn(g, S)
  BY DEF IntOn
<1> DEFINE B == {T \in SUBSET S : SumFunctionOnSet(f, T) # 0}
<1> SUFFICES ASSUME B # {} PROVE FALSE
  OBVIOUS
<1>2. PICK T \in B : \A U \in B : U \subseteq T => U = T
  <2>1. B \in SUBSET SUBSET S
    OBVIOUS
  <2> HIDE DEF B
  <2> QED
    BY <2>1, SmallestSet
<1>3. T \in SUBSET S /\ SumFunctionOnSet(f, T) # 0
  BY <1>2
<1>4. PICK x \in T : TRUE
  BY <1>3, SumEmpty
<1>5. SumFunctionOnSet(f, T \ {x}) = 0
  BY <1>2, <1>3, <1>4
<1>6. IntOn(f, T)
  BY <1>1, <1>3, FS_Subset DEF IntOn
<1>7. SumFunctionOnSet(f, T) = f[x] + SumFunctionOnSet(f, T \ {x})
  BY <1>4, <1>6, SumAdd
<1> QED
  BY <1>3, <1>4, <1>5, <1>7

(* Everybody worth m more. *)
LEMMA SumShift ==
  ASSUME NEW f, NEW g, NEW S, IntOn(g, S), NEW m \in Int, \A x \in S : f[x] = g[x] + m
  PROVE  SumFunctionOnSet(f, S) = SumFunctionOnSet(g, S) + m * Cardinality(S)
<1> DEFINE B == {T \in SUBSET S : SumFunctionOnSet(f, T) # SumFunctionOnSet(g, T) + m * Cardinality(T)}
<1> SUFFICES ASSUME B # {} PROVE FALSE
  OBVIOUS
<1>1. IsFiniteSet(S) /\ IntOn(f, S)
  BY DEF IntOn
<1>2. PICK T \in B : \A U \in B : U \subseteq T => U = T
  <2>1. B \in SUBSET SUBSET S
    OBVIOUS
  <2> HIDE DEF B
  <2> QED
    BY <1>1, <2>1, SmallestSet
<1>3. T \in SUBSET S /\ SumFunctionOnSet(f, T) # SumFunctionOnSet(g, T) + m * Cardinality(T)
  BY <1>2
<1>4. T # {}
  <2>1. SumFunctionOnSet(f, {}) = 0 /\ SumFunctionOnSet(g, {}) = 0
    BY SumEmpty
  <2>2. m * Cardinality({}) = 0
    <3>1. m * 0 = 0
      OBVIOUS
    <3> QED
      BY <3>1, FS_EmptySet
  <2>3. SumFunctionOnSet(f, {}) = SumFunctionOnSet(g, {}) + m * Cardinality({})
    BY <2>1, <2>2
  <2> QED
    BY <1>3, <2>3
<1>5. PICK x \in T : TRUE
  BY <1>4
<1> DEFINE u == T \ {x}
<1>6. SumFunctionOnSet(f, u) = SumFunctionOnSet(g, u) + m * Cardinality(u)
  BY <1>2, <1>3, <1>5
<1>7. IntOn(f, T) /\ IntOn(g, T) /\ IntOn(g, u) /\ IsFiniteSet(u) /\ IsFiniteSet(T)
  BY <1>1, <1>3, FS_Subset DEF IntOn
<1>8. /\ SumFunctionOnSet(f, T) = f[x] + SumFunctionOnSet(f, u)
      /\ SumFunctionOnSet(g, T) = g[x] + SumFunctionOnSet(g, u)
  BY <1>5, <1>7, SumAdd
<1>9. f[x] = g[x] + m /\ g[x] \in Int /\ SumFunctionOnSet(g, u) \in Int
  BY <1>3, <1>5, <1>7, SumInt DEF IntOn
<1>10. Cardinality(T) = Cardinality(u) + 1 /\ Cardinality(u) \in Nat
  <2>1. T = u \cup {x} /\ x \notin u
    BY <1>5
  <2> HIDE DEF u
  <2> QED
    BY <1>7, <2>1, FS_AddElement, FS_CardinalityType
<1> DEFINE n == Cardinality(u)
           a == SumFunctionOnSet(g, u)
<1>11. m * (n + 1) = m * n + m /\ m * n \in Int
  <2>1. n \in Int
    BY <1>10
  <2> HIDE DEF n
  <2> QED
    BY <2>1
<1>12. g[x] + m + (a + m * n) # g[x] + a + m * (n + 1)
  BY <1>3, <1>6, <1>8, <1>9, <1>10
<1> DEFINE k == m * n
           l == m * (n + 1)
<1>13. g[x] + m + (a + k) # g[x] + a + l /\ l = k + m /\ k \in Int /\ a \in Int /\ g[x] \in Int
  BY <1>9, <1>11, <1>12
<1> HIDE DEF n, a, k, l
<1> QED
  BY <1>13

(* A smaller side is worth no more when nobody in the rest loses points. *)
LEMMA TotalGrows ==
  ASSUME NEW v, Values(v), NEW S \in SUBSET Squad, NEW T \in SUBSET S, \A x \in S \ T : v[x] >= 0
  PROVE  Total(T, v) <= Total(S, v)
<1> DEFINE rest == S \ T
<1>1. IntOn(v, T) /\ IntOn(v, rest) /\ IntOn(v, S)
  BY TotalParts
<1>2. T \cap rest = {} /\ S = T \cup rest
  OBVIOUS
<1> DEFINE a == SumFunctionOnSet(v, T)
           b == SumFunctionOnSet(v, rest)
           c == SumFunctionOnSet(v, S)
<1>3. c = a + b
  <2> HIDE DEF rest
  <2> QED
    BY <1>1, <1>2, SumUnion
<1>4. b >= 0
  BY <1>1, SumNonNegative
<1>5. a \in Int /\ b \in Int
  BY <1>1, SumInt
<1>6. Total(T, v) = a /\ Total(S, v) = c
  BY DEF Total
<1> HIDE DEF a, b, c
<1> QED
  BY <1>3, <1>4, <1>5, <1>6

(* Only those of C are worth anything. *)
LEMMA TotalWithin ==
  ASSUME NEW v, Values(v), NEW S \in SUBSET Squad, NEW C, \A x \in S \ C : v[x] = 0
  PROVE  Total(S, v) = Total(S \cap C, v)
<1> DEFINE rest == S \ C
           T == S \cap C
<1>1. T \in SUBSET Squad /\ rest \in SUBSET Squad
  OBVIOUS
<1>2. IntOn(v, T) /\ IntOn(v, rest) /\ IsFiniteSet(rest)
  BY <1>1, TotalParts, AtParts
<1>3. T \cap rest = {} /\ S = T \cup rest
  OBVIOUS
<1> DEFINE a == SumFunctionOnSet(v, T)
           b == SumFunctionOnSet(v, rest)
           c == SumFunctionOnSet(v, S)
<1>4. c = a + b
  <2> HIDE DEF rest, T
  <2> QED
    BY <1>2, <1>3, SumUnion
<1>5. b = 0
  BY <1>2, SumZero
<1>6. a \in Int
  BY <1>2, SumInt
<1>7. Total(T, v) = a /\ Total(S, v) = c
  BY DEF Total
<1> HIDE DEF a, b, c
<1> QED
  BY <1>4, <1>5, <1>6, <1>7

--------------------------------------------------------------------------------
(* Two legal sides differ in a pair of players who can change places both   *)
(* ways.                                                                    *)
LEMMA Exchange ==
  ASSUME NEW S \in SUBSET Squad, NEW T \in SUBSET Squad, IsLegalXI(S), IsLegalXI(T), S # T
  PROVE  \E s \in S, t \in T :
           /\ s \notin T /\ t \notin S
           /\ IsLegalXI(Swap(S, s, t)) /\ IsLegalXI(Swap(T, t, s))
<1>1. /\ Cardinality(S) = XiSize /\ InBounds(S)
      /\ Cardinality(T) = XiSize /\ InBounds(T)
  BY LegalMeans
<1>2. \A p : /\ Cardinality(At(S, p)) \in Nat /\ IsFiniteSet(At(S, p))
             /\ Cardinality(At(T, p)) \in Nat /\ IsFiniteSet(At(T, p))
  BY AtParts
<1>3. \A p \in Positions : XiMin[p] \in Nat /\ XiMax[p] \in Nat
  BY SquadParts
<1>4. ASSUME NEW s \in S, s \notin T, NEW t \in T, t \notin S,
             /\ PositionOf[s] # PositionOf[t] =>
                  /\ Cardinality(At(T, PositionOf[s])) < Cardinality(At(S, PositionOf[s]))
                  /\ Cardinality(At(S, PositionOf[t])) < Cardinality(At(T, PositionOf[t]))
      PROVE  IsLegalXI(Swap(S, s, t)) /\ IsLegalXI(Swap(T, t, s))
  <2>1. s \in Squad \ T /\ t \in Squad \ S
    BY <1>4
  <2>2. /\ Swap(S, s, t) \in SUBSET Squad /\ Cardinality(Swap(S, s, t)) = XiSize
        /\ Swap(T, t, s) \in SUBSET Squad /\ Cardinality(Swap(T, t, s)) = XiSize
    BY <1>1, <1>4, <2>1, SwapParts
  <2>3. ASSUME NEW p \in Positions
        PROVE  /\ XiMin[p] <= Cardinality(At(Swap(S, s, t), p)) /\ Cardinality(At(Swap(S, s, t), p)) <= XiMax[p]
               /\ XiMin[p] <= Cardinality(At(Swap(T, t, s), p)) /\ Cardinality(At(Swap(T, t, s), p)) <= XiMax[p]
    <3> DEFINE n == Cardinality(At(S, p))
               m == Cardinality(At(T, p))
               a == Cardinality(At(Swap(S, s, t), p))
               b == Cardinality(At(Swap(T, t, s), p))
               lo == XiMin[p]
               hi == XiMax[p]
    <3>1. n \in Nat /\ m \in Nat /\ lo \in Nat /\ hi \in Nat
          /\ lo <= n /\ n <= hi /\ lo <= m /\ m <= hi
      BY <1>1, <1>2, <1>3, <2>3 DEF InBounds
    <3>2. /\ PositionOf[s] = PositionOf[t] => a = n
          /\ PositionOf[s] # PositionOf[t] =>
               /\ p = PositionOf[s] => a = n - 1
               /\ p = PositionOf[t] => a = n + 1
               /\ p # PositionOf[s] /\ p # PositionOf[t] => a = n
      BY <1>4, <2>1, SwapCounts
    <3>3. /\ PositionOf[s] = PositionOf[t] => b = m
          /\ PositionOf[s] # PositionOf[t] =>
               /\ p = PositionOf[t] => b = m - 1
               /\ p = PositionOf[s] => b = m + 1
               /\ p # PositionOf[s] /\ p # PositionOf[t] => b = m
      BY <1>4, <2>1, SwapCounts
    <3>4. PositionOf[s] # PositionOf[t] =>
            /\ p = PositionOf[s] => m < n
            /\ p = PositionOf[t] => n < m
      BY <1>4
    <3> HIDE DEF n, m, a, b, lo, hi
    <3>5. lo <= a /\ a <= hi /\ lo <= b /\ b <= hi
      BY <3>1, <3>2, <3>3, <3>4
    <3> QED
      BY <3>5 DEF a, b, lo, hi
  <2> QED
    BY <2>2, <2>3, LegalMeans DEF InBounds
<1>5. CASE \E s \in S, t \in T : s \notin T /\ t \notin S /\ PositionOf[s] = PositionOf[t]
  BY <1>4, <1>5
<1>6. CASE ~\E s \in S, t \in T : s \notin T /\ t \notin S /\ PositionOf[s] = PositionOf[t]
  <2>1. PICK s \in S : s \notin T
    BY <1>1, SameSize
  <2>2. PICK t \in T : t \notin S
    BY <1>1, SameSize
  <2> DEFINE p == PositionOf[s]
             q == PositionOf[t]
  <2>3. At(T, p) \in SUBSET At(S, p) /\ s \in At(S, p) /\ s \notin At(T, p)
    BY <1>6, <2>1 DEF At
  <2>4. At(S, q) \in SUBSET At(T, q) /\ t \in At(T, q) /\ t \notin At(S, q)
    BY <1>6, <2>2 DEF At
  <2> HIDE DEF p, q
  <2>5. Cardinality(At(T, p)) <= Cardinality(At(S, p)) /\ Cardinality(At(T, p)) # Cardinality(At(S, p))
    BY <1>2, <2>3, FS_Subset
  <2>6. Cardinality(At(S, q)) <= Cardinality(At(T, q)) /\ Cardinality(At(S, q)) # Cardinality(At(T, q))
    BY <1>2, <2>4, FS_Subset
  <2>7. /\ Cardinality(At(T, p)) < Cardinality(At(S, p))
        /\ Cardinality(At(S, q)) < Cardinality(At(T, q))
    BY <1>2, <2>5, <2>6
  <2>8. IsLegalXI(Swap(S, s, t)) /\ IsLegalXI(Swap(T, t, s))
    BY <1>4, <2>1, <2>2, <2>7 DEF p, q
  <2> QED
    BY <2>1, <2>2, <2>8
<1> QED
  BY <1>5, <1>6

(* A legal side that is worth most on values that fall strictly along an    *)
(* order is worth most on all values that fall along it.                    *)
LEMMA GreedyBest ==
  ASSUME NEW R, Orders(R, Squad), NEW d, Values(d), \A x, y \in Squad : <<x, y>> \in R => d[x] > d[y],
         NEW T \in SUBSET Squad, IsLegalXI(T),
         \A S \in SUBSET Squad : IsLegalXI(S) => Total(S, d) <= Total(T, d),
         NEW v, Worth(v, R),
         NEW S \in SUBSET Squad, IsLegalXI(S)
  PROVE  Total(S, v) <= Total(T, v)
<1> DEFINE Bad == {U \in SUBSET Squad : IsLegalXI(U) /\ ~(Total(U, v) <= Total(T, v))}
           B == {U \ T : U \in Bad}
<1> SUFFICES ASSUME Bad # {} PROVE FALSE
  BY DEF Bad
<1>1. PICK D \in B : \A E \in B : E \subseteq D => E = D
  <2>1. B \in SUBSET SUBSET Squad /\ B # {} /\ IsFiniteSet(Squad)
    BY SquadParts
  <2> HIDE DEF B
  <2> QED
    BY <2>1, SmallestSet
<1>2. PICK U \in Bad : D = U \ T
  BY <1>1
<1>3. U \in SUBSET Squad /\ IsLegalXI(U) /\ ~(Total(U, v) <= Total(T, v)) /\ Values(v)
  BY <1>2 DEF Worth
<1>4. Total(T, v) \in Int /\ Total(U, v) \in Int
  BY <1>3, TotalParts
<1>5. U # T
  BY <1>3, <1>4
<1>6. PICK s \in U, t \in T :
        /\ s \notin T /\ t \notin U
        /\ IsLegalXI(Swap(U, s, t)) /\ IsLegalXI(Swap(T, t, s))
  BY <1>3, <1>5, Exchange
<1>7. s \in Squad \ T /\ t \in Squad \ U /\ s # t
  BY <1>3, <1>6
<1>8. <<t, s>> \in R
  <2> SUFFICES ASSUME <<t, s>> \notin R PROVE FALSE
    OBVIOUS
  <2>1. <<s, t>> \in R
    BY <1>7 DEF Orders
  <2>2. d[s] > d[t] /\ d[s] \in Int /\ d[t] \in Int
    BY <1>7, <2>1 DEF Values
  <2>3. /\ Swap(T, t, s) \in SUBSET Squad
        /\ Total(Swap(T, t, s), d) = Total(T, d) - d[t] + d[s]
    <3>1. t \in T /\ s \in Squad \ T
      BY <1>7
    <3> HIDE DEF Bad, B
    <3> QED
      BY <3>1, SwapParts
  <2>4. Total(Swap(T, t, s), d) <= Total(T, d)
    BY <1>6, <2>3
  <2>5. Total(T, d) \in Int
    BY TotalParts
  <2> DEFINE a == Total(T, d)
             b == Total(Swap(T, t, s), d)
  <2>6. b = a - d[t] + d[s] /\ b <= a /\ a \in Int
    BY <2>3, <2>4, <2>5
  <2> HIDE DEF a, b
  <2> QED
    BY <2>2, <2>6
<1> DEFINE W == Swap(U, s, t)
<1>9. W \in SUBSET Squad /\ Total(W, v) = Total(U, v) - v[s] + v[t] /\ IsLegalXI(W)
  BY <1>3, <1>6, <1>7, SwapParts
<1>10. v[s] \in Int /\ v[t] \in Int /\ v[t] >= v[s]
  BY <1>3, <1>7, <1>8 DEF Worth, Values
<1>11. W \notin Bad
  <2>1. W \ T \subseteq D /\ W \ T # D
    BY <1>2, <1>6 DEF Swap
  <2>2. W \in Bad => W \ T \in B
    OBVIOUS
  <2> HIDE DEF Bad, B, W
  <2> QED
    BY <1>1, <2>1, <2>2
<1>12. Total(W, v) <= Total(T, v)
  BY <1>9, <1>11
<1> DEFINE a == Total(U, v)
           b == Total(T, v)
           c == Total(W, v)
<1>13. ~(a <= b) /\ a \in Int /\ b \in Int /\ c = a - v[s] + v[t] /\ c <= b
  BY <1>3, <1>4, <1>9, <1>12
<1> HIDE DEF a, b, c, W, Bad, B
<1> QED
  BY <1>10, <1>13

--------------------------------------------------------------------------------
(* The week's data are those of a case, and its steps come in their order. *)
DataTyped ==
  /\ score \in [Squad -> Int \cup {Unranked}]
  /\ noFixture \in SUBSET Squad
  /\ featured \in SUBSET Squad
  /\ Values(points)
  /\ Values(asof)

StagesTyped ==
  \/ stage = "select" /\ pc \in {"rank", "select", "chosen"}
  \/ stage = "replay" /\ pc \in {"keeper", "next", "fill", "scored"}
  \/ stage \in {"written", "raised"} /\ pc = "done"

LEMMA InitTyped == Init => DataTyped /\ StagesTyped
<1> SUFFICES ASSUME Init PROVE DataTyped /\ StagesTyped
  OBVIOUS
<1>1. PICK c \in Cases :
        /\ score = c.score /\ noFixture = c.noFixture
        /\ featured = c.featured /\ points = c.points /\ asof = c.asof
  BY DEF Init
<1>2. c \in [score : [Squad -> Int \cup {Unranked}], noFixture : SUBSET Squad,
             featured : SUBSET Squad, points : [Squad -> Int], asof : [Squad -> Int]]
  BY WeekAssumption
<1>3. /\ c.score \in [Squad -> Int \cup {Unranked}] /\ c.noFixture \in SUBSET Squad
      /\ c.featured \in SUBSET Squad /\ c.points \in [Squad -> Int] /\ c.asof \in [Squad -> Int]
  BY <1>2
<1>4. stage = "select" /\ pc = "rank"
  BY DEF Init
<1> QED
  BY <1>1, <1>3, <1>4 DEF DataTyped, StagesTyped, Values

data == <<score, noFixture, featured, points, asof>>

LEMMA DataStay == [Next]_vars => UNCHANGED data
<1> SUFFICES ASSUME [Next]_vars PROVE UNCHANGED data
  OBVIOUS
<1>1. CASE RankStep
  BY <1>1 DEF RankStep, RankSquad, replay, data
<1>2. CASE SelectStep
  BY <1>2 DEF SelectStep, SelectXI, replay, data
<1>3. CASE StartReplay
  BY <1>3 DEF StartReplay, selection, data
<1>4. CASE ReplayStep
  BY <1>4 DEF ReplayStep, KeeperStays, KeeperReplaced, KeeperUncovered, Vacate, Enter, NobodyEnters, week, data
<1>5. CASE ScoreReplay
  BY <1>5 DEF ScoreReplay, Score, week, data
<1>6. ASSUME NEW a, NEW o, Compare(a, o) PROVE UNCHANGED data
  BY <1>6 DEF Compare, replay, data
<1>7. CASE UNCHANGED vars
  BY <1>7 DEF vars, selection, replay, data
<1> QED
  BY <1>1, <1>2, <1>3, <1>4, <1>5, <1>6, <1>7 DEF Next

LEMMA StagesStep == StagesTyped /\ [Next]_vars => StagesTyped'
<1> SUFFICES ASSUME StagesTyped, [Next]_vars PROVE StagesTyped'
  OBVIOUS
<1>1. CASE RankStep
  BY <1>1 DEF RankStep, RankSquad, StagesTyped
<1>2. CASE SelectStep
  BY <1>2 DEF SelectStep, SelectXI, StagesTyped
<1>3. CASE StartReplay
  BY <1>3 DEF StartReplay, StagesTyped
<1>4. CASE ReplayStep
  BY <1>4 DEF ReplayStep, KeeperStays, KeeperReplaced, KeeperUncovered, Vacate, Enter, NobodyEnters, StagesTyped
<1>5. CASE ScoreReplay
  BY <1>5 DEF ScoreReplay, Score, StagesTyped
<1>6. ASSUME NEW a, NEW o, Compare(a, o) PROVE StagesTyped'
  <2>1. stage' \in {"written", "raised"} /\ pc' = "done"
    BY <1>6 DEF Compare
  <2> QED
    BY <2>1 DEF StagesTyped
<1>7. CASE UNCHANGED vars
  BY <1>7 DEF vars, StagesTyped
<1> QED
  BY <1>1, <1>2, <1>3, <1>4, <1>5, <1>6, <1>7 DEF Next

(* The week's steps come in their order: a week that is ranked is selected, *)
(* replayed and compared, and its data stay those of its case               *)
(* (harness.py, run()).                                                     *)
THEOREM WeekIsTyped == Spec => [](DataTyped /\ StagesTyped)
<1>1. Init => DataTyped /\ StagesTyped
  BY InitTyped
<1>2. DataTyped /\ StagesTyped /\ [Next]_vars => (DataTyped /\ StagesTyped)'
  <2> SUFFICES ASSUME DataTyped, StagesTyped, [Next]_vars PROVE (DataTyped /\ StagesTyped)'
    OBVIOUS
  <2>1. UNCHANGED data
    BY DataStay
  <2>2. DataTyped'
    BY <2>1 DEF data, DataTyped, Values
  <2> QED
    BY <2>2, StagesStep
<1> QED
  BY <1>1, <1>2, PTL DEF Spec

--------------------------------------------------------------------------------
(* The row's closeness. *)
ClosenessInv ==
  stage = "written" => best = BestLegalXI(asof) /\ row.closeness = best.best - best.second

LEMMA ClosenessStep == StagesTyped /\ ClosenessInv /\ [Next]_vars => ClosenessInv'
<1> SUFFICES ASSUME StagesTyped, ClosenessInv, [Next]_vars PROVE ClosenessInv'
  OBVIOUS
<1>1. ASSUME NEW a, NEW o, Compare(a, o) PROVE ClosenessInv'
  <2> SUFFICES ASSUME stage' = "written" PROVE best' = BestLegalXI(asof)' /\ row'.closeness = best'.best - best'.second
    BY DEF ClosenessInv
  <2>1. best' = BestLegalXI(asof) /\ asof' = asof
    BY <1>1 DEF Compare
  <2>2. row'.closeness = best'.best - best'.second
    <3> DEFINE r == replays[o]
               short == BestLegalXI(points).best - r.total
    <3>1. stage' = IF short < 0 THEN "raised" ELSE "written"
      BY <1>1 DEF Compare
    <3>2. ~(short < 0)
      <4> HIDE DEF short
      <4> QED
        BY <3>1
    <3>3. row' = IF short < 0 THEN NoRow
                 ELSE [primary     |-> a,
                       regret      |-> short,
                       closeness   |-> best'.best - best'.second,
                       changed     |-> xi # plain,
                       fired       |-> r.fired,
                       uncovered   |-> r.uncovered,
                       permutation |-> Max({replays[q].total : q \in Orderings})]
      BY <1>1 DEF Compare
    <3> HIDE DEF short, r
    <3> QED
      BY <3>2, <3>3
  <2> QED
    BY <2>1, <2>2
<1>2. ASSUME stage' # "written" PROVE ClosenessInv'
  BY <1>2 DEF ClosenessInv
<1>3. CASE UNCHANGED <<stage, best, asof, row>>
  BY <1>3 DEF ClosenessInv
<1>4. CASE RankStep
  BY <1>4, <1>3 DEF RankStep
<1>5. CASE SelectStep
  BY <1>5, <1>3 DEF SelectStep
<1>6. CASE StartReplay
  BY <1>6, <1>2 DEF StartReplay
<1>7. CASE ReplayStep
  BY <1>7, <1>3 DEF ReplayStep
<1>8. CASE ScoreReplay
  BY <1>8, <1>3 DEF ScoreReplay
<1>9. CASE UNCHANGED vars
  BY <1>9, <1>3 DEF vars, selection
<1> QED
  BY <1>1, <1>4, <1>5, <1>6, <1>7, <1>8, <1>9 DEF Next

(* The closeness pair is the best total of a legal XI and the best of the   *)
(* others, though only the best side of every formation and one demotion    *)
(* per position are looked at (formations.py:128-137).                      *)
THEOREM ClosenessIsRight == Spec => []BestAndSecondBest
<1>1. Init => ClosenessInv
  BY DEF Init, ClosenessInv
<1>2. StagesTyped /\ ClosenessInv /\ [Next]_vars => ClosenessInv'
  BY ClosenessStep
<1>3. DataTyped /\ ClosenessInv => BestAndSecondBest
  <2> SUFFICES ASSUME DataTyped, ClosenessInv, stage = "written"
               PROVE  /\ best.xi \in LegalXIs
                      /\ best.best = Max({Total(S, asof) : S \in LegalXIs})
                      /\ best.second = Max({Total(S, asof) : S \in LegalXIs \ {best.xi}})
                      /\ row.closeness = best.best - best.second
    BY DEF BestAndSecondBest
  <2>1. Values(asof)
    BY DEF DataTyped
  <2>2. best = [xi |-> HindsightXI(asof), best |-> Hindsight(asof).total, second |-> SecondTotal(asof)]
    BY BestLegalXIParts DEF ClosenessInv
  <2>3. best.xi = HindsightXI(asof) /\ best.best = Hindsight(asof).total /\ best.second = SecondTotal(asof)
    BY <2>2
  <2>4. HindsightXI(asof) \in LegalXIs
    BY <2>1, BestIsBest, LegalXIMeans
  <2>5. row.closeness = best.best - best.second
    BY DEF ClosenessInv
  <2> QED
    BY <2>1, <2>3, <2>4, <2>5, SecondIsSecond
<1> QED
  BY <1>1, <1>2, <1>3, WeekIsTyped, PTL DEF Spec

--------------------------------------------------------------------------------
(* The ranking, and the XI chosen by it. *)
AheadOrder == {r \in Squad \X Squad : Ahead(r[1], r[2])}
Ranks == [x \in Squad |-> 1 + Cardinality({y \in Squad : Ahead(y, x)})]

RankOrder(ranks) == {r \in Squad \X Squad : ranks[r[1]] < ranks[r[2]]}
PlaceValue(ranks) == [x \in Squad |-> Cardinality(Squad) + 1 - ranks[x]]
ChosenBy(ranks) ==
  BestSide(Winner(BestSides(PlaceValue(ranks), RankOrder(ranks))).formation, RankOrder(ranks))

(* A ranking gives everybody a place of his own. *)
Ranking(ranks) ==
  /\ ranks \in [Squad -> Int]
  /\ \A x, y \in Squad : ranks[x] = ranks[y] => x = y

LEMMA AheadOrders ==
  ASSUME DataTyped
  PROVE  Orders(AheadOrder, Squad)
<1>1. \A x \in Squad : Tier(x) \in Int /\ ScoreOrZero(x) \in Int /\ x \in Int
  <2> TAKE x \in Squad
  <2>1. score[x] \in Int \cup {Unranked}
    BY DEF DataTyped
  <2>2. ScoreOrZero(x) \in Int
    BY <2>1 DEF ScoreOrZero
  <2>3. Tier(x) \in Int
    BY DEF Tier
  <2> QED
    BY <2>2, <2>3, SquadParts
<1>2. \A x, y \in Squad : <<x, y>> \in AheadOrder <=> Ahead(x, y)
  BY DEF AheadOrder
<1>3. \A x, y, z \in Squad : Ahead(x, y) /\ Ahead(y, z) => Ahead(x, z)
  BY <1>1 DEF Ahead
<1>4. \A x \in Squad : ~Ahead(x, x)
  BY <1>1 DEF Ahead
<1>5. \A x, y \in Squad : x = y \/ Ahead(x, y) \/ Ahead(y, x)
  BY <1>1 DEF Ahead
<1> QED
  BY <1>2, <1>3, <1>4, <1>5 DEF Orders

(* The places are in the order of who is ahead. *)
LEMMA RanksParts ==
  ASSUME DataTyped
  PROVE  /\ Ranking(Ranks)
         /\ RankOrder(Ranks) = AheadOrder
<1> DEFINE R == AheadOrder
           Better(x) == InFrontOf(Squad, R, x)
<1>1. Orders(R, Squad)
  BY AheadOrders
<1>2. \A x \in Squad : Ranks[x] = 1 + Cardinality(Better(x))
  BY DEF Ranks, InFrontOf, AheadOrder
<1>3. \A x : Cardinality(Better(x)) \in Nat /\ IsFiniteSet(Better(x))
  BY SquadParts, InFrontCounts
<1>4. ASSUME NEW x \in Squad, NEW y \in Squad, <<x, y>> \in R PROVE Ranks[x] < Ranks[y]
  <2>1. Better(x) \in SUBSET Better(y)
    BY <1>1, <1>4 DEF Orders, InFrontOf
  <2>2. x \in Better(y) /\ x \notin Better(x)
    BY <1>1, <1>4 DEF Orders, InFrontOf
  <2>3. Cardinality(Better(x)) <= Cardinality(Better(y)) /\ Cardinality(Better(x)) # Cardinality(Better(y))
    <3> HIDE DEF Better
    <3> QED
      BY <1>3, <2>1, <2>2, FS_Subset
  <2> DEFINE a == Cardinality(Better(x))
             b == Cardinality(Better(y))
  <2>4. a \in Nat /\ b \in Nat /\ a <= b /\ a # b /\ Ranks[x] = 1 + a /\ Ranks[y] = 1 + b
    BY <1>2, <1>3, <2>3
  <2> HIDE DEF a, b
  <2> QED
    BY <2>4
<1> HIDE DEF Better
<1>5. \A x \in Squad : Ranks[x] \in Int
  BY <1>2, <1>3
<1>6. Ranks \in [Squad -> Int]
  BY <1>5 DEF Ranks
<1>7. \A x, y \in Squad : <<x, y>> \in R <=> Ranks[x] < Ranks[y]
  <2> TAKE x, y \in Squad
  <2>1. x = y \/ <<x, y>> \in R \/ <<y, x>> \in R
    BY <1>1 DEF Orders
  <2>2. <<x, y>> \in R => Ranks[x] < Ranks[y]
    BY <1>4
  <2>3. <<y, x>> \in R => Ranks[y] < Ranks[x]
    BY <1>4
  <2>4. Ranks[x] \in Int /\ Ranks[y] \in Int
    BY <1>5
  <2>5. x = y => <<x, y>> \notin R
    BY <1>1 DEF Orders
  <2> HIDE DEF R
  <2> QED
    BY <2>1, <2>2, <2>3, <2>4, <2>5
<1>8. \A x, y \in Squad : Ranks[x] = Ranks[y] => x = y
  <2> TAKE x, y \in Squad
  <2>1. x = y \/ <<x, y>> \in R \/ <<y, x>> \in R
    BY <1>1 DEF Orders
  <2>2. Ranks[x] \in Int /\ Ranks[y] \in Int
    BY <1>5
  <2> QED
    BY <1>7, <2>1, <2>2
<1>9. RankOrder(Ranks) = R
  BY <1>7 DEF RankOrder, AheadOrder
<1> QED
  BY <1>6, <1>8, <1>9 DEF Ranking

LEMMA RankingOrders ==
  ASSUME NEW ranks, Ranking(ranks)
  PROVE  /\ Orders(RankOrder(ranks), Squad)
         /\ Worth(PlaceValue(ranks), RankOrder(ranks))
         /\ \A x, y \in Squad : <<x, y>> \in RankOrder(ranks) => PlaceValue(ranks)[x] > PlaceValue(ranks)[y]
<1>1. \A x, y \in Squad : <<x, y>> \in RankOrder(ranks) <=> ranks[x] < ranks[y]
  BY DEF RankOrder
<1>2. \A x \in Squad : ranks[x] \in Int
  BY DEF Ranking
<1>3. Cardinality(Squad) \in Nat
  BY SquadParts, FS_CardinalityType
<1>4. \A x \in Squad : PlaceValue(ranks)[x] = Cardinality(Squad) + 1 - ranks[x] /\ PlaceValue(ranks)[x] \in Int
  BY <1>2, <1>3 DEF PlaceValue
<1>5. \A x, y \in Squad : <<x, y>> \in RankOrder(ranks) => PlaceValue(ranks)[x] > PlaceValue(ranks)[y]
  BY <1>1, <1>2, <1>3, <1>4
<1>6. Values(PlaceValue(ranks))
  BY <1>4 DEF Values, PlaceValue
<1>7. Worth(PlaceValue(ranks), RankOrder(ranks))
  BY <1>4, <1>5, <1>6 DEF Worth
<1>8. Orders(RankOrder(ranks), Squad)
  BY <1>1, <1>2 DEF Orders, Ranking
<1> QED
  BY <1>5, <1>7, <1>8

(* The chosen side is legal, and worth most on every value that falls along *)
(* the ranking.                                                             *)
LEMMA ChosenParts ==
  ASSUME NEW ranks, Ranking(ranks)
  PROVE  /\ ChosenBy(ranks) \in SUBSET Squad /\ IsLegalXI(ChosenBy(ranks))
         /\ \A v : Worth(v, RankOrder(ranks)) =>
              \A S \in SUBSET Squad : IsLegalXI(S) => Total(S, v) <= Total(ChosenBy(ranks), v)
<1> DEFINE R == RankOrder(ranks)
           d == PlaceValue(ranks)
           T == ChosenBy(ranks)
           w == Winner(BestSides(d, R))
<1>1. /\ Orders(R, Squad) /\ Worth(d, R) /\ Values(d)
      /\ \A x, y \in Squad : <<x, y>> \in R => d[x] > d[y]
  BY RankingOrders DEF Worth
<1>2. T = BestSide(w.formation, R)
  BY DEF ChosenBy
<1> HIDE DEF R, d, T
<1>3. /\ w.formation \in LegalFormations
      /\ w.total = Total(BestSide(w.formation, R), d)
      /\ \A S \in SUBSET Squad : IsLegalXI(S) => Total(S, d) <= w.total
  BY <1>1, WinnerParts
<1> HIDE DEF w
<1>4. T \in SUBSET Squad /\ IsLegalXI(T)
  BY <1>1, <1>2, <1>3, BestSideParts
<1>5. \A S \in SUBSET Squad : IsLegalXI(S) => Total(S, d) <= Total(T, d)
  BY <1>2, <1>3
<1>6. ASSUME NEW v, Worth(v, R), NEW S \in SUBSET Squad, IsLegalXI(S)
      PROVE  Total(S, v) <= Total(T, v)
  BY <1>1, <1>4, <1>5, <1>6, GreedyBest
<1> QED
  BY <1>4, <1>6 DEF R, T

(* rank_squad() and select_xi() in a run. *)
SelectionInv ==
  /\ pc # "rank" => rank = Ranks
  /\ pc \notin {"rank", "select"} => xi = ChosenBy(rank)

LEMMA SelectXIChooses ==
  ASSUME SelectXI
  PROVE  xi' = ChosenBy(rank)
<1> DEFINE A(x, y) == rank[x] < rank[y]
           R == RankOrder(rank)
           value == [x \in Squad |-> Cardinality(Squad) + 1 - rank[x]]
<1>1. \A p, n : Top(p, n, A) = FirstIn(At(Squad, p), R, n)
  BY DEF Top, FirstIn, InFrontOf, At, RankOrder
<1>2. \A f : Pick(f, A) = BestSide(f, R)
  BY <1>1 DEF Pick, BestSide
<1>3. Sides(value, A) = BestSides(PlaceValue(rank), R)
  BY <1>2 DEF Sides, BestSides, SideOf, PlaceValue
<1> QED
  BY <1>2, <1>3 DEF SelectXI, ChosenBy

LEMMA SelectionStep == StagesTyped /\ SelectionInv /\ [Next]_vars => SelectionInv'
<1> SUFFICES ASSUME StagesTyped, SelectionInv, [Next]_vars PROVE SelectionInv'
  OBVIOUS
<1>1. Ranks' = Ranks
  BY DataStay DEF data, Ranks, Ahead, Tier, ScoreOrZero
<1>2. ASSUME UNCHANGED <<rank, xi>>, pc \notin {"rank", "select"}, pc' \notin {"rank", "select"} PROVE SelectionInv'
  BY <1>1, <1>2 DEF SelectionInv
<1>3. CASE RankStep
  BY <1>1, <1>3 DEF RankStep, RankSquad, SelectionInv, Ranks
<1>4. CASE SelectStep
  <2>1. rank = Ranks /\ rank' = rank
    BY <1>4 DEF SelectStep, SelectXI, SelectionInv
  <2>2. xi' = ChosenBy(rank)
    BY <1>4, SelectXIChooses DEF SelectStep
  <2> QED
    BY <1>1, <2>1, <2>2 DEF SelectionInv
<1>5. CASE StartReplay
  BY <1>2, <1>5 DEF StartReplay, selection
<1>6. CASE ReplayStep
  BY <1>2, <1>6 DEF ReplayStep, KeeperStays, KeeperReplaced, KeeperUncovered, Vacate, Enter, NobodyEnters, week
<1>7. CASE ScoreReplay
  BY <1>2, <1>7 DEF ScoreReplay, Score, week
<1>8. ASSUME NEW a, NEW o, Compare(a, o) PROVE SelectionInv'
  BY <1>2, <1>8 DEF Compare
<1>9. CASE UNCHANGED vars
  BY <1>1, <1>9 DEF vars, selection, SelectionInv
<1> QED
  BY <1>3, <1>4, <1>5, <1>6, <1>7, <1>8, <1>9 DEF Next

LEMMA SelectionInvariant == Spec => []SelectionInv
<1>1. Init => SelectionInv
  BY DEF Init, SelectionInv
<1> QED
  BY <1>1, SelectionStep, WeekIsTyped, PTL DEF Spec

(* How many of a side are in a set, and what a side is worth in it. *)
LEMMA CardinalitySplits ==
  ASSUME NEW S \in SUBSET Squad, NEW C
  PROVE  /\ Cardinality(S) = Cardinality(S \cap C) + Cardinality(S \ C)
         /\ Cardinality(S) \in Nat /\ Cardinality(S \cap C) \in Nat /\ Cardinality(S \ C) \in Nat
<1> DEFINE A == S \cap C
           B == S \ C
<1>1. A \in SUBSET Squad /\ B \in SUBSET Squad /\ S = A \cup B /\ A \cap B = {}
  OBVIOUS
<1>2. /\ IsFiniteSet(A) /\ Cardinality(A) \in Nat
      /\ IsFiniteSet(B) /\ Cardinality(B) \in Nat
      /\ Cardinality(S) \in Nat
  BY <1>1, AtParts
<1> HIDE DEF A, B
<1>3. Cardinality(A \cup B) = Cardinality(A) + Cardinality(B) - Cardinality(A \cap B)
  BY <1>2, FS_Union
<1>4. Cardinality(A \cap B) = 0
  BY <1>1, FS_EmptySet
<1> DEFINE a == Cardinality(A)
           b == Cardinality(B)
           c == Cardinality(S)
<1>5. a \in Nat /\ b \in Nat /\ c \in Nat /\ c = a + b - 0
  BY <1>1, <1>2, <1>3, <1>4
<1> HIDE DEF a, b, c
<1>6. c = a + b
  BY <1>5
<1> QED
  BY <1>5, <1>6 DEF a, b, c, A, B

Marked(C) == [x \in Squad |-> IF x \in C THEN 0 - 1 ELSE 0]

LEMMA MarkedTotal ==
  ASSUME NEW S \in SUBSET Squad, NEW C
  PROVE  Values(Marked(C)) /\ Total(S, Marked(C)) = 0 - Cardinality(S \cap C)
<1> DEFINE g == [x \in Squad |-> 0]
           T == S \cap C
           m == 0 - 1
<1>1. Values(Marked(C)) /\ Values(g)
  BY DEF Marked, Values
<1>2. Total(S, Marked(C)) = Total(T, Marked(C))
  <2>1. \A x \in S \ C : Marked(C)[x] = 0
    BY DEF Marked
  <2> QED
    BY <1>1, <2>1, TotalWithin
<1>3. T \in SUBSET Squad
  OBVIOUS
<1>4. IntOn(g, T) /\ IsFiniteSet(T) /\ Cardinality(T) \in Nat
  BY <1>1, <1>3, TotalParts, AtParts
<1>5. SumFunctionOnSet(g, T) = 0
  <2>1. \A x \in T : g[x] = 0
    OBVIOUS
  <2> HIDE DEF g, T
  <2> QED
    BY <1>4, <2>1, SumZero
<1>6. SumFunctionOnSet(Marked(C), T) = SumFunctionOnSet(g, T) + m * Cardinality(T)
  <2>1. \A x \in T : Marked(C)[x] = g[x] + m
    BY DEF Marked
  <2>2. m \in Int
    OBVIOUS
  <2> HIDE DEF g, T, m
  <2> QED
    BY <1>4, <2>1, <2>2, SumShift
<1> DEFINE n == Cardinality(T)
<1>7. m * n = 0 - n
  <2>1. n \in Nat
    BY <1>4
  <2> HIDE DEF n
  <2> QED
    BY <2>1
<1>8. Total(T, Marked(C)) = 0 + m * n
  BY <1>5, <1>6 DEF Total
<1>9. 0 + m * n = 0 - n
  <2>1. n \in Nat
    BY <1>4
  <2> HIDE DEF n
  <2> QED
    BY <2>1
<1> QED
  BY <1>1, <1>2, <1>8, <1>9

(* A least number to add to leave nobody below zero. *)
LEMMA Lift ==
  ASSUME NEW C \in SUBSET Squad, NEW s, \A x \in C : s[x] \in Int
  PROVE  \E m \in Int : \A x \in C : s[x] + m >= 0
<1>1. CASE C = {}
  BY <1>1
<1>2. CASE C # {}
  <2> DEFINE B == {s[x] : x \in C}
  <2>1. IsFiniteSet(C)
    BY AtParts
  <2>2. SomeInts(B)
    BY <1>2, <2>1, FiniteImage DEF SomeInts
  <2> DEFINE a == Min(B)
  <2>3. a \in B /\ \A y \in B : a <= y
    <3> HIDE DEF B
    <3> QED
      BY <2>2, Extremes
  <2> HIDE DEF a
  <2>4. a \in Int /\ \A x \in C : a <= s[x]
    BY <2>3
  <2>5. \A x \in C : s[x] + (0 - a) >= 0
    <3> TAKE x \in C
    <3>1. s[x] \in Int /\ a <= s[x]
      BY <2>4
    <3> QED
      BY <2>4, <3>1
  <2>6. 0 - a \in Int
    BY <2>4
  <2> QED
    BY <2>5, <2>6
<1> QED
  BY <1>1, <1>2

(* The chosen side is best on the scores, tier by tier. *)
LEMMA BestByTiers ==
  ASSUME DataTyped, NEW T, T = ChosenBy(Ranks),
         NEW S \in SUBSET Squad, IsLegalXI(S)
  PROVE  \/ Idle(S) > Idle(T)
         \/ Idle(S) = Idle(T) /\ UnrankedIn(S) > UnrankedIn(T)
         \/ /\ Idle(S) = Idle(T) /\ UnrankedIn(S) = UnrankedIn(T)
            /\ Total(ScoredIn(S), score) <= Total(ScoredIn(T), score)
<1> DEFINE R == RankOrder(Ranks)
           low == {x \in Squad : Tier(x) # 0}
           top == {x \in Squad : Tier(x) = 0}
<1>1. Ranking(Ranks) /\ R = AheadOrder
  BY RanksParts
<1>2. /\ T \in SUBSET Squad /\ IsLegalXI(T)
      /\ \A v : Worth(v, R) =>
           \A U \in SUBSET Squad : IsLegalXI(U) => Total(U, v) <= Total(T, v)
  BY <1>1, ChosenParts
<1> HIDE DEF R
<1>3. \A x \in Squad : score[x] \in Int \cup {Unranked}
  BY DEF DataTyped
<1>4. \A x \in Squad : /\ Tier(x) \in {0, 1, 2}
                       /\ Tier(x) = 2 <=> x \in noFixture
                       /\ Tier(x) = 0 <=> x \notin noFixture /\ score[x] # Unranked
  <2> TAKE x \in Squad
  <2>1. CASE x \in noFixture
    <3>1. Tier(x) = 2
      BY <2>1 DEF Tier
    <3> QED
      BY <2>1, <3>1
  <2>2. CASE x \notin noFixture /\ score[x] = Unranked
    <3>1. Tier(x) = 1
      BY <2>2 DEF Tier
    <3> QED
      BY <2>2, <3>1
  <2>3. CASE x \notin noFixture /\ score[x] # Unranked
    <3>1. Tier(x) = 0
      BY <2>3 DEF Tier
    <3> QED
      BY <2>3, <3>1
  <2> QED
    BY <2>1, <2>2, <2>3
<1>5. \A x, y \in Squad : <<x, y>> \in R <=> Ahead(x, y)
  BY <1>1 DEF AheadOrder
<1>6. ASSUME NEW U \in SUBSET Squad
      PROVE  /\ Idle(U) \in Nat /\ UnrankedIn(U) \in Nat
             /\ Cardinality(U \cap low) = Idle(U) + UnrankedIn(U)
             /\ ScoredIn(U) = U \cap top
             /\ Cardinality(U) = Cardinality(U \cap low) + Cardinality(U \cap top)
             /\ Cardinality(U \cap low) \in Nat /\ Cardinality(U \cap top) \in Nat
  <2>1. U \cap low \in SUBSET Squad /\ (U \cap low) \cap noFixture = U \cap noFixture
    BY <1>4
  <2>2. (U \cap low) \ noFixture = {x \in U \ noFixture : score[x] = Unranked}
    BY <1>4
  <2>3. /\ Cardinality(U \cap low) = Idle(U) + UnrankedIn(U)
        /\ Cardinality(U \cap low) \in Nat /\ Idle(U) \in Nat /\ UnrankedIn(U) \in Nat
    <3> HIDE DEF low
    <3> QED
      BY <2>1, <2>2, CardinalitySplits DEF Idle, UnrankedIn
  <2>4. ScoredIn(U) = U \cap top
    BY <1>4 DEF ScoredIn
  <2>5. U \ low = U \cap top
    OBVIOUS
  <2>6. /\ Cardinality(U) = Cardinality(U \cap low) + Cardinality(U \cap top)
        /\ Cardinality(U \cap top) \in Nat
    <3> HIDE DEF low, top
    <3> QED
      BY <2>5, CardinalitySplits
  <2> QED
    BY <2>3, <2>4, <2>6
<1>7. Idle(T) <= Idle(S)
  <2>1. \A U \in SUBSET Squad : Total(U, Marked(noFixture)) = 0 - Idle(U) /\ Values(Marked(noFixture))
    BY MarkedTotal DEF Idle
  <2>2. Worth(Marked(noFixture), R)
    <3>1. ASSUME NEW x \in Squad, NEW y \in Squad, <<x, y>> \in R
          PROVE  Marked(noFixture)[x] >= Marked(noFixture)[y]
      <4>1. x \in noFixture => y \in noFixture
        BY <1>4, <1>5, <3>1 DEF Ahead
      <4> QED
        BY <4>1 DEF Marked
    <3> QED
      BY <2>1, <3>1 DEF Worth
  <2>3. Total(S, Marked(noFixture)) <= Total(T, Marked(noFixture))
    BY <1>2, <2>2
  <2>4. 0 - Idle(S) <= 0 - Idle(T)
    BY <1>2, <2>1, <2>3
  <2>5. Idle(S) \in Nat /\ Idle(T) \in Nat
    BY <1>2, <1>6
  <2> DEFINE a == Idle(S)
             b == Idle(T)
  <2> HIDE DEF a, b
  <2>6. b <= a
    BY <2>4, <2>5 DEF a, b
  <2> QED
    BY <2>6 DEF a, b
<1>8. Idle(T) + UnrankedIn(T) <= Idle(S) + UnrankedIn(S)
  <2>1. \A U \in SUBSET Squad : /\ Total(U, Marked(low)) = 0 - (Idle(U) + UnrankedIn(U))
                                /\ Values(Marked(low))
    <3> TAKE U \in SUBSET Squad
    <3>1. Cardinality(U \cap low) = Idle(U) + UnrankedIn(U)
      BY <1>6
    <3> HIDE DEF low
    <3>2. Total(U, Marked(low)) = 0 - Cardinality(U \cap low) /\ Values(Marked(low))
      BY MarkedTotal
    <3> QED
      BY <3>1, <3>2
  <2>2. Worth(Marked(low), R)
    <3>1. ASSUME NEW x \in Squad, NEW y \in Squad, <<x, y>> \in R
          PROVE  Marked(low)[x] >= Marked(low)[y]
      <4>1. x \in low => y \in low
        BY <1>4, <1>5, <3>1 DEF Ahead
      <4> QED
        BY <4>1 DEF Marked
    <3> QED
      BY <2>1, <3>1 DEF Worth
  <2>3. Total(S, Marked(low)) <= Total(T, Marked(low))
    BY <1>2, <2>2
  <2>4. 0 - (Idle(S) + UnrankedIn(S)) <= 0 - (Idle(T) + UnrankedIn(T))
    BY <1>2, <2>1, <2>3
  <2>5. Idle(S) \in Nat /\ Idle(T) \in Nat /\ UnrankedIn(S) \in Nat /\ UnrankedIn(T) \in Nat
    BY <1>2, <1>6
  <2> DEFINE a == Idle(S)
             b == Idle(T)
             c == UnrankedIn(S)
             e == UnrankedIn(T)
  <2> HIDE DEF a, b, c, e
  <2>6. b + e <= a + c
    BY <2>4, <2>5 DEF a, b, c, e
  <2> QED
    BY <2>6 DEF a, b, c, e
<1>9. ASSUME Idle(S) = Idle(T), UnrankedIn(S) = UnrankedIn(T)
      PROVE  Total(ScoredIn(S), score) <= Total(ScoredIn(T), score)
  <2>1. PICK m \in Int : \A x \in top : score[x] + m >= 0
    <3>1. top \in SUBSET Squad /\ \A x \in top : score[x] \in Int
      BY <1>3, <1>4
    <3> QED
      BY <3>1, Lift
  <2> DEFINE v == [x \in Squad |-> IF x \in top THEN score[x] + m ELSE 0]
  <2>2. Values(v) /\ \A x \in top : score[x] \in Int /\ v[x] = score[x] + m /\ v[x] >= 0
    <3>1. \A x \in top : score[x] \in Int /\ v[x] = score[x] + m /\ v[x] >= 0
      BY <1>3, <1>4, <2>1
    <3>2. \A x \in Squad : v[x] \in Int
      BY <3>1
    <3> QED
      BY <3>1, <3>2 DEF Values
  <2>3. \A x \in Squad \ top : v[x] = 0
    OBVIOUS
  <2> HIDE DEF v
  <2>4. Worth(v, R)
    <3>1. ASSUME NEW x \in Squad, NEW y \in Squad, <<x, y>> \in R
          PROVE  v[x] >= v[y]
      <4>1. Ahead(x, y)
        BY <1>5, <3>1
      <4>2. CASE x \notin top
        <5>1. y \notin top
          BY <1>4, <4>1, <4>2 DEF Ahead
        <5> QED
          BY <2>3, <4>2, <5>1
      <4>3. CASE x \in top /\ y \notin top
        BY <2>2, <2>3, <4>3
      <4>4. CASE x \in top /\ y \in top
        <5>1. ScoreOrZero(x) = score[x] /\ ScoreOrZero(y) = score[y]
          BY <1>4, <4>4 DEF ScoreOrZero
        <5>2. score[x] >= score[y]
          BY <2>2, <4>1, <4>4, <5>1 DEF Ahead
        <5> QED
          BY <2>2, <4>4, <5>2
      <4> QED
        BY <4>2, <4>3, <4>4
    <3> QED
      BY <2>2, <3>1 DEF Worth
  <2>5. ASSUME NEW U \in SUBSET Squad
        PROVE  /\ Total(U, v) = Total(ScoredIn(U), score) + m * Cardinality(U \cap top)
               /\ Total(ScoredIn(U), score) \in Int
    <3> DEFINE Z == U \cap top
    <3>1. Total(U, v) = Total(Z, v)
      <4>1. \A x \in U \ top : v[x] = 0
        BY <2>3
      <4> HIDE DEF top
      <4> QED
        BY <2>2, <4>1, TotalWithin
    <3>2. IntOn(score, Z)
      <4>1. Z \in SUBSET Squad
        OBVIOUS
      <4>2. IsFiniteSet(Z)
        <5> HIDE DEF Z
        <5> QED
          BY <4>1, AtParts
      <4> QED
        BY <2>2, <4>2 DEF IntOn
    <3>3. SumFunctionOnSet(v, Z) = SumFunctionOnSet(score, Z) + m * Cardinality(Z)
      <4>1. \A x \in Z : v[x] = score[x] + m
        BY <2>2
      <4> HIDE DEF Z
      <4> QED
        BY <3>2, <4>1, SumShift
    <3>4. SumFunctionOnSet(score, Z) \in Int
      BY <3>2, SumInt
    <3>5. ScoredIn(U) = Z
      BY <1>6
    <3> HIDE DEF Z
    <3> QED
      BY <3>1, <3>3, <3>4, <3>5 DEF Total, Z
  <2>6. Total(S, v) <= Total(T, v)
    BY <1>2, <2>4
  <2>7. Cardinality(S \cap top) = Cardinality(T \cap top)
    <3>1. Cardinality(S) = Cardinality(T)
      BY <1>2, LegalMeans
    <3>2. Cardinality(S \cap low) = Cardinality(T \cap low)
      BY <1>2, <1>6, <1>9
    <3> DEFINE a == Cardinality(S \cap low)
               b == Cardinality(S \cap top)
               c == Cardinality(T \cap top)
    <3>3. a + b = a + c /\ a \in Nat /\ b \in Nat /\ c \in Nat
      BY <1>2, <1>6, <3>1, <3>2
    <3> HIDE DEF a, b, c
    <3>4. b = c
      BY <3>3
    <3> QED
      BY <3>4 DEF b, c
  <2> DEFINE a == Total(ScoredIn(S), score)
             b == Total(ScoredIn(T), score)
             n == m * Cardinality(T \cap top)
  <2>8. n \in Int
    <3>1. Cardinality(T \cap top) \in Nat
      BY <1>2, <1>6
    <3> HIDE DEF top
    <3> QED
      BY <3>1
  <2>9. a + n <= b + n /\ a \in Int /\ b \in Int
    BY <1>2, <2>5, <2>6, <2>7
  <2> HIDE DEF a, b, n
  <2>10. a <= b
    BY <2>8, <2>9
  <2> QED
    BY <2>10 DEF a, b
<1>10. Idle(S) \in Nat /\ Idle(T) \in Nat /\ UnrankedIn(S) \in Nat /\ UnrankedIn(T) \in Nat
  BY <1>2, <1>6
<1>11. \/ Idle(S) > Idle(T)
       \/ Idle(S) = Idle(T) /\ UnrankedIn(S) > UnrankedIn(T)
       \/ Idle(S) = Idle(T) /\ UnrankedIn(S) = UnrankedIn(T)
  BY <1>7, <1>8, <1>10
<1> QED
  BY <1>9, <1>11

(* The chosen XI starts as few idle players as a legal XI can, then as few  *)
(* unranked ones, and then is worth most on the ranker's scores: choosing   *)
(* by place instead of by score loses nothing (harness.py:224-252,          *)
(* :270-275).                                                               *)
THEOREM RankingLosesNothing == Spec => []BestOnItsScores
<1>1. DataTyped /\ SelectionInv => BestOnItsScores
  <2> SUFFICES ASSUME DataTyped, SelectionInv, stage = "select", pc = "chosen"
               PROVE  /\ xi \in LegalXIs
                      /\ \A S \in LegalXIs :
                           \/ Idle(S) > Idle(xi)
                           \/ Idle(S) = Idle(xi) /\ UnrankedIn(S) > UnrankedIn(xi)
                           \/ /\ Idle(S) = Idle(xi) /\ UnrankedIn(S) = UnrankedIn(xi)
                              /\ Total(ScoredIn(S), score) <= Total(ScoredIn(xi), score)
    BY DEF BestOnItsScores
  <2>1. xi = ChosenBy(Ranks)
    BY DEF SelectionInv
  <2>2. xi \in LegalXIs
    BY <2>1, RanksParts, ChosenParts, LegalXIMeans
  <2> QED
    BY <2>1, <2>2, BestByTiers, LegalXIMeans
<1> QED
  BY <1>1, WeekIsTyped, SelectionInvariant, PTL

--------------------------------------------------------------------------------
(* The substitutions.  The side with every waiting place still named to its *)
(* starter, and the outfield starters who wait.                             *)
Named == live \cup unfilled \cup ({vacant} \ {Nobody})
Waiting == Outfield(unfilled) \cup vacancies \cup ({vacant} \ {Nobody})

Starters == Outfield(xi \cap featured)
Blanks == Outfield(xi) \ featured
First == Keeper(xi)
Reserve == Keeper(Squad \ xi)

(* Who stands in goal. *)
KeeperInv ==
  /\ At(live, GK) = {First} \/ (At(live, GK) = {Reserve} /\ First \notin featured)
  /\ First \in At(unfilled, GK) => First \notin featured /\ At(live, GK) = {First}
  /\ At(unfilled, GK) \subseteq {First}

(* Who stands in the field, who waits and who has come on. *)
FieldInv ==
  /\ Outfield(live) = Starters \cup entered \cup vacancies
  /\ Waiting \subseteq Blanks
  /\ entered \subseteq Bench \cap featured
  /\ vacancies \cap unfilled = {} /\ vacant \notin vacancies \cup unfilled
  /\ pc = "fill" <=> vacant # Nobody

(* The queue is the order without those who came on. *)
QueueInv ==
  /\ queue \in Seq(Bench)
  /\ {queue[k] : k \in DOMAIN queue} = Bench \ entered
  /\ \A k, l \in DOMAIN queue : k < l =>
       \E i, j \in DOMAIN order : i < j /\ order[i] = queue[k] /\ order[j] = queue[l]

(* Nobody came on from behind one who could have taken his place. *)
PriorityInv ==
  \A i, j \in DOMAIN order :
    i < j /\ order[i] \in featured \ entered /\ order[j] \in entered
      => ~IsLegalXI(Swap(Named, order[j], order[i]))

(* A place is left unfilled only when nobody is left to come on, or when    *)
(* one position is at its minimum, all who wait are of it, and all of its   *)
(* substitutes have come on.                                                *)
StuckInv ==
  Outfield(unfilled) # {} =>
    \/ Bench \cap featured \subseteq entered
    \/ \E p \in Positions \ {GK} :
         /\ Cardinality(At(Named, p)) = XiMin[p]
         /\ At(Bench \cap featured, p) \subseteq entered
         /\ Waiting \subseteq At(Squad, p)

(* The place being filled was the slackest of those waiting for a           *)
(* substitute.                                                              *)
Spare(S, p) == Cardinality(At(S, p)) - XiMin[p]

FillInv ==
  pc = "fill" =>
    \A y \in vacancies :
      Spare(live \cup {vacant}, PositionOf[y]) <= Spare(live \cup {vacant}, PositionOf[vacant])

ReplayInv ==
  stage = "replay" =>
    /\ order \in Orderings
    /\ pc = "keeper" => /\ live = xi /\ queue = order /\ vacancies = Blanks
                        /\ unfilled = {} /\ entered = {} /\ vacant = Nobody
    /\ pc # "keeper" => /\ Named \in SUBSET Squad /\ IsLegalXI(Named)
                        /\ KeeperInv /\ FieldInv /\ QueueInv /\ PriorityInv /\ StuckInv /\ FillInv
    /\ pc = "scored" => vacancies = {}

LEMMA KeeperParts ==
  ASSUME NEW S \in SUBSET Squad, Cardinality(At(S, GK)) = 1
  PROVE  Keeper(S) \in S /\ PositionOf[Keeper(S)] = GK /\ At(S, GK) = {Keeper(S)}
<1>1. IsFiniteSet(At(S, GK))
  BY AtParts
<1>2. PICK x : At(S, GK) = {x}
  BY <1>1, FS_Singleton
<1>3. x \in S /\ PositionOf[x] = GK
  BY <1>2 DEF At
<1>4. Keeper(S) \in S /\ PositionOf[Keeper(S)] = GK
  BY <1>3 DEF Keeper
<1>5. Keeper(S) = x
  BY <1>2, <1>4 DEF At
<1> QED
  BY <1>2, <1>4, <1>5

(* The XI and its two goalkeepers. *)
LEMMA XiParts ==
  ASSUME DataTyped, SelectionInv, pc \notin {"rank", "select"}
  PROVE  /\ xi \in SUBSET Squad /\ IsLegalXI(xi)
         /\ First \in xi /\ PositionOf[First] = GK /\ At(xi, GK) = {First}
         /\ Reserve \in Squad \ xi /\ PositionOf[Reserve] = GK /\ At(Squad \ xi, GK) = {Reserve}
         /\ Bench \in SUBSET Squad /\ IsFiniteSet(Bench)
<1>1. xi \in SUBSET Squad /\ IsLegalXI(xi)
  BY RanksParts, ChosenParts DEF SelectionInv
<1>2. GK \in Positions /\ XiMin[GK] = 1 /\ XiMax[GK] = 1 /\ Cardinality(At(Squad, GK)) = 2
  BY WeekAssumption
<1>3. Cardinality(At(xi, GK)) = 1
  <2>1. Cardinality(At(xi, GK)) \in Nat
    BY <1>1, AtParts
  <2>2. 1 <= Cardinality(At(xi, GK)) /\ Cardinality(At(xi, GK)) <= 1
    BY <1>1, <1>2, LegalMeans DEF InBounds
  <2> QED
    BY <2>1, <2>2
<1>4. Cardinality(At(Squad \ xi, GK)) = 1
  <2>1. At(Squad, GK) \in SUBSET Squad
    BY AtParts
  <2>2. At(Squad, GK) \cap xi = At(xi, GK) /\ At(Squad, GK) \ xi = At(Squad \ xi, GK)
    BY <1>1 DEF At
  <2>3. Cardinality(At(Squad, GK)) = Cardinality(At(Squad, GK) \cap xi) + Cardinality(At(Squad, GK) \ xi)
        /\ Cardinality(At(Squad, GK) \ xi) \in Nat
    BY <2>1, CardinalitySplits
  <2> QED
    BY <1>2, <1>3, <2>2, <2>3
<1>5. First \in xi /\ PositionOf[First] = GK /\ At(xi, GK) = {First}
  BY <1>1, <1>3, KeeperParts DEF First
<1>6. Reserve \in Squad \ xi /\ PositionOf[Reserve] = GK /\ At(Squad \ xi, GK) = {Reserve}
  <2>1. Squad \ xi \in SUBSET Squad
    OBVIOUS
  <2> QED
    BY <1>4, <2>1, KeeperParts DEF Reserve
<1>7. Bench \in SUBSET Squad
  BY DEF Bench, Outfield
<1> QED
  BY <1>1, <1>5, <1>6, <1>7, AtParts

(* An ordering names every substitute once. *)
LEMMA OrderingParts ==
  ASSUME IsFiniteSet(Bench), NEW o \in Orderings
  PROVE  /\ o \in Seq(Bench) /\ DOMAIN o = 1..Cardinality(Bench)
         /\ {o[k] : k \in DOMAIN o} = Bench
         /\ \A k, l \in DOMAIN o : o[k] = o[l] => k = l
<1> DEFINE n == Cardinality(Bench)
           D == 1..n
<1>1. n \in Nat
  BY FS_CardinalityType
<1>2. o \in [D -> Bench] /\ \A i, j \in D : i # j => o[i] # o[j]
  BY DEF Orderings, SetToSeqs
<1>3. IsFiniteSet(D) /\ Cardinality(D) = n
  <2>1. Cardinality(1..n) = IF 1 > n THEN 0 ELSE n - 1 + 1
    BY <1>1, FS_Interval
  <2>2. IsFiniteSet(1..n)
    BY <1>1, FS_Interval
  <2> HIDE DEF n
  <2> QED
    BY <1>1, <2>1, <2>2
<1>4. o \in Injection(D, Bench)
  BY <1>2 DEF Injection, IsInjective
<1>5. o \in Surjection(D, Bench)
  <2> HIDE DEF D
  <2> QED
    BY <1>3, <1>4, FS_Injection
<1>6. \A t \in Bench : \E s \in D : o[s] = t
  BY <1>5 DEF Surjection
<1>7. o \in Seq(Bench)
  BY <1>1, <1>2
<1> QED
  BY <1>2, <1>6, <1>7

LEMMA RemoveAtParts ==
  ASSUME NEW T, NEW q \in Seq(T), NEW i \in DOMAIN q
  PROVE  LET s == RemoveAt(q, i) IN
           /\ s \in Seq(T) /\ DOMAIN s = 1..(Len(q) - 1)
           /\ \A k \in 1..(Len(q) - 1) : s[k] = IF k < i THEN q[k] ELSE q[k + 1]
<1> DEFINE n == Len(q)
           a == SubSeq(q, 1, i - 1)
           b == SubSeq(q, i + 1, n)
           s == a \o b
<1>1. n \in Nat /\ DOMAIN q = 1..n /\ i \in 1..n
  OBVIOUS
<1>2. a \in Seq(T) /\ Len(a) = i - 1 /\ \A k \in 1..(i - 1) : a[k] = q[k]
  BY <1>1
<1>3. b \in Seq(T) /\ Len(b) = n - i /\ \A k \in 1..(n - i) : b[k] = q[i + k]
  BY <1>1
<1> HIDE DEF a, b, n
<1>4. s \in Seq(T) /\ Len(s) = n - 1
  <2>1. s \in Seq(T)
    BY <1>2, <1>3, ConcatProperties
  <2>2. Len(s) = Len(a) + Len(b)
    BY <1>2, <1>3, ConcatProperties
  <2> HIDE DEF s
  <2> QED
    BY <1>1, <1>2, <1>3, <2>1, <2>2
<1>5. \A k \in 1..(n - 1) : s[k] = IF k < i THEN q[k] ELSE q[k + 1]
  <2> TAKE k \in 1..(n - 1)
  <2>1. CASE k < i
    <3>1. k \in 1..Len(a)
      BY <1>1, <1>2, <2>1
    <3>2. s[k] = a[k]
      BY <1>2, <1>3, <3>1
    <3> QED
      BY <1>1, <1>2, <2>1, <3>1, <3>2
  <2>2. CASE ~(k < i)
    <3>1. k - (i - 1) \in 1..(n - i) /\ k \in (Len(a) + 1)..(Len(a) + Len(b))
      BY <1>1, <1>2, <1>3, <2>2
    <3>2. s[k] = b[k - Len(a)]
      BY <1>2, <1>3, <3>1
    <3>3. b[k - (i - 1)] = q[i + (k - (i - 1))] /\ i + (k - (i - 1)) = k + 1
      BY <1>1, <1>3, <3>1
    <3> QED
      BY <1>2, <2>2, <3>2, <3>3
  <2> QED
    BY <2>1, <2>2
<1>6. RemoveAt(q, i) = s
  BY DEF RemoveAt, a, b, n
<1>7. DOMAIN s = 1..(n - 1)
  BY <1>4
<1> QED
  BY <1>4, <1>5, <1>6, <1>7 DEF n

(* A substitute for the outfield may come on unless he takes a position     *)
(* below its minimum: there are never too many of a position.               *)
LEMMA SwapLegal ==
  ASSUME NEW S \in SUBSET Squad, IsLegalXI(S), NEW s \in S, NEW t \in Squad \ S, PositionOf[t] # GK
  PROVE  IsLegalXI(Swap(S, s, t)) <=>
           PositionOf[s] = PositionOf[t] \/ Cardinality(At(S, PositionOf[s])) > XiMin[PositionOf[s]]
<1> DEFINE W == Swap(S, s, t)
           c(p) == Cardinality(At(S, p))
           e(p) == Cardinality(At(W, p))
<1>1. W \in SUBSET Squad /\ Cardinality(W) = Cardinality(S)
  BY SwapParts
<1>2. Cardinality(S) = XiSize /\ InBounds(S)
  BY LegalMeans
<1>3. \A p : c(p) \in Nat /\ e(p) \in Nat
  BY <1>1, AtParts
<1>4. \A p \in Positions : XiMin[p] \in Nat /\ XiMax[p] \in Nat /\ XiMin[p] <= c(p) /\ c(p) <= XiMax[p]
  BY <1>2, SquadParts DEF InBounds
<1>5. \A p :
        /\ PositionOf[s] = PositionOf[t] => e(p) = c(p)
        /\ PositionOf[s] # PositionOf[t] =>
             /\ p = PositionOf[s] => e(p) = c(p) - 1
             /\ p = PositionOf[t] => e(p) = c(p) + 1
             /\ p # PositionOf[s] /\ p # PositionOf[t] => e(p) = c(p)
  BY SwapCounts
<1>6. PositionOf[s] \in Positions /\ PositionOf[t] \in Positions
  BY SquadParts
<1>7. e(PositionOf[t]) <= XiMax[PositionOf[t]]
  <2> DEFINE p == PositionOf[t]
  <2>1. Cardinality(At(Squad, p)) <= XiMax[p]
    BY <1>6, WeekAssumption
  <2>2. At(W, p) \in SUBSET At(Squad, p) /\ IsFiniteSet(At(Squad, p)) /\ Cardinality(At(Squad, p)) \in Nat
    BY <1>1, AtParts DEF At
  <2> HIDE DEF W, p
  <2>3. e(p) <= Cardinality(At(Squad, p))
    BY <2>2, FS_Subset
  <2>4. e(p) \in Nat /\ XiMax[p] \in Nat
    BY <1>3, <1>4, <1>6 DEF p
  <2>5. e(p) <= XiMax[p]
    BY <2>1, <2>2, <2>3, <2>4
  <2> QED
    BY <2>5 DEF p
<1>8. IsLegalXI(W) <=> InBounds(W)
  <2> HIDE DEF W
  <2> QED
    BY <1>1, <1>2, LegalMeans
<1>9. InBounds(W) <=> \A p \in Positions : XiMin[p] <= e(p) /\ e(p) <= XiMax[p]
  BY DEF InBounds
<1> HIDE DEF W, c, e
<1>10. CASE PositionOf[s] = PositionOf[t]
  BY <1>4, <1>5, <1>8, <1>9, <1>10 DEF W
<1>11. CASE PositionOf[s] # PositionOf[t]
  <2> DEFINE p == PositionOf[s]
  <2>1. e(p) = c(p) - 1 /\ c(p) \in Nat /\ XiMin[p] \in Nat /\ XiMax[p] \in Nat /\ c(p) <= XiMax[p]
    BY <1>3, <1>4, <1>5, <1>6, <1>11
  <2>2. XiMin[p] <= e(p) <=> c(p) > XiMin[p]
    BY <2>1
  <2>3. ASSUME NEW q \in Positions, q # p PROVE XiMin[q] <= e(q) /\ e(q) <= XiMax[q]
    <3>1. CASE q = PositionOf[t]
      <4>1. e(q) = c(q) + 1
        BY <1>5, <1>11, <3>1
      <4>2. XiMin[q] <= e(q)
        BY <1>3, <1>4, <4>1
      <4> QED
        BY <1>7, <3>1, <4>2
    <3>2. CASE q # PositionOf[t]
      BY <1>4, <1>5, <1>11, <2>3, <3>2
    <3> QED
      BY <3>1, <3>2
  <2>4. e(p) <= XiMax[p]
    BY <2>1
  <2>5. InBounds(W) <=> c(p) > XiMin[p]
    BY <1>6, <1>9, <2>2, <2>3, <2>4
  <2> QED
    BY <1>8, <1>11, <2>5 DEF W, c
<1> QED
  BY <1>10, <1>11

(* Coming on keeps the priority of those left behind. *)
LEMMA PriorityKept ==
  ASSUME NEW S \in SUBSET Squad, IsLegalXI(S),
         NEW s \in S, NEW t \in Squad \ S, PositionOf[t] # GK, IsLegalXI(Swap(S, s, t)),
         NEW e \in S, e # s, NEW a \in Squad \ S, a # t, PositionOf[a] # GK,
         ~IsLegalXI(Swap(S, e, a)),
         PositionOf[t] = PositionOf[e] => PositionOf[s] = PositionOf[e]
  PROVE  ~IsLegalXI(Swap(Swap(S, s, t), e, a))
<1> DEFINE W == Swap(S, s, t)
           p == PositionOf[e]
<1>1. PositionOf[e] # PositionOf[a] /\ ~(Cardinality(At(S, p)) > XiMin[p])
  BY SwapLegal
<1>2. W \in SUBSET Squad /\ e \in W /\ a \in Squad \ W
  BY DEF Swap
<1>3. Cardinality(At(W, p)) <= Cardinality(At(S, p))
  <2> DEFINE n == Cardinality(At(S, p))
             m == Cardinality(At(W, p))
  <2>1. /\ PositionOf[s] = PositionOf[t] => m = n
        /\ PositionOf[s] # PositionOf[t] =>
             /\ p = PositionOf[s] => m = n - 1
             /\ p = PositionOf[t] => m = n + 1
             /\ p # PositionOf[s] /\ p # PositionOf[t] => m = n
    BY SwapCounts
  <2>2. n \in Nat
    BY AtParts
  <2>3. p = PositionOf[t] => PositionOf[s] = PositionOf[t]
    OBVIOUS
  <2> HIDE DEF n, m, p
  <2>4. m <= n
    BY <2>1, <2>2, <2>3
  <2> QED
    BY <2>4 DEF n, m
<1>4. /\ Cardinality(At(W, p)) \in Nat /\ Cardinality(At(S, p)) \in Nat /\ XiMin[p] \in Nat
  <2>1. p \in Positions
    BY SquadParts
  <2> QED
    BY <1>2, <2>1, AtParts, SquadParts
<1>5. ~(Cardinality(At(W, p)) > XiMin[p])
  <2> DEFINE n == Cardinality(At(S, p))
             m == Cardinality(At(W, p))
             l == XiMin[p]
  <2>1. n \in Nat /\ m \in Nat /\ l \in Nat /\ m <= n /\ ~(n > l)
    BY <1>1, <1>3, <1>4
  <2> HIDE DEF n, m, l
  <2>2. ~(m > l)
    BY <2>1
  <2> QED
    BY <2>2 DEF m, l
<1>6. IsLegalXI(W)
  OBVIOUS
<1> HIDE DEF W
<1>7. ~IsLegalXI(Swap(W, e, a))
  BY <1>1, <1>2, <1>5, <1>6, SwapLegal
<1> QED
  BY <1>7 DEF W

LEMMA SameWeek ==
  UNCHANGED <<xi, featured>> =>
    /\ Starters' = Starters /\ Blanks' = Blanks /\ First' = First /\ Reserve' = Reserve
    /\ Bench' = Bench /\ Orderings' = Orderings
BY DEF Starters, Blanks, First, Reserve, Bench, Orderings

(* The goalkeeper slot is settled: everybody else waits, and nobody has     *)
(* come on.                                                                 *)
LEMMA KeeperSettled ==
  ASSUME DataTyped, SelectionInv, ReplayInv, stage = "replay", pc = "keeper", pc' = "next",
         UNCHANGED <<xi, featured, order, queue, vacancies, vacant, entered>>,
         live' \in SUBSET Squad, IsLegalXI(live'), Outfield(live') = Outfield(xi),
         live' = xi \/ (At(live', GK) = {Reserve} /\ First \notin featured),
         unfilled' \subseteq {First},
         unfilled' # {} => First \notin featured /\ live' = xi
  PROVE  ReplayInv'
<1>1. /\ xi \in SUBSET Squad /\ First \in xi /\ PositionOf[First] = GK /\ At(xi, GK) = {First}
      /\ Bench \in SUBSET Squad /\ IsFiniteSet(Bench)
  BY XiParts
<1>2. /\ order \in Orderings /\ queue = order /\ vacancies = Blanks
      /\ unfilled = {} /\ entered = {} /\ vacant = Nobody
  BY DEF ReplayInv
<1>3. /\ Starters' = Starters /\ Blanks' = Blanks /\ First' = First /\ Reserve' = Reserve
      /\ Bench' = Bench /\ Orderings' = Orderings
  BY SameWeek
<1>4. queue' = order /\ order' = order /\ vacancies' = Blanks /\ entered' = {} /\ vacant' = Nobody
  BY <1>2
<1>5. Named' = live'
  BY <1>1, <1>4 DEF Named
<1>6. KeeperInv'
  <2>1. At(live', GK) = {First} \/ (At(live', GK) = {Reserve} /\ First \notin featured)
    BY <1>1
  <2>2. First \in At(unfilled', GK) => First \notin featured /\ At(live', GK) = {First}
    BY <1>1 DEF At
  <2>3. At(unfilled', GK) \subseteq {First}
    BY DEF At
  <2> QED
    BY <1>3, <2>1, <2>2, <2>3 DEF KeeperInv
<1>7. Outfield(unfilled') = {}
  BY <1>1 DEF Outfield
<1>8. FieldInv'
  <2>1. Outfield(live') = Starters \cup {} \cup Blanks
    BY DEF Starters, Blanks, Outfield
  <2>2. Waiting' = Blanks
    BY <1>4, <1>7 DEF Waiting
  <2>3. Blanks \cap unfilled' = {}
    BY <1>1 DEF Blanks, Outfield
  <2>4. Nobody \notin Blanks \cup unfilled'
    <3>1. Nobody \notin Squad /\ Blanks \subseteq Squad
      BY <1>1, SquadParts DEF Nobody, Blanks, Outfield
    <3> QED
      BY <1>1, <3>1
  <2> QED
    BY <1>3, <1>4, <2>1, <2>2, <2>3, <2>4 DEF FieldInv
<1>9. QueueInv'
  <2>1. order \in Seq(Bench) /\ {order[k] : k \in DOMAIN order} = Bench
    BY <1>1, <1>2, OrderingParts
  <2> QED
    BY <1>3, <1>4, <2>1 DEF QueueInv
<1>10. PriorityInv'
  BY <1>4 DEF PriorityInv
<1>11. StuckInv'
  BY <1>7 DEF StuckInv
<1>12. FillInv'
  BY DEF FillInv
<1> QED
  BY <1>2, <1>3, <1>4, <1>5, <1>6, <1>8, <1>9, <1>10, <1>11, <1>12 DEF ReplayInv

LEMMA KeeperStep ==
  ASSUME DataTyped, SelectionInv, ReplayInv, stage = "replay",
         KeeperStays \/ KeeperReplaced \/ KeeperUncovered
  PROVE  ReplayInv'
<1>1. pc = "keeper" /\ pc' = "next" /\ UNCHANGED <<xi, featured, order, queue, vacancies, vacant, entered>>
  BY DEF KeeperStays, KeeperReplaced, KeeperUncovered, week
<1>2. /\ xi \in SUBSET Squad /\ IsLegalXI(xi)
      /\ First \in xi /\ PositionOf[First] = GK /\ At(xi, GK) = {First}
      /\ Reserve \in Squad \ xi /\ PositionOf[Reserve] = GK
  BY <1>1, XiParts
<1>3. live = xi /\ unfilled = {}
  BY <1>1 DEF ReplayInv
<1>4. CASE KeeperStays
  <2>1. live' = xi /\ unfilled' = {}
    BY <1>3, <1>4 DEF KeeperStays
  <2> QED
    BY <1>1, <1>2, <2>1, KeeperSettled
<1>5. CASE KeeperReplaced
  <2>1. live' = Swap(xi, First, Reserve) /\ unfilled' = {} /\ First \notin featured
    BY <1>3, <1>5 DEF KeeperReplaced, Swap, First, Reserve
  <2>2. Swap(xi, First, Reserve) \in SUBSET Squad
    BY <1>2 DEF Swap
  <2>3. IsLegalXI(Swap(xi, First, Reserve))
    <3>1. \A p : Cardinality(At(Swap(xi, First, Reserve), p)) = Cardinality(At(xi, p))
      BY <1>2, SwapCounts
    <3>2. Counts(Swap(xi, First, Reserve)) = Counts(xi)
      BY <3>1 DEF Counts
    <3> QED
      BY <1>2, <3>2 DEF IsLegalXI
  <2>4. Outfield(Swap(xi, First, Reserve)) = Outfield(xi)
    BY <1>2 DEF Outfield, Swap
  <2>5. At(Swap(xi, First, Reserve), GK) = {Reserve}
    BY <1>2 DEF At, Swap
  <2> QED
    BY <1>1, <2>1, <2>2, <2>3, <2>4, <2>5, KeeperSettled
<1>6. CASE KeeperUncovered
  <2>1. live' = xi /\ unfilled' = {First} /\ First \notin featured
    BY <1>3, <1>6 DEF KeeperUncovered, First
  <2> QED
    BY <1>1, <1>2, <2>1, KeeperSettled
<1> QED
  BY <1>4, <1>5, <1>6

(* What a settled side is made of. *)
LEMMA SettledParts ==
  ASSUME DataTyped, SelectionInv, StagesTyped, ReplayInv, stage = "replay", pc # "keeper"
  PROVE  /\ Named \in SUBSET Squad /\ IsLegalXI(Named)
         /\ KeeperInv /\ FieldInv /\ QueueInv /\ PriorityInv /\ StuckInv /\ FillInv
         /\ order \in Orderings
         /\ live \in SUBSET Squad /\ unfilled \in SUBSET Squad /\ Waiting \in SUBSET Squad
         /\ vacancies \subseteq live
         /\ At(unfilled, GK) \subseteq live
         /\ Outfield(live) \cap Outfield(unfilled) = {}
         /\ vacant # Nobody => vacant \in Named /\ vacant \notin live
                              /\ vacant \in Squad /\ PositionOf[vacant] # GK
<1>1. /\ Named \in SUBSET Squad /\ IsLegalXI(Named) /\ order \in Orderings
      /\ KeeperInv /\ FieldInv /\ QueueInv /\ PriorityInv /\ StuckInv /\ FillInv
  BY DEF ReplayInv
<1>2. live \in SUBSET Squad /\ unfilled \in SUBSET Squad
  BY <1>1 DEF Named
<1>3. xi \in SUBSET Squad
  BY XiParts DEF StagesTyped
<1>4. Waiting \subseteq Blanks /\ Blanks \subseteq Squad
  BY <1>1, <1>3 DEF FieldInv, Blanks, Outfield
<1>5. vacancies \subseteq live
  BY <1>1 DEF FieldInv, Outfield
<1>6. At(unfilled, GK) \subseteq live
  BY <1>1 DEF KeeperInv, At
<1>7. Starters \cap Blanks = {} /\ entered \cap Blanks = {}
  BY <1>1 DEF FieldInv, Starters, Blanks, Outfield, Bench
<1>8. Outfield(live) \cap Outfield(unfilled) = {}
  <2>1. Outfield(unfilled) \subseteq Blanks /\ Outfield(unfilled) \cap vacancies = {}
    BY <1>1, <1>4 DEF FieldInv, Waiting, Outfield
  <2> QED
    BY <1>1, <1>7, <2>1 DEF FieldInv
<1>9. ASSUME vacant # Nobody
      PROVE  vacant \in Named /\ vacant \notin live /\ vacant \in Squad /\ PositionOf[vacant] # GK
  <2>1. vacant \in Blanks /\ vacant \in Named
    BY <1>4, <1>9 DEF Waiting, Named
  <2>2. PositionOf[vacant] # GK
    BY <2>1 DEF Blanks, Outfield
  <2>3. vacant \notin Outfield(live)
    BY <1>1, <1>7, <2>1 DEF FieldInv
  <2>4. vacant \notin live
    BY <2>2, <2>3 DEF Outfield
  <2> QED
    BY <1>4, <2>1, <2>2, <2>4
<1> QED
  BY <1>1, <1>2, <1>4, <1>5, <1>6, <1>8, <1>9

LEMMA VacateStep ==
  ASSUME DataTyped, SelectionInv, StagesTyped, ReplayInv, stage = "replay",
         NEW x \in Squad, Vacate(x)
  PROVE  ReplayInv'
<1>1. /\ pc = "next" /\ pc' = "fill" /\ UNCHANGED <<xi, featured, order, queue, unfilled, entered>>
      /\ x \in vacancies /\ \A y \in vacancies \ {x} : Before(x, y)
      /\ vacant' = x /\ vacancies' = vacancies \ {x} /\ live' = live \ {x}
  BY DEF Vacate, week
<1>2. /\ Named \in SUBSET Squad /\ IsLegalXI(Named)
      /\ KeeperInv /\ FieldInv /\ QueueInv /\ PriorityInv /\ StuckInv
      /\ order \in Orderings /\ live \in SUBSET Squad /\ vacancies \subseteq live
  BY <1>1, SettledParts
<1>3. /\ Starters' = Starters /\ Blanks' = Blanks /\ First' = First /\ Reserve' = Reserve
      /\ Bench' = Bench /\ Orderings' = Orderings
  BY <1>1, SameWeek
<1>4. vacant = Nobody /\ x # Nobody
  <2>1. Nobody \notin Squad
    BY SquadParts DEF Nobody
  <2> QED
    BY <1>1, <1>2, <2>1 DEF FieldInv
<1>5. x \in Blanks /\ PositionOf[x] # GK /\ x \notin Starters /\ x \notin entered
  <2>1. x \in Blanks
    BY <1>1, <1>2 DEF FieldInv, Waiting
  <2> QED
    BY <1>2, <2>1 DEF FieldInv, Blanks, Outfield, Starters, Bench
<1>6. Named' = Named
  BY <1>1, <1>2, <1>4 DEF Named
<1>7. Waiting' = Waiting
  BY <1>1, <1>4 DEF Waiting
<1>8. KeeperInv'
  <2>1. At(live', GK) = At(live, GK)
    BY <1>1, <1>5 DEF At
  <2> QED
    BY <1>1, <1>2, <1>3, <2>1 DEF KeeperInv
<1>9. FieldInv'
  <2>1. Outfield(live') = Outfield(live) \ {x}
    BY <1>1 DEF Outfield
  <2>2. Outfield(live') = Starters \cup entered \cup vacancies'
    BY <1>1, <1>2, <1>5, <2>1 DEF FieldInv
  <2> QED
    BY <1>1, <1>2, <1>3, <1>4, <1>7, <2>2 DEF FieldInv
<1>10. QueueInv'
  BY <1>1, <1>2, <1>3 DEF QueueInv
<1>11. PriorityInv'
  BY <1>1, <1>2, <1>6 DEF PriorityInv
<1>12. StuckInv'
  BY <1>1, <1>2, <1>3, <1>6, <1>7 DEF StuckInv
<1>13. FillInv'
  <2> SUFFICES ASSUME NEW y \in vacancies'
               PROVE  Spare(live' \cup {x}, PositionOf[y]) <= Spare(live' \cup {x}, PositionOf[x])
    BY <1>1 DEF FillInv
  <2>1. live' \cup {x} = live
    BY <1>1, <1>2
  <2>2. Slack(x) = Spare(live, PositionOf[x]) /\ Slack(y) = Spare(live, PositionOf[y])
    BY DEF Slack, Spare
  <2>3. Slack(x) \in Int /\ Slack(y) \in Int
    <3>1. PositionOf[x] \in Positions /\ PositionOf[y] \in Positions
      BY <1>1, <1>2, SquadParts
    <3>2. \A p \in Positions : Cardinality(At(live, p)) \in Nat /\ XiMin[p] \in Nat
      BY <1>2, AtParts, SquadParts
    <3> QED
      BY <3>1, <3>2 DEF Slack
  <2>4. Slack(x) > Slack(y) \/ Slack(x) = Slack(y)
    BY <1>1 DEF Before
  <2>5. Slack(y) <= Slack(x)
    BY <2>3, <2>4
  <2> QED
    BY <2>1, <2>2, <2>5
<1> QED
  BY <1>1, <1>2, <1>3, <1>6, <1>8, <1>9, <1>10, <1>11, <1>12, <1>13 DEF ReplayInv

(* While no outfield place is unfilled, a substitute takes the place of the *)
(* starter who left.                                                        *)
LEMMA FillingParts ==
  ASSUME DataTyped, SelectionInv, StagesTyped, ReplayInv, stage = "replay", pc = "fill"
  PROVE  /\ vacant \in Named /\ vacant \in Squad /\ PositionOf[vacant] # GK /\ vacant \notin live
         /\ Outfield(unfilled) = {} <=> Named = live \cup {vacant}
         /\ \A c \in Bench \ entered :
              /\ c \in Squad \ Named /\ PositionOf[c] # GK
              /\ IsLegalXI(live \cup {c}) => Outfield(unfilled) = {}
              /\ Outfield(unfilled) = {} => live \cup {c} = Swap(Named, vacant, c)
<1>1. /\ Named \in SUBSET Squad /\ IsLegalXI(Named) /\ FieldInv
      /\ live \in SUBSET Squad /\ unfilled \in SUBSET Squad /\ At(unfilled, GK) \subseteq live
      /\ Outfield(live) \cap Outfield(unfilled) = {}
      /\ vacant # Nobody => vacant \in Named /\ vacant \notin live /\ vacant \in Squad /\ PositionOf[vacant] # GK
  BY SettledParts
<1>2. vacant # Nobody /\ vacant \notin unfilled
  BY <1>1 DEF FieldInv
<1>3. vacant \in Named /\ vacant \in Squad /\ PositionOf[vacant] # GK /\ vacant \notin live
  BY <1>1, <1>2
<1>4. Named = live \cup unfilled \cup {vacant}
  BY <1>2 DEF Named
<1>5. Outfield(unfilled) = {} <=> unfilled \subseteq live
  BY <1>1 DEF Outfield, At
<1>6. Outfield(unfilled) = {} <=> Named = live \cup {vacant}
  BY <1>2, <1>4, <1>5
<1>7. ASSUME NEW c \in Bench \ entered
      PROVE  /\ c \in Squad \ Named /\ PositionOf[c] # GK
             /\ IsLegalXI(live \cup {c}) => Outfield(unfilled) = {}
             /\ Outfield(unfilled) = {} => live \cup {c} = Swap(Named, vacant, c)
  <2>1. c \in Squad /\ c \notin xi /\ PositionOf[c] # GK
    BY DEF Bench, Outfield
  <2>2. c \notin live
    <3>1. c \notin Outfield(live)
      BY <1>1, <2>1 DEF FieldInv, Waiting, Starters, Blanks, Outfield
    <3> QED
      BY <2>1, <3>1 DEF Outfield
  <2>3. c \notin unfilled /\ c # vacant
    BY <1>1, <1>2, <2>1 DEF FieldInv, Waiting, Blanks, Outfield
  <2>4. c \in Squad \ Named
    BY <1>4, <2>1, <2>2, <2>3
  <2>5. ASSUME IsLegalXI(live \cup {c}) PROVE Outfield(unfilled) = {}
    <3>1. Cardinality(live \cup {c}) = XiSize /\ Cardinality(Named) = XiSize
      <4>1. live \cup {c} \in SUBSET Squad
        BY <1>1, <2>1
      <4> QED
        BY <1>1, <2>5, <4>1, LegalMeans
    <3>2. IsFiniteSet(live) /\ IsFiniteSet(Named)
      BY <1>1, AtParts
    <3>3. Cardinality(live \cup {c}) = Cardinality(live \cup {vacant})
      <4>1. Cardinality(live \cup {c}) = Cardinality(live) + 1 /\ Cardinality(live \cup {vacant}) = Cardinality(live) + 1
        BY <1>3, <2>2, <3>2, FS_AddElement
      <4> QED
        BY <4>1
    <3>4. live \cup {vacant} \in SUBSET Named
      BY <1>4
    <3>5. live \cup {vacant} = Named
      BY <3>1, <3>2, <3>3, <3>4, FS_Subset
    <3> QED
      BY <1>6, <3>5
  <2>6. ASSUME Outfield(unfilled) = {} PROVE live \cup {c} = Swap(Named, vacant, c)
    BY <1>3, <1>6, <2>6 DEF Swap
  <2> QED
    BY <2>1, <2>4, <2>5, <2>6
<1> QED
  BY <1>3, <1>6, <1>7

LEMMA NobodyStep ==
  ASSUME DataTyped, SelectionInv, StagesTyped, ReplayInv, stage = "replay", NobodyEnters
  PROVE  ReplayInv'
<1>1. /\ pc = "fill" /\ pc' = "next" /\ UNCHANGED <<xi, featured, order, live, queue, vacancies, entered>>
      /\ \A i \in DOMAIN queue : ~Qualifies(queue[i])
      /\ unfilled' = unfilled \cup {vacant} /\ vacant' = Nobody
  BY DEF NobodyEnters, week
<1>2. /\ Named \in SUBSET Squad /\ IsLegalXI(Named)
      /\ KeeperInv /\ FieldInv /\ QueueInv /\ PriorityInv /\ StuckInv /\ FillInv
      /\ order \in Orderings /\ live \in SUBSET Squad /\ Waiting \in SUBSET Squad
  BY <1>1, SettledParts
<1>3. /\ Starters' = Starters /\ Blanks' = Blanks /\ First' = First /\ Reserve' = Reserve
      /\ Bench' = Bench /\ Orderings' = Orderings
  BY <1>1, SameWeek
<1>4. /\ vacant \in Named /\ vacant \in Squad /\ PositionOf[vacant] # GK
      /\ Outfield(unfilled) = {} <=> Named = live \cup {vacant}
      /\ \A c \in Bench \ entered :
           /\ c \in Squad \ Named /\ PositionOf[c] # GK
           /\ Outfield(unfilled) = {} => live \cup {c} = Swap(Named, vacant, c)
  BY <1>1, FillingParts
<1>5. vacant # Nobody
  BY <1>1, <1>2 DEF FieldInv
<1>6. Named' = Named
  BY <1>1, <1>5 DEF Named
<1>7. Waiting' = Waiting
  BY <1>1, <1>4, <1>5 DEF Waiting, Outfield
<1>8. KeeperInv'
  <2>1. At(unfilled', GK) = At(unfilled, GK)
    BY <1>1, <1>4 DEF At
  <2> QED
    BY <1>1, <1>2, <1>3, <2>1 DEF KeeperInv
<1>9. FieldInv'
  <2>1. vacancies \cap unfilled' = {}
    BY <1>1, <1>2 DEF FieldInv
  <2>2. Nobody \notin vacancies \cup unfilled'
    <3>1. vacancies \subseteq Squad /\ unfilled \subseteq Squad
      BY <1>2 DEF Waiting, Named
    <3> QED
      BY <1>1, <1>4, <3>1, SquadParts DEF Nobody
  <2> QED
    BY <1>1, <1>2, <1>3, <1>7, <2>1, <2>2 DEF FieldInv
<1>10. QueueInv'
  BY <1>1, <1>2, <1>3 DEF QueueInv
<1>11. PriorityInv'
  BY <1>1, <1>2, <1>6 DEF PriorityInv
<1>12. FillInv'
  BY <1>1 DEF FillInv
<1>13. StuckInv'
  <2>1. CASE Outfield(unfilled) # {}
    BY <1>1, <1>2, <1>3, <1>6, <1>7, <2>1 DEF StuckInv
  <2>2. CASE Outfield(unfilled) = {} /\ Bench \cap featured \subseteq entered
    BY <1>1, <1>3, <2>2 DEF StuckInv
  <2>3. CASE Outfield(unfilled) = {} /\ ~(Bench \cap featured \subseteq entered)
    <3> DEFINE p == PositionOf[vacant]
               n == Cardinality(At(Named, p))
    <3>1. PICK b \in (Bench \cap featured) \ entered : TRUE
      BY <2>3
    <3>2. ASSUME NEW c \in (Bench \cap featured) \ entered
          PROVE  PositionOf[c] # p /\ ~(n > XiMin[p])
      <4>1. c \in {queue[k] : k \in DOMAIN queue}
        BY <1>2 DEF QueueInv
      <4>2. ~IsLegalXI(live \cup {c})
        BY <1>1, <4>1 DEF Qualifies
      <4>3. c \in Squad \ Named /\ PositionOf[c] # GK /\ ~IsLegalXI(Swap(Named, vacant, c))
        BY <1>4, <2>3, <4>2
      <4> QED
        BY <1>2, <1>4, <4>3, SwapLegal
    <3>3. p \in Positions \ {GK}
      BY <1>4, SquadParts
    <3>4. \A q \in Positions : /\ Cardinality(At(Named, q)) \in Nat /\ XiMin[q] \in Nat
                               /\ XiMin[q] <= Cardinality(At(Named, q))
      BY <1>2, AtParts, SquadParts, LegalMeans DEF InBounds
    <3>5. n = XiMin[p]
      <4>1. ~(n > XiMin[p]) /\ n \in Nat /\ XiMin[p] \in Nat /\ XiMin[p] <= n
        BY <3>1, <3>2, <3>3, <3>4
      <4> HIDE DEF n, p
      <4> QED
        BY <4>1
    <3>6. At(Bench \cap featured, p) \subseteq entered
      <4> SUFFICES ASSUME NEW c \in At(Bench \cap featured, p), c \notin entered PROVE FALSE
        OBVIOUS
      <4>1. c \in (Bench \cap featured) \ entered /\ PositionOf[c] = p
        BY DEF At
      <4> QED
        BY <3>2, <4>1
    <3>7. ASSUME NEW y \in vacancies PROVE PositionOf[y] = p
      <4> DEFINE q == PositionOf[y]
                 m == Cardinality(At(Named, q))
      <4>1. y \in Squad /\ q \in Positions \ {GK}
        <5>1. y \in Blanks /\ y \in Squad
          BY <1>2 DEF FieldInv, Waiting
        <5> QED
          BY <5>1, SquadParts DEF Blanks, Outfield
      <4>2. Spare(Named, q) <= Spare(Named, p)
        BY <1>1, <1>2, <1>4, <2>3 DEF FillInv
      <4>3. m - XiMin[q] <= n - XiMin[p]
        BY <4>2 DEF Spare
      <4>4. m \in Nat /\ XiMin[q] \in Nat /\ XiMin[q] <= m /\ n \in Nat /\ XiMin[p] \in Nat
        BY <3>3, <3>4, <4>1
      <4>5. m = XiMin[q]
        <5> HIDE DEF m, n, q, p
        <5> QED
          BY <3>5, <4>3, <4>4
      <4>6. Counts(Named)[q] = XiMin[q] /\ Counts(Named)[p] = XiMin[p] /\ Counts(Named) \in LegalFormations
        <5> HIDE DEF p, q
        <5> QED
          BY <1>2, <3>3, <3>5, <4>1, <4>5 DEF Counts, IsLegalXI, n, m
      <4>7. \A f \in LegalFormations : \A p1, q1 \in Positions \ {GK} :
              f[p1] = XiMin[p1] /\ f[q1] = XiMin[q1] => p1 = q1
        BY WeekAssumption
      <4> HIDE DEF p, q
      <4>8. q = p
        BY <3>3, <4>1, <4>6, <4>7
      <4> QED
        BY <4>8 DEF q
    <3>8. Waiting \subseteq At(Squad, p)
      <4>1. Waiting = vacancies \cup {vacant}
        BY <1>5, <2>3 DEF Waiting
      <4> QED
        BY <1>2, <1>4, <3>7, <4>1 DEF At
    <3> QED
      BY <1>1, <1>3, <1>6, <1>7, <3>3, <3>5, <3>6, <3>8 DEF StuckInv
  <2> QED
    BY <2>1, <2>2, <2>3
<1> QED
  BY <1>1, <1>2, <1>3, <1>6, <1>8, <1>9, <1>10, <1>11, <1>12, <1>13 DEF ReplayInv

LEMMA QueueStep ==
  ASSUME IsFiniteSet(Bench), order \in Orderings, QueueInv, NEW i \in DOMAIN queue
  PROVE  LET q == RemoveAt(queue, i)
             left == entered \cup {queue[i]} IN
           /\ q \in Seq(Bench)
           /\ {q[k] : k \in DOMAIN q} = Bench \ left
           /\ \A k, l \in DOMAIN q : k < l =>
                \E m, j \in DOMAIN order : m < j /\ order[m] = q[k] /\ order[j] = q[l]
<1> DEFINE q == RemoveAt(queue, i)
           n == Len(queue)
           old(k) == IF k < i THEN k ELSE k + 1
           c == queue[i]
<1>1. /\ queue \in Seq(Bench) /\ {queue[k] : k \in DOMAIN queue} = Bench \ entered
      /\ \A k, l \in DOMAIN queue : k < l =>
           \E m, j \in DOMAIN order : m < j /\ order[m] = queue[k] /\ order[j] = queue[l]
  BY DEF QueueInv
<1>2. n \in Nat /\ DOMAIN queue = 1..n /\ i \in 1..n
  BY <1>1
<1>3. q \in Seq(Bench) /\ DOMAIN q = 1..(n - 1) /\ \A k \in 1..(n - 1) : q[k] = IF k < i THEN queue[k] ELSE queue[k + 1]
  BY <1>1, RemoveAtParts
<1> HIDE DEF q, n
<1>4. \A k \in DOMAIN q : old(k) \in DOMAIN queue /\ old(k) # i /\ q[k] = queue[old(k)]
  BY <1>2, <1>3
<1>5. \A k, l \in DOMAIN q : k < l => old(k) < old(l)
  BY <1>2, <1>3
<1>6. \A k \in DOMAIN queue : k # i => \E l \in DOMAIN q : old(l) = k
  <2> SUFFICES ASSUME NEW k \in DOMAIN queue, k # i PROVE \E l \in DOMAIN q : old(l) = k
    OBVIOUS
  <2>1. CASE k < i
    <3>1. k \in DOMAIN q /\ old(k) = k
      BY <1>2, <1>3, <2>1
    <3> QED
      BY <3>1
  <2>2. CASE ~(k < i)
    <3>1. k - 1 \in DOMAIN q /\ old(k - 1) = k
      BY <1>2, <1>3, <2>2
    <3> QED
      BY <3>1
  <2> QED
    BY <2>1, <2>2
<1>7. \A k, l \in DOMAIN queue : queue[k] = queue[l] => k = l
  <2>1. ASSUME NEW k \in DOMAIN queue, NEW l \in DOMAIN queue, k < l PROVE queue[k] # queue[l]
    <3>1. PICK m, j \in DOMAIN order : m < j /\ order[m] = queue[k] /\ order[j] = queue[l]
      BY <1>1, <2>1
    <3>2. DOMAIN order = 1..Cardinality(Bench) /\ \A a, b \in DOMAIN order : order[a] = order[b] => a = b
      BY OrderingParts
    <3>3. m # j
      <4>1. Cardinality(Bench) \in Nat
        BY FS_CardinalityType
      <4>2. m \in Int /\ j \in Int
        BY <3>2, <4>1
      <4> QED
        BY <3>1, <4>2
    <3> QED
      BY <3>1, <3>2, <3>3
  <2> SUFFICES ASSUME NEW k \in DOMAIN queue, NEW l \in DOMAIN queue, k # l PROVE queue[k] # queue[l]
    OBVIOUS
  <2>2. k < l \/ l < k
    BY <1>2
  <2> QED
    BY <2>1, <2>2
<1> HIDE DEF old
<1>8. {q[k] : k \in DOMAIN q} = Bench \ (entered \cup {c})
  <2>1. \A k \in DOMAIN q : q[k] \in Bench \ (entered \cup {c})
    <3> TAKE k \in DOMAIN q
    <3>1. q[k] = queue[old(k)] /\ queue[old(k)] # c /\ old(k) \in DOMAIN queue
      BY <1>4, <1>7
    <3> QED
      BY <1>1, <3>1
  <2>2. ASSUME NEW x \in Bench \ (entered \cup {c}) PROVE x \in {q[k] : k \in DOMAIN q}
    <3>1. PICK k \in DOMAIN queue : queue[k] = x
      BY <1>1
    <3>2. k # i
      BY <3>1
    <3>3. PICK l \in DOMAIN q : old(l) = k
      BY <1>6, <3>2
    <3> QED
      BY <1>4, <3>1, <3>3
  <2> QED
    BY <2>1, <2>2
<1>9. ASSUME NEW k \in DOMAIN q, NEW l \in DOMAIN q, k < l
      PROVE  \E m, j \in DOMAIN order : m < j /\ order[m] = q[k] /\ order[j] = q[l]
  <2>1. old(k) \in DOMAIN queue /\ old(l) \in DOMAIN queue /\ old(k) < old(l)
    BY <1>4, <1>5, <1>9
  <2>2. q[k] = queue[old(k)] /\ q[l] = queue[old(l)]
    BY <1>4
  <2> QED
    BY <1>1, <2>1, <2>2
<1> QED
  BY <1>3, <1>8, <1>9 DEF q

LEMMA EnterStep ==
  ASSUME DataTyped, SelectionInv, StagesTyped, ReplayInv, stage = "replay",
         NEW k \in DOMAIN queue, Enter(k)
  PROVE  ReplayInv'
<1> DEFINE c == queue[k]
<1>1. /\ pc = "fill" /\ pc' = "next" /\ UNCHANGED <<xi, featured, order, vacancies, unfilled>>
      /\ Qualifies(c) /\ \A j \in 1..(k - 1) : ~Qualifies(queue[j])
      /\ live' = live \cup {c} /\ entered' = entered \cup {c}
      /\ queue' = RemoveAt(queue, k) /\ vacant' = Nobody
  BY DEF Enter, week
<1>2. /\ Named \in SUBSET Squad /\ IsLegalXI(Named)
      /\ KeeperInv /\ FieldInv /\ QueueInv /\ PriorityInv /\ StuckInv /\ FillInv
      /\ order \in Orderings /\ live \in SUBSET Squad /\ Waiting \in SUBSET Squad
      /\ unfilled \in SUBSET Squad /\ At(unfilled, GK) \subseteq live
  BY <1>1, SettledParts
<1>3. /\ Starters' = Starters /\ Blanks' = Blanks /\ First' = First /\ Reserve' = Reserve
      /\ Bench' = Bench /\ Orderings' = Orderings
  BY <1>1, SameWeek
<1>4. /\ vacant \in Named /\ vacant \in Squad /\ PositionOf[vacant] # GK /\ vacant \notin live
      /\ Outfield(unfilled) = {} <=> Named = live \cup {vacant}
      /\ \A a \in Bench \ entered :
           /\ a \in Squad \ Named /\ PositionOf[a] # GK
           /\ IsLegalXI(live \cup {a}) => Outfield(unfilled) = {}
           /\ Outfield(unfilled) = {} => live \cup {a} = Swap(Named, vacant, a)
  BY <1>1, FillingParts
<1>5. c \in Bench \ entered /\ c \in featured /\ IsLegalXI(live \cup {c})
  BY <1>1, <1>2 DEF QueueInv, Qualifies
<1>6. /\ Outfield(unfilled) = {} /\ Named = live \cup {vacant}
      /\ live \cup {c} = Swap(Named, vacant, c) /\ c \in Squad \ Named /\ PositionOf[c] # GK
  BY <1>4, <1>5
<1>7. IsFiniteSet(Bench)
  BY <1>1, XiParts
<1> HIDE DEF c
<1>8. Named' = live \cup {c}
  <2>1. unfilled \subseteq live
    BY <1>2, <1>6 DEF Outfield, At
  <2> QED
    BY <1>1, <2>1 DEF Named
<1>9. Named' \in SUBSET Squad /\ IsLegalXI(Named')
  BY <1>2, <1>5, <1>6, <1>8
<1>10. KeeperInv'
  <2>1. At(live', GK) = At(live, GK)
    BY <1>1, <1>6 DEF At
  <2> QED
    BY <1>1, <1>2, <1>3, <2>1 DEF KeeperInv
<1>11. FieldInv'
  <2>1. Outfield(live') = Outfield(live) \cup {c}
    BY <1>1, <1>6 DEF Outfield
  <2>2. Outfield(live') = Starters \cup entered' \cup vacancies
    BY <1>1, <1>2, <2>1 DEF FieldInv
  <2>3. Waiting' = vacancies /\ vacancies \subseteq Waiting
    BY <1>1, <1>6 DEF Waiting
  <2>4. entered' \subseteq Bench \cap featured
    BY <1>1, <1>2, <1>5 DEF FieldInv
  <2>5. Nobody \notin vacancies \cup unfilled
    <3>1. vacancies \subseteq Squad
      BY <1>2, <2>3
    <3> QED
      BY <1>2, <3>1, SquadParts DEF Nobody
  <2> QED
    BY <1>1, <1>2, <1>3, <2>2, <2>3, <2>4, <2>5 DEF FieldInv
<1>12. QueueInv'
  <2>1. LET q == RemoveAt(queue, k)
            left == entered \cup {queue[k]} IN
           /\ q \in Seq(Bench)
           /\ {q[i] : i \in DOMAIN q} = Bench \ left
           /\ \A i, l \in DOMAIN q : i < l =>
                \E m, j \in DOMAIN order : m < j /\ order[m] = q[i] /\ order[j] = q[l]
    BY <1>2, <1>7, QueueStep
  <2> DEFINE q == RemoveAt(queue, k)
  <2>2. /\ q \in Seq(Bench)
        /\ {q[i] : i \in DOMAIN q} = Bench \ entered'
        /\ \A i, l \in DOMAIN q : i < l =>
             \E m, j \in DOMAIN order : m < j /\ order[m] = q[i] /\ order[j] = q[l]
    BY <1>1, <2>1 DEF c
  <2>3. queue' = q
    BY <1>1
  <2> HIDE DEF q
  <2> QED
    BY <1>1, <1>3, <2>2, <2>3 DEF QueueInv
<1>13. PriorityInv'
  <2> SUFFICES ASSUME NEW i \in DOMAIN order, NEW j \in DOMAIN order, i < j,
                      order[i] \in featured \ entered', order[j] \in entered'
               PROVE  ~IsLegalXI(Swap(live \cup {c}, order[j], order[i]))
    BY <1>1, <1>8 DEF PriorityInv
  <2> DEFINE a == order[i]
             e == order[j]
  <2>1. /\ DOMAIN order = 1..Cardinality(Bench) /\ Cardinality(Bench) \in Nat
        /\ {order[m] : m \in DOMAIN order} = Bench
        /\ \A m, l \in DOMAIN order : order[m] = order[l] => m = l
    BY <1>2, <1>7, OrderingParts, FS_CardinalityType
  <2>2. a \in Bench \ entered /\ a \in featured /\ a # c /\ a \in Squad \ Named /\ PositionOf[a] # GK
    <3>1. a \in Bench
      BY <2>1
    <3>2. a \in featured /\ a \notin entered /\ a # c
      BY <1>1
    <3> HIDE DEF a
    <3> QED
      BY <1>4, <3>1, <3>2
  <2>3. PICK n \in DOMAIN queue : queue[n] = a
    BY <1>2, <2>2 DEF QueueInv
  <2>4. PICK m \in DOMAIN order : order[m] = c
    BY <1>5, <2>1
  (* Who is ahead of c in the order is ahead of him in the queue. *)
  <2>5. ASSUME i < m PROVE ~IsLegalXI(Swap(Named, vacant, a))
    <3>1. DOMAIN queue = 1..Len(queue) /\ Len(queue) \in Nat
      BY <1>2 DEF QueueInv
    <3>2. n # k
      BY <2>2, <2>3 DEF c
    <3>3. ~(k < n)
      <4> SUFFICES ASSUME k < n PROVE FALSE
        OBVIOUS
      <4>1. PICK r, s \in DOMAIN order : r < s /\ order[r] = queue[k] /\ order[s] = queue[n]
        BY <1>2 DEF QueueInv
      <4>2. r = m /\ s = i
        BY <2>1, <2>3, <2>4, <4>1 DEF c
      <4> HIDE DEF a, e
      <4> QED
        BY <2>1, <2>5, <4>1, <4>2
    <3>4. n \in 1..(k - 1)
      BY <3>1, <3>2, <3>3
    <3>5. ~Qualifies(a)
      BY <1>1, <2>3, <3>4
    <3>6. ~IsLegalXI(live \cup {a})
      BY <2>2, <3>5 DEF Qualifies
    <3> QED
      BY <1>4, <1>6, <2>2, <3>6
  <2>6. CASE e = c
    <3>1. i < m
      BY <2>1, <2>4, <2>6
    <3>2. Swap(live \cup {c}, c, a) = Swap(Named, vacant, a)
      <4>1. c \notin live
        BY <1>6
      <4> HIDE DEF a
      <4> QED
        BY <1>4, <1>6, <4>1 DEF Swap
    <3> QED
      BY <2>5, <2>6, <3>1, <3>2
  <2>7. CASE e # c
    <3>1. e \in entered
      BY <1>1, <2>7
    <3>2. e \in Named /\ e # vacant
      <4>1. e \in live
        BY <1>2, <3>1 DEF FieldInv, Outfield
      <4> QED
        BY <1>4, <1>6, <4>1
    <3>3. ~IsLegalXI(Swap(Named, e, a))
      BY <1>2, <2>2, <3>1 DEF PriorityInv
    <3>4. PositionOf[c] = PositionOf[e] => PositionOf[vacant] = PositionOf[e]
      <4> SUFFICES ASSUME PositionOf[c] = PositionOf[e], PositionOf[vacant] # PositionOf[e] PROVE FALSE
        OBVIOUS
      <4>1. IsLegalXI(Swap(Named, e, c))
        <5> HIDE DEF e
        <5> QED
          BY <1>2, <1>6, <3>2, SwapLegal
      <4>2. ~(m < j)
        BY <1>2, <1>5, <2>4, <3>1, <4>1 DEF PriorityInv
      <4>3. i < m
        <5>1. m \in Int /\ i \in Int /\ j \in Int
          BY <2>1
        <5> HIDE DEF a, e
        <5> QED
          BY <4>2, <5>1
      <4>4. ~IsLegalXI(Swap(Named, vacant, a)) /\ IsLegalXI(Swap(Named, vacant, c))
        BY <1>5, <1>6, <2>5, <4>3
      <4>5. Cardinality(At(Named, PositionOf[vacant])) > XiMin[PositionOf[vacant]]
        <5> HIDE DEF e
        <5> QED
          BY <1>2, <1>4, <1>6, <4>4, SwapLegal
      <4>6. ~(Cardinality(At(Named, PositionOf[vacant])) > XiMin[PositionOf[vacant]])
        <5> HIDE DEF a
        <5> QED
          BY <1>2, <1>4, <2>2, <4>4, SwapLegal
      <4> QED
        BY <4>5, <4>6
    <3>5. IsLegalXI(Swap(Named, vacant, c))
      BY <1>5, <1>6
    <3> HIDE DEF a, e
    <3>6. ~IsLegalXI(Swap(Swap(Named, vacant, c), e, a))
      BY <1>2, <1>4, <1>6, <2>2, <3>2, <3>3, <3>4, <3>5, PriorityKept
    <3> QED
      BY <1>6, <3>6 DEF a, e
  <2> QED
    BY <2>6, <2>7
<1>14. StuckInv'
  BY <1>1, <1>6 DEF StuckInv
<1>15. FillInv'
  BY <1>1 DEF FillInv
<1> QED
  BY <1>1, <1>2, <1>3, <1>9, <1>10, <1>11, <1>12, <1>13, <1>14, <1>15 DEF ReplayInv

LEMMA ScoreStep ==
  ASSUME DataTyped, SelectionInv, StagesTyped, ReplayInv, stage = "replay", Score
  PROVE  ReplayInv'
<1>1. /\ pc = "next" /\ pc' = "scored" /\ vacancies = {}
      /\ UNCHANGED <<xi, featured, order, live, queue, vacancies, vacant, unfilled, entered>>
  BY DEF Score, week
<1>2. /\ Named \in SUBSET Squad /\ IsLegalXI(Named)
      /\ KeeperInv /\ FieldInv /\ QueueInv /\ PriorityInv /\ StuckInv
      /\ order \in Orderings
  BY <1>1, SettledParts
<1>3. /\ Starters' = Starters /\ Blanks' = Blanks /\ First' = First /\ Reserve' = Reserve
      /\ Bench' = Bench /\ Orderings' = Orderings
  BY <1>1, SameWeek
<1>4. Named' = Named /\ Waiting' = Waiting
  BY <1>1 DEF Named, Waiting
<1>5. KeeperInv'
  BY <1>1, <1>2, <1>3 DEF KeeperInv
<1>6. FieldInv'
  BY <1>1, <1>2, <1>3, <1>4 DEF FieldInv
<1>7. QueueInv'
  BY <1>1, <1>2, <1>3 DEF QueueInv
<1>8. PriorityInv' /\ StuckInv' /\ FillInv'
  BY <1>1, <1>2, <1>3, <1>4 DEF PriorityInv, StuckInv, FillInv
<1> QED
  BY <1>1, <1>2, <1>3, <1>4, <1>5, <1>6, <1>7, <1>8 DEF ReplayInv

(* Only orderings of the bench are replayed. *)
ReplaysInv ==
  /\ stage = "select" => DOMAIN replays = {}
  /\ stage # "select" => DOMAIN replays \subseteq Orderings

LEMMA StartStep ==
  ASSUME StagesTyped, ReplaysInv, StartReplay
  PROVE  ReplayInv'
<1>1. /\ UNCHANGED <<xi, featured>> /\ DOMAIN replays # Orderings
      /\ order' = (CHOOSE o \in Orderings : o \notin DOMAIN replays)
      /\ queue' = order' /\ live' = xi /\ vacancies' = Outfield(xi) \ featured
      /\ vacant' = Nobody /\ unfilled' = {} /\ entered' = {}
      /\ pc' = "keeper" /\ stage' = "replay"
  BY DEF StartReplay, selection
<1>2. DOMAIN replays \subseteq Orderings
  BY DEF ReplaysInv
<1>3. order' \in Orderings
  BY <1>1, <1>2
<1>4. Orderings' = Orderings /\ Blanks' = Blanks
  BY <1>1, SameWeek
<1> QED
  BY <1>1, <1>3, <1>4 DEF ReplayInv, Blanks

LEMMA ReplaysStep == StagesTyped /\ ReplaysInv /\ ReplayInv /\ [Next]_vars => ReplaysInv'
<1> SUFFICES ASSUME StagesTyped, ReplaysInv, ReplayInv, [Next]_vars PROVE ReplaysInv'
  OBVIOUS
<1>1. ASSUME UNCHANGED <<xi, replays>>, (stage' = "select") = (stage = "select") PROVE ReplaysInv'
  <2>1. Orderings' = Orderings
    BY <1>1 DEF Orderings, Bench
  <2> QED
    BY <1>1, <2>1 DEF ReplaysInv
<1>2. CASE RankStep
  BY <1>2 DEF RankStep, ReplaysInv
<1>3. CASE SelectStep
  BY <1>3 DEF SelectStep, ReplaysInv
<1>4. CASE StartReplay
  <2>1. Orderings' = Orderings /\ replays' = replays /\ stage' = "replay"
    BY <1>4 DEF StartReplay, selection, Orderings, Bench
  <2> QED
    BY <2>1 DEF ReplaysInv
<1>5. CASE ReplayStep
  BY <1>1, <1>5 DEF ReplayStep, KeeperStays, KeeperReplaced, KeeperUncovered, Vacate, Enter, NobodyEnters, week
<1>6. CASE ScoreReplay
  <2>1. Orderings' = Orderings /\ stage = "replay" /\ stage' = "replay" /\ DOMAIN replays' = DOMAIN replays \cup {order}
    BY <1>6 DEF ScoreReplay, Score, week, Orderings, Bench
  <2>2. order \in Orderings
    BY <2>1 DEF ReplayInv
  <2> QED
    BY <2>1, <2>2 DEF ReplaysInv
<1>7. ASSUME NEW a, NEW o, Compare(a, o) PROVE ReplaysInv'
  <2>1. stage = "replay" /\ stage' # "select" /\ UNCHANGED <<xi, replays>>
    BY <1>7 DEF Compare
  <2> QED
    BY <1>1, <2>1
<1>8. CASE UNCHANGED vars
  BY <1>1, <1>8 DEF vars, selection
<1> QED
  BY <1>2, <1>3, <1>4, <1>5, <1>6, <1>7, <1>8 DEF Next

LEMMA ReplayInvStep ==
  DataTyped /\ StagesTyped /\ SelectionInv /\ ReplaysInv /\ ReplayInv /\ [Next]_vars => ReplayInv'
<1> SUFFICES ASSUME DataTyped, StagesTyped, SelectionInv, ReplaysInv, ReplayInv, [Next]_vars PROVE ReplayInv'
  OBVIOUS
<1>1. ASSUME stage' # "replay" PROVE ReplayInv'
  BY <1>1 DEF ReplayInv
<1>2. CASE RankStep
  BY <1>1, <1>2 DEF RankStep
<1>3. CASE SelectStep
  BY <1>1, <1>3 DEF SelectStep
<1>4. CASE StartReplay
  BY <1>4, StartStep
<1>5. CASE ReplayStep
  BY <1>5, KeeperStep, VacateStep, EnterStep, NobodyStep DEF ReplayStep
<1>6. CASE ScoreReplay
  BY <1>6, ScoreStep DEF ScoreReplay
<1>7. ASSUME NEW a, NEW o, Compare(a, o) PROVE ReplayInv'
  <2>1. stage' # "replay"
    BY <1>7 DEF Compare
  <2> QED
    BY <1>1, <2>1
<1>8. CASE UNCHANGED vars
  <2>1. UNCHANGED <<xi, featured, order, live, queue, vacancies, vacant, unfilled, entered, pc, stage>>
    BY <1>8 DEF vars, selection, replay
  <2>2. /\ Starters' = Starters /\ Blanks' = Blanks /\ First' = First /\ Reserve' = Reserve
        /\ Bench' = Bench /\ Orderings' = Orderings
    BY <2>1, SameWeek
  <2>3. Named' = Named /\ Waiting' = Waiting
    BY <2>1 DEF Named, Waiting
  <2>4. (KeeperInv' <=> KeeperInv) /\ (FieldInv' <=> FieldInv) /\ (QueueInv' <=> QueueInv)
    BY <2>1, <2>2, <2>3 DEF KeeperInv, FieldInv, QueueInv
  <2>5. (PriorityInv' <=> PriorityInv) /\ (StuckInv' <=> StuckInv) /\ (FillInv' <=> FillInv)
    BY <2>1, <2>2, <2>3 DEF PriorityInv, StuckInv, FillInv
  <2> QED
    BY <2>1, <2>2, <2>3, <2>4, <2>5 DEF ReplayInv
<1> QED
  BY <1>2, <1>3, <1>4, <1>5, <1>6, <1>7, <1>8 DEF Next

LEMMA ReplayInvariant == Spec => [](ReplaysInv /\ ReplayInv)
<1>1. Init => ReplaysInv /\ ReplayInv
  BY DEF Init, ReplaysInv, ReplayInv
<1> QED
  BY <1>1, ReplaysStep, ReplayInvStep, WeekIsTyped, SelectionInvariant, PTL DEF Spec

(* Between two vacancies the side is a legal XI, its unfilled places still  *)
(* named to their starters, under every ordering of the bench               *)
(* (harness.py:356-358, formations.py:14-16).                               *)
THEOREM SubstitutionsStayLegal == Spec => []SideStaysLegal
<1>1. DataTyped /\ StagesTyped /\ SelectionInv /\ ReplayInv => SideStaysLegal
  <2> SUFFICES ASSUME DataTyped, StagesTyped, SelectionInv, ReplayInv, stage = "replay", pc # "fill"
               PROVE  IsLegalXI(live \cup unfilled) /\ live \cap unfilled \subseteq {Keeper(xi)}
    BY DEF SideStaysLegal
  <2>1. CASE pc = "keeper"
    <3>1. live = xi /\ unfilled = {}
      BY <2>1 DEF ReplayInv
    <3>2. IsLegalXI(xi)
      BY <2>1, XiParts
    <3> QED
      BY <3>1, <3>2
  <2>2. CASE pc # "keeper"
    <3>1. /\ IsLegalXI(Named) /\ KeeperInv /\ FieldInv
          /\ Outfield(live) \cap Outfield(unfilled) = {}
      BY <2>2, SettledParts
    <3>2. Named = live \cup unfilled
      BY <3>1 DEF Named, FieldInv
    <3>3. live \cap unfilled \subseteq At(unfilled, GK)
      BY <3>1 DEF Outfield, At
    <3> QED
      BY <3>1, <3>2, <3>3 DEF KeeperInv, First
  <2> QED
    BY <2>1, <2>2
<1> QED
  BY <1>1, WeekIsTyped, SelectionInvariant, ReplayInvariant, PTL

(* Bench priority is kept in every replay: whoever was passed over could    *)
(* not take the place of one who came on from behind him                    *)
(* (harness.py:362-363).                                                    *)
THEOREM PriorityIsKept == Spec => []PriorityRespected
<1>1. DataTyped /\ StagesTyped /\ SelectionInv /\ ReplayInv => PriorityRespected
  <2> SUFFICES ASSUME DataTyped, StagesTyped, SelectionInv, ReplayInv, stage = "replay", pc = "scored",
                      NEW i \in DOMAIN order, NEW j \in DOMAIN order,
                      i < j, order[i] \in featured \ entered, order[j] \in entered
               PROVE  ~IsLegalXI(((live \cup unfilled) \ {order[j]}) \cup {order[i]})
    BY DEF PriorityRespected
  <2>1. FieldInv /\ PriorityInv
    BY SettledParts
  <2>2. Named = live \cup unfilled
    BY <2>1 DEF Named, FieldInv
  <2> QED
    BY <2>1, <2>2 DEF PriorityInv, Swap
<1> QED
  BY <1>1, WeekIsTyped, SelectionInvariant, ReplayInvariant, PTL

LEMMA ThreeParts ==
  ASSUME NEW A \in SUBSET Squad, NEW B \in SUBSET Squad, NEW C \in SUBSET Squad,
         A \cap B = {}, A \cap C = {}, B \cap C = {}
  PROVE  /\ Cardinality(A \cup B \cup C) = Cardinality(A) + Cardinality(B) + Cardinality(C)
         /\ Cardinality(A) \in Nat /\ Cardinality(B) \in Nat /\ Cardinality(C) \in Nat
<1> DEFINE S == A \cup B \cup C
           D == B \cup C
<1>1. S \in SUBSET Squad /\ D \in SUBSET Squad
  OBVIOUS
<1>2. S \cap A = A /\ S \ A = D /\ D \cap B = B /\ D \ B = C
  OBVIOUS
<1> HIDE DEF S, D
<1>3. /\ Cardinality(S) = Cardinality(A) + Cardinality(D)
      /\ Cardinality(A) \in Nat
  BY <1>1, <1>2, CardinalitySplits
<1>4. /\ Cardinality(D) = Cardinality(B) + Cardinality(C)
      /\ Cardinality(B) \in Nat /\ Cardinality(C) \in Nat
  BY <1>1, <1>2, CardinalitySplits
<1>5. Cardinality(S) = Cardinality(A) + Cardinality(B) + Cardinality(C)
  BY <1>3, <1>4
<1> QED
  BY <1>3, <1>4, <1>5 DEF S

(* A legal side has a goalkeeper and everybody else in the field. *)
LEMMA FieldSize ==
  ASSUME NEW S \in SUBSET Squad, IsLegalXI(S)
  PROVE  Cardinality(Outfield(S)) = XiSize - 1
<1>1. Cardinality(S) = XiSize /\ InBounds(S)
  BY LegalMeans
<1>2. GK \in Positions /\ XiMin[GK] = 1 /\ XiMax[GK] = 1
  BY WeekAssumption
<1>3. Cardinality(At(S, GK)) \in Nat /\ 1 <= Cardinality(At(S, GK)) /\ Cardinality(At(S, GK)) <= 1
  BY <1>1, <1>2, AtParts DEF InBounds
<1>4. S \cap At(Squad, GK) = At(S, GK) /\ S \ At(Squad, GK) = Outfield(S)
  BY DEF At, Outfield
<1>5. Cardinality(S) = Cardinality(At(S, GK)) + Cardinality(Outfield(S)) /\ Cardinality(Outfield(S)) \in Nat
  BY <1>4, CardinalitySplits
<1> QED
  BY <1>1, <1>3, <1>5, SquadParts

(* As many blanks are covered as any legal XI with the same starters        *)
(* covers: with a place left unfilled, either everybody who played has come *)
(* on, or the position all unfilled places are of would be below its        *)
(* minimum (harness.py:403-409).                                            *)
THEOREM NoSubstituteIsWasted == Spec => []CoversAllItCan
<1>1. DataTyped /\ StagesTyped /\ SelectionInv /\ ReplayInv => CoversAllItCan
  <2> DEFINE L(subs, blanks) == {Keeper(xi)} \cup (xi \cap featured) \cup subs \cup blanks
  <2> SUFFICES ASSUME DataTyped, StagesTyped, SelectionInv, ReplayInv, stage = "replay", pc = "scored",
                      NEW subs \in SUBSET (ToSet(order) \cap featured),
                      Cardinality(subs) > Cardinality(entered),
                      NEW blanks \in SUBSET Outfield(xi \ featured),
                      IsLegalXI(L(subs, blanks))
               PROVE  FALSE
    BY DEF CoversAllItCan
  <2>1. /\ Named \in SUBSET Squad /\ IsLegalXI(Named) /\ FieldInv /\ StuckInv /\ order \in Orderings
        /\ live \in SUBSET Squad /\ Waiting \in SUBSET Squad
    BY SettledParts
  <2>2. /\ xi \in SUBSET Squad /\ First \in xi /\ PositionOf[First] = GK
        /\ Bench \in SUBSET Squad /\ IsFiniteSet(Bench)
    BY XiParts
  <2>3. vacancies = {} /\ vacant = Nobody
    BY <2>1 DEF ReplayInv, FieldInv
  <2> DEFINE W == Waiting
             T == L(subs, blanks)
  <2>4. W = Outfield(unfilled) /\ W \subseteq Blanks
    BY <2>1, <2>3 DEF Waiting, FieldInv
  <2>5. Outfield(Named) = Starters \cup entered \cup W
    <3>1. Named = live \cup unfilled
      BY <2>3 DEF Named
    <3>2. Outfield(Named) = Outfield(live) \cup Outfield(unfilled)
      BY <3>1 DEF Outfield
    <3> HIDE DEF W
    <3> QED
      BY <2>1, <2>3, <2>4, <3>2 DEF FieldInv
  <2>6. subs \subseteq Bench \cap featured
    <3>1. ToSet(order) = Bench
      BY <2>1, <2>2, OrderingParts DEF ToSet
    <3> QED
      BY <3>1
  <2>7. T \in SUBSET Squad /\ Outfield(T) = Starters \cup subs \cup blanks /\ blanks \subseteq Blanks
    <3>1. T = {First} \cup (xi \cap featured) \cup subs \cup blanks
      BY DEF First
    <3>2. blanks \subseteq Blanks /\ Blanks \subseteq xi
      BY DEF Outfield, Blanks
    <3>3. subs \subseteq Squad /\ \A x \in subs : PositionOf[x] # GK
      BY <2>6 DEF Bench, Outfield
    <3>4. Outfield(T) = Starters \cup subs \cup blanks
      BY <2>2, <3>1, <3>2, <3>3 DEF Outfield, Starters, Blanks
    <3> QED
      BY <2>2, <3>1, <3>2, <3>3, <3>4
  <2> HIDE DEF L, T, W
  <2>8. /\ Starters \in SUBSET Squad /\ entered \in SUBSET Squad /\ W \in SUBSET Squad
        /\ subs \in SUBSET Squad /\ blanks \in SUBSET Squad
        /\ Starters \cap entered = {} /\ Starters \cap W = {} /\ entered \cap W = {}
        /\ Starters \cap subs = {} /\ Starters \cap blanks = {} /\ subs \cap blanks = {}
    BY <2>1, <2>2, <2>4, <2>6, <2>7 DEF FieldInv, Starters, Blanks, Bench, Outfield, W
  <2>9. Cardinality(Starters \cup entered \cup W) = Cardinality(Starters \cup subs \cup blanks)
    <3>1. Cardinality(Outfield(Named)) = XiSize - 1 /\ Cardinality(Outfield(T)) = XiSize - 1
      BY <2>1, <2>7, FieldSize DEF T
    <3> QED
      BY <2>5, <2>7, <3>1
  <2>10. /\ Cardinality(blanks) < Cardinality(W)
         /\ Cardinality(blanks) \in Nat /\ Cardinality(W) \in Nat
         /\ Cardinality(subs) \in Nat /\ Cardinality(entered) \in Nat
    <3>1. /\ Cardinality(Starters \cup entered \cup W)
               = Cardinality(Starters) + Cardinality(entered) + Cardinality(W)
          /\ Cardinality(Starters) \in Nat /\ Cardinality(entered) \in Nat /\ Cardinality(W) \in Nat
      BY <2>8, ThreeParts
    <3>2. /\ Cardinality(Starters \cup subs \cup blanks)
               = Cardinality(Starters) + Cardinality(subs) + Cardinality(blanks)
          /\ Cardinality(subs) \in Nat /\ Cardinality(blanks) \in Nat
      <4>1. Starters \in SUBSET Squad /\ subs \in SUBSET Squad /\ blanks \in SUBSET Squad
        BY <2>8
      <4>2. Starters \cap subs = {} /\ Starters \cap blanks = {} /\ subs \cap blanks = {}
        BY <2>8
      <4> QED
        BY <4>1, <4>2, ThreeParts
    <3>3. Cardinality(subs) > Cardinality(entered)
      OBVIOUS
    <3> DEFINE b == Cardinality(entered)
               d == Cardinality(subs)
               e == Cardinality(blanks)
    <3>4. Cardinality(Starters) + b + Cardinality(W) = Cardinality(Starters) + d + e
      BY <2>9, <3>1, <3>2
    <3>5. b \in Nat /\ d \in Nat /\ e \in Nat /\ d > b
      BY <3>1, <3>2, <3>3
    <3> HIDE DEF b, d, e
    <3>6. e < Cardinality(W)
      BY <3>1, <3>4, <3>5
    <3> QED
      BY <3>1, <3>5, <3>6 DEF b, d, e
  <2>11. Outfield(unfilled) # {}
    <3> SUFFICES ASSUME W = {} PROVE FALSE
      BY <2>4
    <3>1. Cardinality(W) = 0
      BY FS_EmptySet
    <3> QED
      BY <2>10, <3>1
  <2>12. ~(Bench \cap featured \subseteq entered)
    <3> SUFFICES ASSUME Bench \cap featured \subseteq entered PROVE FALSE
      OBVIOUS
    <3>1. subs \in SUBSET entered /\ IsFiniteSet(entered)
      BY <2>6, <2>8, AtParts
    <3>2. Cardinality(subs) <= Cardinality(entered)
      BY <3>1, FS_Subset
    <3> QED
      BY <2>10, <3>2
  <2>13. PICK p \in Positions \ {GK} :
           /\ Cardinality(At(Named, p)) = XiMin[p]
           /\ At(Bench \cap featured, p) \subseteq entered
           /\ W \subseteq At(Squad, p)
    BY <2>1, <2>11, <2>12 DEF StuckInv, W
  <2>14. At(Named, p) = At(Starters, p) \cup At(entered, p) \cup W
    <3>1. At(Named, p) = At(Outfield(Named), p)
      BY DEF At, Outfield
    <3>2. W = At(W, p)
      BY <2>13 DEF At
    <3> QED
      BY <2>5, <3>1, <3>2 DEF At
  <2>15. At(T, p) = At(Starters, p) \cup At(subs, p) \cup At(blanks, p)
    <3>1. At(T, p) = At(Outfield(T), p)
      BY DEF At, Outfield
    <3> QED
      BY <2>7, <3>1 DEF At
  <2>16. At(subs, p) \in SUBSET At(entered, p) /\ At(blanks, p) \in SUBSET blanks
    BY <2>6, <2>13 DEF At
  <2> DEFINE A == At(Starters, p)
             B == At(entered, p)
             D == At(subs, p)
             E == At(blanks, p)
  <2>22. /\ A \in SUBSET Squad /\ B \in SUBSET Squad /\ D \in SUBSET Squad /\ E \in SUBSET Squad
         /\ A \cap B = {} /\ A \cap W = {} /\ B \cap W = {}
         /\ A \cap D = {} /\ A \cap E = {} /\ D \cap E = {}
    BY <2>8 DEF At
  <2> HIDE DEF A, B, D, E
  <2>17. /\ Cardinality(A \cup B \cup W) = Cardinality(A) + Cardinality(B) + Cardinality(W)
         /\ Cardinality(A) \in Nat /\ Cardinality(B) \in Nat /\ Cardinality(W) \in Nat
    BY <2>8, <2>22, ThreeParts
  <2>18. /\ Cardinality(A \cup D \cup E) = Cardinality(A) + Cardinality(D) + Cardinality(E)
         /\ Cardinality(D) \in Nat /\ Cardinality(E) \in Nat
    <3>1. A \in SUBSET Squad /\ D \in SUBSET Squad /\ E \in SUBSET Squad
      BY <2>22
    <3>2. A \cap D = {} /\ A \cap E = {} /\ D \cap E = {}
      BY <2>22
    <3>3. /\ Cardinality(A \cup D \cup E) = Cardinality(A) + Cardinality(D) + Cardinality(E)
          /\ Cardinality(A) \in Nat /\ Cardinality(D) \in Nat /\ Cardinality(E) \in Nat
      BY <3>1, <3>2, ThreeParts
    <3> QED
      BY <3>3
  <2>19. Cardinality(D) <= Cardinality(B) /\ Cardinality(E) <= Cardinality(blanks)
    <3>1. IsFiniteSet(B) /\ IsFiniteSet(blanks)
      BY <2>8, <2>22, AtParts
    <3>2. D \in SUBSET B /\ E \in SUBSET blanks
      BY <2>16 DEF B, D, E
    <3> QED
      BY <3>1, <3>2, FS_Subset
  <2>20. XiMin[p] <= Cardinality(At(T, p))
    BY <2>7, <2>13, LegalMeans DEF InBounds, T
  <2>21. Cardinality(A \cup B \cup W) <= Cardinality(A \cup D \cup E)
    BY <2>13, <2>14, <2>15, <2>20 DEF A, B, D, E
  <2> QED
    BY <2>10, <2>17, <2>18, <2>19, <2>21
<1> QED
  BY <1>1, WeekIsTyped, SelectionInvariant, ReplayInvariant, PTL

(* The points of whoever may stand for a replay.  A side was fielded when   *)
(* it has every starter who featured and is short of a legal XI by players  *)
(* without minutes only.                                                    *)
Fielded(L) ==
  /\ L \in SUBSET Squad
  /\ xi \cap featured \subseteq L
  /\ \E U \in SUBSET (Squad \ featured) : IsLegalXI(L \cup U)

LEMMA SettledIsFielded ==
  ASSUME DataTyped, SelectionInv, StagesTyped, ReplayInv, stage = "replay", pc \in {"next", "scored"},
         vacancies = {}
  PROVE  Fielded(live)
<1>1. /\ Named \in SUBSET Squad /\ IsLegalXI(Named)
      /\ KeeperInv /\ FieldInv
      /\ live \in SUBSET Squad /\ unfilled \in SUBSET Squad
      /\ At(unfilled, GK) \subseteq live
  BY SettledParts
<1>2. /\ xi \in SUBSET Squad /\ First \in xi /\ PositionOf[First] = GK /\ At(xi, GK) = {First}
  BY XiParts
<1>3. vacant = Nobody
  BY <1>1 DEF FieldInv
<1>4. Named = live \cup (unfilled \ live)
  BY <1>3 DEF Named
<1>5. unfilled \ live \in SUBSET (Squad \ featured)
  <2>1. Outfield(unfilled) \subseteq Blanks
    BY <1>1 DEF FieldInv, Waiting
  <2>2. \A x \in unfilled \ live : x \in Outfield(unfilled)
    BY <1>1 DEF At, Outfield
  <2> QED
    BY <1>1, <2>1, <2>2 DEF Blanks
<1>6. ASSUME NEW x \in xi \cap featured PROVE x \in live
  <2>1. CASE PositionOf[x] = GK
    <3>1. x = First
      BY <1>2, <2>1 DEF At
    <3>2. At(live, GK) = {First}
      BY <1>1, <1>6, <3>1 DEF KeeperInv
    <3> QED
      BY <3>1, <3>2 DEF At
  <2>2. CASE PositionOf[x] # GK
    <3>1. x \in Outfield(live)
      BY <1>1, <2>2 DEF FieldInv, Starters, Outfield
    <3> QED
      BY <3>1 DEF Outfield
  <2> QED
    BY <2>1, <2>2
<1> QED
  BY <1>1, <1>4, <1>5, <1>6 DEF Fielded

(* No fielded side totals more than the best in hindsight, unless somebody  *)
(* without minutes lost points.                                             *)
LEMMA FieldedIsNoBetter ==
  ASSUME DataTyped, \A x \in Squad \ featured : points[x] >= 0, NEW L, Fielded(L)
  PROVE  /\ Total(L, points) \in Int /\ Hindsight(points).total \in Int
         /\ Total(L, points) <= Hindsight(points).total
<1>1. PICK U \in SUBSET (Squad \ featured) : IsLegalXI(L \cup U)
  BY DEF Fielded
<1> DEFINE S == L \cup U
<1>2. L \in SUBSET Squad /\ S \in SUBSET Squad /\ L \in SUBSET S
  BY DEF Fielded
<1>3. \A x \in S \ L : points[x] >= 0
  OBVIOUS
<1>4. IsLegalXI(S)
  BY <1>1
<1>5. Values(points)
  BY DEF DataTyped
<1> HIDE DEF S
<1>6. Total(L, points) \in Int /\ Total(S, points) \in Int
  BY <1>2, <1>5, TotalParts
<1>7. Total(L, points) <= Total(S, points)
  BY <1>2, <1>3, <1>5, TotalGrows
<1>8. Hindsight(points).total \in Int /\ Total(S, points) <= Hindsight(points).total
  BY <1>2, <1>4, <1>5, BestIsBest
<1> QED
  BY <1>6, <1>7, <1>8

(* Every finite set can be put in its order.                                *)
LEMMA OrderedSeq ==
  ASSUME NEW S, IsFiniteSet(S), NEW R, Orders(R, S)
  PROVE  \E o \in SetToSeqs(S) : \A i, j \in DOMAIN o : i < j => <<o[i], o[j]>> \in R
<1> DEFINE n == Cardinality(S)
           C(x) == Cardinality(InFrontOf(S, R, x))
           o == [i \in 1..n |-> CHOOSE x \in S : C(x) = i - 1]
<1>1. n \in Nat
  BY FS_CardinalityType
<1>2. \A x : C(x) \in Nat
  BY InFrontCounts
<1>3. ASSUME NEW i \in 1..n PROVE \E x \in S : C(x) = i - 1
  <2> DEFINE F == FirstIn(S, R, i)
             G == FirstIn(S, R, i - 1)
  <2>1. i \in 0..Cardinality(S) /\ i - 1 \in 0..Cardinality(S)
    BY <1>1
  <2>2. Cardinality(F) = i
    BY <2>1, FirstAreMany
  <2>3. Cardinality(G) = i - 1
    BY <2>1, FirstAreMany
  <2>4. PICK x \in F : x \notin G
    <3>1. IsFiniteSet(G) /\ F \in SUBSET S
      BY FS_Subset DEF FirstIn
    <3>2. SUFFICES ASSUME F \in SUBSET G PROVE FALSE
      OBVIOUS
    <3>3. Cardinality(F) <= Cardinality(G)
      BY <3>1, <3>2, FS_Subset
    <3> QED
      BY <2>2, <2>3, <3>3
  <2>5. x \in S /\ C(x) < i /\ ~(C(x) < i - 1)
    BY <2>4 DEF FirstIn
  <2>6. C(x) \in Nat
    BY <1>2
  <2> HIDE DEF C
  <2> QED
    BY <2>5, <2>6
<1> HIDE DEF n, C
<1>4. \A i \in 1..n : o[i] \in S /\ C(o[i]) = i - 1
  BY <1>3
<1>5. o \in [1..n -> S] /\ DOMAIN o = 1..n
  BY <1>4
<1> HIDE DEF o
<1>6. \A i, j \in 1..n : i # j => o[i] # o[j]
  BY <1>1, <1>4
<1>7. o \in SetToSeqs(S)
  BY <1>5, <1>6 DEF SetToSeqs, n
<1>8. ASSUME NEW i \in 1..n, NEW j \in 1..n, i < j PROVE <<o[i], o[j]>> \in R
  <2>1. o[i] \in S /\ o[j] \in S /\ C(o[i]) = i - 1 /\ C(o[j]) = j - 1
    BY <1>4
  <2>2. C(o[i]) < i /\ ~(C(o[j]) < i)
    BY <1>1, <1>8, <2>1
  <2>3. o[i] \in FirstIn(S, R, i) /\ o[j] \in S \ FirstIn(S, R, i)
    BY <2>1, <2>2 DEF FirstIn, C
  <2>4. i \in Int
    BY <1>1
  <2> QED
    BY <2>3, <2>4, FirstAreInFront
<1> QED
  BY <1>5, <1>7, <1>8

(* The two orderings the row is written for are among those replayed.       *)
WeightedOrder == {r \in Bench \X Bench : AheadWeighted(r[1], r[2])}

LEMMA PrimariesAreOrderings ==
  ASSUME DataTyped, SelectionInv, pc \notin {"rank", "select"}
  PROVE  ByRank \in Orderings /\ ByWeightedScore \in Orderings
<1>1. Bench \in SUBSET Squad /\ IsFiniteSet(Bench)
  BY XiParts
<1>2. ByRank \in Orderings
  <2>1. Ranking(rank)
    BY RanksParts DEF SelectionInv
  <2>2. Orders(RankOrder(rank), Bench)
    BY <1>1, <2>1, RankingOrders, OrdersPart
  <2>3. PICK o \in SetToSeqs(Bench) : \A i, j \in DOMAIN o : i < j => <<o[i], o[j]>> \in RankOrder(rank)
    BY <1>1, <2>2, OrderedSeq
  <2>4. o \in Orderings /\ \A i, j \in DOMAIN o : i < j => rank[o[i]] < rank[o[j]]
    BY <2>3 DEF RankOrder, Orderings
  <2> QED
    BY <2>4 DEF ByRank, Sorted
<1>3. Orders(WeightedOrder, Bench)
  <2> DEFINE W(z) == IF Tier(z) = 0 THEN score[z] * Weight[PositionOf[z]] ELSE 0
  <2>1. ASSUME NEW x \in Bench PROVE W(x) \in Int /\ Tier(x) \in Int /\ x \in Int
    <3>1. x \in Squad /\ PositionOf[x] \in Positions \ {GK}
      BY <1>1, <2>1, SquadParts DEF Bench, Outfield
    <3>2. Weight[PositionOf[x]] \in Int
      BY <3>1, WeekAssumption
    <3>3. Tier(x) = 0 => score[x] \in Int
      BY <3>1 DEF Tier, DataTyped
    <3>4. \A a, b \in Int : a * b \in Int
      OBVIOUS
    <3>5. W(x) \in Int
      BY <3>2, <3>3, <3>4
    <3>6. Tier(x) \in Int
      BY DEF Tier
    <3> QED
      BY <3>1, <3>5, <3>6, SquadParts
  <2>2. \A x, y \in Bench : <<x, y>> \in WeightedOrder <=>
          \/ Tier(x) < Tier(y)
          \/ Tier(x) = Tier(y) /\ (W(x) > W(y) \/ (W(x) = W(y) /\ x < y))
    BY DEF WeightedOrder, AheadWeighted
  <2> HIDE DEF W
  <2>3. \A x, y, z \in Bench :
          <<x, y>> \in WeightedOrder /\ <<y, z>> \in WeightedOrder => <<x, z>> \in WeightedOrder
    BY <2>1, <2>2
  <2>4. \A x \in Bench : <<x, x>> \notin WeightedOrder
    BY <2>1, <2>2
  <2>5. \A x, y \in Bench : x = y \/ <<x, y>> \in WeightedOrder \/ <<y, x>> \in WeightedOrder
    <3> TAKE x, y \in Bench
    <3>1. /\ Tier(x) \in Int /\ Tier(y) \in Int /\ W(x) \in Int /\ W(y) \in Int
          /\ x \in Int /\ y \in Int
      BY <2>1
    <3>2. \/ x = y
          \/ Tier(x) < Tier(y) \/ (Tier(x) = Tier(y) /\ (W(x) > W(y) \/ (W(x) = W(y) /\ x < y)))
          \/ Tier(y) < Tier(x) \/ (Tier(y) = Tier(x) /\ (W(y) > W(x) \/ (W(y) = W(x) /\ y < x)))
      BY <3>1
    <3> QED
      BY <2>2, <3>2
  <2> QED
    BY <2>3, <2>4, <2>5 DEF Orders
<1>4. ByWeightedScore \in Orderings
  <2>1. PICK o \in SetToSeqs(Bench) : \A i, j \in DOMAIN o : i < j => <<o[i], o[j]>> \in WeightedOrder
    BY <1>1, <1>3, OrderedSeq
  <2>2. o \in Orderings /\ \A i, j \in DOMAIN o : i < j => AheadWeighted(o[i], o[j])
    BY <2>1 DEF WeightedOrder, Orderings
  <2> QED
    BY <2>2 DEF ByWeightedScore, Sorted
<1> QED
  BY <1>2, <1>4

(* What the replays came to, and the row with them.                         *)
Shortfall(L) == Hindsight(points).total - Total(L, points)

RegretInv ==
  /\ stage = "replay" => IF pc = "scored" THEN regret = Shortfall(live) ELSE regret = 0
  /\ stage # "select" => \A o \in DOMAIN replays : \E L : Fielded(L) /\ replays[o].total = Total(L, points)
  /\ stage = "written" => \E L : Fielded(L) /\ row.regret = Shortfall(L)
  /\ stage = "raised" => \E L : Fielded(L) /\ Shortfall(L) < 0

LEMMA SameFielded == UNCHANGED <<xi, featured>> => \A L : Fielded(L)' <=> Fielded(L)
BY DEF Fielded

LEMMA RegretStep ==
  DataTyped /\ StagesTyped /\ SelectionInv /\ ReplaysInv /\ ReplayInv /\ RegretInv /\ [Next]_vars => RegretInv'
<1> SUFFICES ASSUME DataTyped, StagesTyped, SelectionInv, ReplaysInv, ReplayInv, RegretInv, [Next]_vars
             PROVE  RegretInv'
  OBVIOUS
<1>1. featured' = featured /\ points' = points
  BY DataStay DEF data
<1>2. Hindsight(points)' = Hindsight(points)
  BY <1>1
<1>3. ASSUME stage' = "select" PROVE RegretInv'
  BY <1>3 DEF RegretInv
<1>4. CASE RankStep
  BY <1>3, <1>4 DEF RankStep
<1>5. CASE SelectStep
  BY <1>3, <1>5 DEF SelectStep
<1>6. CASE StartReplay
  <2>1. /\ stage' = "replay" /\ pc' = "keeper" /\ regret' = 0
        /\ UNCHANGED <<xi, replays>>
    BY <1>6 DEF StartReplay, selection
  <2>2. \A L : Fielded(L)' <=> Fielded(L)
    BY <1>1, <2>1, SameFielded
  <2>3. \A o \in DOMAIN replays : \E L : Fielded(L) /\ replays[o].total = Total(L, points)
    BY DEF RegretInv, ReplaysInv
  <2> QED
    BY <1>1, <2>1, <2>2, <2>3 DEF RegretInv
<1>7. CASE ReplayStep
  <2>1. /\ stage = "replay" /\ stage' = "replay" /\ pc # "scored" /\ pc' # "scored"
        /\ UNCHANGED <<xi, replays, regret>>
    BY <1>7 DEF ReplayStep, KeeperStays, KeeperReplaced, KeeperUncovered, Vacate, Enter, NobodyEnters, week
  <2>2. \A L : Fielded(L)' <=> Fielded(L)
    BY <1>1, <2>1, SameFielded
  <2> QED
    BY <1>1, <2>1, <2>2 DEF RegretInv
<1>8. CASE ScoreReplay
  <2>1. /\ stage = "replay" /\ stage' = "replay" /\ pc = "next" /\ pc' = "scored" /\ vacancies = {}
        /\ regret' = BestLegalXI(points).best - Total(live, points)
        /\ UNCHANGED <<xi, live>>
        /\ DOMAIN replays' = DOMAIN replays \cup {order}
    BY <1>8 DEF ScoreReplay, Score, week
  <2>2. /\ replays'[order].total = Total(live, points)
        /\ \A o \in DOMAIN replays \ {order} : replays'[o] = replays[o]
    BY <1>8 DEF ScoreReplay
  <2>3. \A L : Fielded(L)' <=> Fielded(L)
    BY <1>1, <2>1, SameFielded
  <2>4. Fielded(live)
    BY <2>1, SettledIsFielded
  <2>5. BestLegalXI(points).best = Hindsight(points).total
    BY BestLegalXIParts
  <2>6. \A o \in DOMAIN replays' : \E L : Fielded(L) /\ replays'[o].total = Total(L, points)
    BY <2>1, <2>2, <2>4 DEF RegretInv
  <2>7. \A o \in DOMAIN replays' : \E L : Fielded(L)' /\ replays'[o].total = Total(L, points)'
    BY <1>1, <2>3, <2>6
  <2>8. regret' = Shortfall(live)'
    BY <1>1, <2>1, <2>5 DEF Shortfall
  <2> QED
    BY <2>1, <2>7, <2>8 DEF RegretInv
<1>9. ASSUME NEW a, NEW o \in Orderings, Compare(a, o) PROVE RegretInv'
  <2>1. /\ stage = "replay" /\ pc = "scored" /\ DOMAIN replays = Orderings
        /\ UNCHANGED <<xi, replays>>
        /\ stage' \in {"written", "raised"}
    BY <1>9 DEF Compare
  <2>2. \A L : Fielded(L)' <=> Fielded(L)
    BY <1>1, <2>1, SameFielded
  <2>3. PICK L : Fielded(L) /\ replays[o].total = Total(L, points)
    BY <1>9, <2>1 DEF RegretInv
  <2>4. BestLegalXI(points).best - replays[o].total = Shortfall(L)
    BY <2>3, BestLegalXIParts DEF Shortfall
  <2>5. /\ stage' = "raised" => Shortfall(L) < 0
        /\ stage' = "written" => row'.regret = Shortfall(L)
    BY <1>9, <2>4 DEF Compare
  <2>6. Shortfall(L)' = Shortfall(L) /\ Fielded(L)'
    BY <1>1, <2>2, <2>3 DEF Shortfall
  <2>7. \A k \in DOMAIN replays' : \E K : Fielded(K)' /\ replays'[k].total = Total(K, points)'
    BY <1>1, <2>1, <2>2 DEF RegretInv
  <2> QED
    BY <2>1, <2>5, <2>6, <2>7 DEF RegretInv
<1>10. CASE Compare("by_rank", ByRank) \/ Compare("by_weighted_score", ByWeightedScore)
  <2>1. pc = "scored"
    BY <1>10 DEF Compare
  <2>2. ByRank \in Orderings /\ ByWeightedScore \in Orderings
    BY <2>1, PrimariesAreOrderings
  <2> QED
    BY <1>9, <1>10, <2>2
<1>11. CASE UNCHANGED vars
  <2>1. UNCHANGED <<xi, replays, regret, row, stage, pc, live>>
    BY <1>11 DEF vars, selection, replay
  <2>2. \A L : Fielded(L)' <=> Fielded(L)
    BY <1>1, <2>1, SameFielded
  <2>3. \A L : Shortfall(L)' = Shortfall(L)
    BY <1>1 DEF Shortfall
  <2> QED
    BY <1>1, <2>1, <2>2, <2>3 DEF RegretInv, Shortfall
<1> QED
  BY <1>4, <1>5, <1>6, <1>7, <1>8, <1>10, <1>11 DEF Next

LEMMA RegretInvariant == Spec => []RegretInv
<1>1. Init => RegretInv
  BY DEF Init, RegretInv
<1> QED
  BY <1>1, RegretStep, WeekIsTyped, SelectionInvariant, ReplayInvariant, PTL DEF Spec

(* Regret is never negative, whichever ordering is the primary, and no week *)
(* raises, unless somebody without minutes lost points: a fielded side is   *)
(* short of a legal XI by players without minutes only                      *)
(* (harness.py:670-679).                                                    *)
THEOREM RegretIsNeverNegative == Spec => []RegretNonNegative
<1>1. DataTyped /\ StagesTyped /\ SelectionInv /\ ReplayInv /\ RegretInv => RegretNonNegative
  <2> SUFFICES ASSUME DataTyped, StagesTyped, SelectionInv, ReplayInv, RegretInv,
                      \A x \in Squad \ featured : points[x] >= 0
               PROVE  stage # "raised" /\ (stage = "replay" => regret >= 0)
    BY DEF RegretNonNegative
  <2>1. \A L : Fielded(L) => Shortfall(L) \in Int /\ Shortfall(L) >= 0
    BY FieldedIsNoBetter DEF Shortfall
  <2>2. stage # "raised"
    BY <2>1 DEF RegretInv
  <2>3. ASSUME stage = "replay", pc = "scored" PROVE regret >= 0
    <3>1. vacancies = {}
      BY <2>3 DEF ReplayInv
    <3>2. Fielded(live)
      BY <2>3, <3>1, SettledIsFielded
    <3> QED
      BY <2>1, <2>3, <3>2 DEF RegretInv
  <2>4. stage = "replay" /\ pc # "scored" => regret >= 0
    BY DEF RegretInv
  <2> QED
    BY <2>2, <2>3, <2>4
<1> QED
  BY <1>1, WeekIsTyped, SelectionInvariant, ReplayInvariant, RegretInvariant, PTL

(* A ranking in the order the points came out leaves no regret under any    *)
(* ordering of the bench, in a week in which nobody loses points: the XI is *)
(* best in hindsight, and whoever is left of it is worth as much            *)
(* (harness.py, run(); formations.py, best_legal_xi()).                     *)
THEOREM RightRankingIsBest == Spec => []RightRankingHasNoRegret
<1>1. DataTyped /\ StagesTyped /\ SelectionInv /\ RegretInv => RightRankingHasNoRegret
  <2> SUFFICES ASSUME DataTyped, StagesTyped, SelectionInv, RegretInv, stage = "written",
                      \A x, y \in Squad : points[x] > points[y] => rank[x] < rank[y],
                      \A x \in Squad : points[x] >= 0 /\ (x \notin featured => points[x] = 0)
               PROVE  row.regret = 0
    BY DEF RightRankingHasNoRegret
  <2>1. PICK L : Fielded(L) /\ row.regret = Shortfall(L)
    BY DEF RegretInv
  <2>2. pc = "done"
    BY DEF StagesTyped
  <2>3. Ranking(rank) /\ xi = ChosenBy(rank)
    BY <2>2, RanksParts DEF SelectionInv
  <2>4. Values(points) /\ (\A x \in Squad : points[x] \in Int)
    BY DEF DataTyped, Values
  <2>5. Worth(points, RankOrder(rank))
    <3>1. \A x, y \in Squad : <<x, y>> \in RankOrder(rank) => points[x] >= points[y]
      <4> SUFFICES ASSUME NEW x \in Squad, NEW y \in Squad, rank[x] < rank[y], ~(points[x] >= points[y])
                   PROVE  FALSE
        BY DEF RankOrder
      <4>1. points[y] > points[x]
        BY <2>4
      <4>2. rank[y] < rank[x]
        BY <4>1
      <4>3. rank[x] \in Int /\ rank[y] \in Int
        BY <2>3 DEF Ranking
      <4> QED
        BY <4>2, <4>3
    <3> QED
      BY <2>4, <3>1 DEF Worth
  <2>6. /\ xi \in SUBSET Squad /\ IsLegalXI(xi)
        /\ \A S \in SUBSET Squad : IsLegalXI(S) => Total(S, points) <= Total(xi, points)
    BY <2>3, <2>5, ChosenParts
  <2>7. /\ HindsightXI(points) \in SUBSET Squad /\ IsLegalXI(HindsightXI(points))
        /\ Hindsight(points).total = Total(HindsightXI(points), points)
    BY <2>4, BestIsBest
  <2>8. Hindsight(points).total <= Total(xi, points)
    BY <2>6, <2>7
  <2>9. Total(xi, points) = Total(xi \cap featured, points)
    <3>1. \A x \in xi \ featured : points[x] = 0
      BY <2>6
    <3> QED
      BY <2>4, <2>6, <3>1, TotalWithin
  <2>10. Total(xi \cap featured, points) <= Total(L, points)
    <3>1. L \in SUBSET Squad /\ xi \cap featured \in SUBSET L
      BY <2>1 DEF Fielded
    <3>2. \A x \in L \ (xi \cap featured) : points[x] >= 0
      BY <3>1
    <3> QED
      BY <2>4, <3>1, <3>2, TotalGrows
  <2>11. /\ Total(L, points) \in Int /\ Hindsight(points).total \in Int
         /\ Total(L, points) <= Hindsight(points).total
    BY <2>1, FieldedIsNoBetter
  <2>12. Total(xi, points) \in Int
    BY <2>4, <2>6, TotalParts
  <2>13. Hindsight(points).total = Total(L, points)
    BY <2>8, <2>9, <2>10, <2>11, <2>12
  <2> QED
    BY <2>1, <2>11, <2>13 DEF Shortfall
<1> QED
  BY <1>1, WeekIsTyped, SelectionInvariant, RegretInvariant, PTL
================================================================================
