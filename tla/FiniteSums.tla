------------------------------- MODULE FiniteSums -------------------------------
(***************************************************************************)
(* What the proofs need of the library's SumFunctionOnSet, Min and Max: a  *)
(* sum over a finite set is the same in whatever order it is taken, splits *)
(* over disjoint sets and follows a renaming; a finite set of integers     *)
(* has its least and its greatest, and a finite order its first.  The      *)
(* induction is by a smallest counterexample.                              *)
(***************************************************************************)
EXTENDS Integers, FiniteSetsExt, Functions, FiniteSetTheorems, WellFoundedInduction, TLAPS

(* Of any sets of elements of a finite set one holds no other: every argument  *)
(* about sums below looks at a smallest counterexample.                       *)
LEMMA SmallestSet ==
  ASSUME NEW S, IsFiniteSet(S), NEW B \in SUBSET SUBSET S, B # {}
  PROVE  \E T \in B : \A U \in B : U \subseteq T => U = T
<1>1. \A T \in B : IsFiniteSet(T)
  BY FS_Subset
<1>2. B \subseteq FiniteSubsetsOf(S)
  BY <1>1 DEF FiniteSubsetsOf
<1>3. PICK T \in B : \A U \in B : <<U, T>> \notin StrictSubsetOrdering(S)
  BY <1>2, FS_StrictSubsetOrderingWellFounded, WFMin
<1>4. \A U \in B : U \subseteq T => U = T
  BY <1>3 DEF StrictSubsetOrdering
<1> QED
  BY <1>4

(* SumFunctionOnSet folds one element at a time. *)
OneOf(s) == CHOOSE x \in s : TRUE

Folds(g, f, S) ==
  g = [s \in SUBSET S |-> IF s = {} THEN 0 ELSE f[OneOf(s)] + g[s \ {OneOf(s)}]]

LEMMA SumDef ==
  ASSUME NEW f, NEW S
  PROVE  SumFunctionOnSet(f, S) = (CHOOSE g : Folds(g, f, S))[S]
BY DEF SumFunctionOnSet, FoldFunctionOnSet, MapThenFoldSet, Folds, OneOf

(* The fold is determined on every subset, and it exists. *)
LEMMA FoldUnique ==
  ASSUME NEW f, NEW S, NEW T, IsFiniteSet(S), T \subseteq S,
         NEW g, NEW h, Folds(g, f, S), Folds(h, f, T)
  PROVE  \A s \in SUBSET T : g[s] = h[s]
<1> DEFINE B == {s \in SUBSET T : g[s] # h[s]}
<1> SUFFICES ASSUME B # {} PROVE FALSE
  OBVIOUS
<1>1. IsFiniteSet(T) /\ B \in SUBSET SUBSET T
  BY FS_Subset
<1>2. PICK s \in B : \A U \in B : U \subseteq s => U = s
  <2> HIDE DEF B
  <2> QED
    BY <1>1, SmallestSet
<1>3. s \in SUBSET T /\ s \in SUBSET S
  BY <1>2
<1>4. s # {}
  <2>1. {} \in SUBSET T /\ {} \in SUBSET S
    OBVIOUS
  <2>2. g[{}] = 0 /\ h[{}] = 0
    BY <2>1 DEF Folds
  <2> QED
    BY <1>2, <2>2
<1>5. OneOf(s) \in s
  BY <1>4 DEF OneOf
<1> DEFINE u == s \ {OneOf(s)}
<1>6. u \in SUBSET T /\ u \subseteq s /\ u # s
  BY <1>3, <1>5
<1>7. g[u] = h[u]
  BY <1>2, <1>6
<1>8. g[s] = f[OneOf(s)] + g[u]
  BY <1>3, <1>4 DEF Folds
<1>9. h[s] = f[OneOf(s)] + h[u]
  BY <1>3, <1>4 DEF Folds
<1> QED
  BY <1>2, <1>7, <1>8, <1>9

LEMMA FoldExists ==
  ASSUME NEW f, NEW S, IsFiniteSet(S)
  PROVE  \E g : Folds(g, f, S)
<1> DEFINE B == {T \in SUBSET S : ~\E g : Folds(g, f, T)}
<1> SUFFICES ASSUME B # {} PROVE FALSE
  OBVIOUS
<1>2. PICK T \in B : \A U \in B : U \subseteq T => U = T
  <2>1. B \in SUBSET SUBSET S
    OBVIOUS
  <2> HIDE DEF B
  <2> QED
    BY <2>1, SmallestSet
<1>3. IsFiniteSet(T)
  BY FS_Subset
<1> DEFINE G(U) == CHOOSE g : Folds(g, f, U)
           V(s) == G(s)[s]
           g == [s \in SUBSET T |-> IF s = {} THEN 0 ELSE f[OneOf(s)] + V(s \ {OneOf(s)})]
<1>4. ASSUME NEW U \in SUBSET T, U # T PROVE Folds(G(U), f, U)
  <2>1. \E h : Folds(h, f, U)
    BY <1>2, <1>4
  <2> QED
    BY <2>1
<1> HIDE DEF G
<1>5. ASSUME NEW s \in SUBSET T, s # T PROVE g[s] = V(s)
  <2>1. CASE s = {}
    <3>1. Folds(G({}), f, {})
      BY <1>4, <1>5, <2>1
    <3>2. {} \in SUBSET {}
      OBVIOUS
    <3>3. G({})[{}] = 0
      BY <3>1, <3>2 DEF Folds
    <3> QED
      BY <2>1, <3>3
  <2>2. CASE s # {}
    <3> DEFINE u == s \ {OneOf(s)}
    <3>1. OneOf(s) \in s
      BY <2>2 DEF OneOf
    <3>2. u \in SUBSET s /\ u \in SUBSET T /\ u # T
      BY <3>1
    <3>3. Folds(G(s), f, s) /\ Folds(G(u), f, u)
      BY <1>4, <1>5, <3>2
    <3>4. IsFiniteSet(s)
      BY <1>3, FS_Subset
    <3>5. u \in SUBSET u
      OBVIOUS
    <3> HIDE DEF u
    <3>6. G(s)[u] = G(u)[u]
      BY <3>2, <3>3, <3>4, <3>5, FoldUnique
    <3>7. G(s)[s] = f[OneOf(s)] + G(s)[u]
      <4>1. s \in SUBSET s
        OBVIOUS
      <4> QED
        BY <2>2, <3>3, <4>1 DEF Folds, u
    <3> QED
      BY <2>2, <3>6, <3>7 DEF u
  <2> QED
    BY <2>1, <2>2
<1>6. Folds(g, f, T)
  <2>1. ASSUME NEW s \in SUBSET T, s # {} PROVE g[s \ {OneOf(s)}] = V(s \ {OneOf(s)})
    <3>1. OneOf(s) \in s
      BY <2>1 DEF OneOf
    <3>2. s \ {OneOf(s)} \in SUBSET T /\ s \ {OneOf(s)} # T
      BY <3>1
    <3> HIDE DEF g, V
    <3> QED
      BY <1>5, <3>2
  <2>2. \A s \in SUBSET T : s # {} => g[s \ {OneOf(s)}] = V(s \ {OneOf(s)})
    BY <2>1
  <2>3. \A s \in SUBSET T : (IF s = {} THEN 0 ELSE f[OneOf(s)] + V(s \ {OneOf(s)}))
                             = (IF s = {} THEN 0 ELSE f[OneOf(s)] + g[s \ {OneOf(s)}])
    <3> HIDE DEF g, V
    <3> QED
      BY <2>2
  <2> DEFINE k == [s \in SUBSET T |-> IF s = {} THEN 0 ELSE f[OneOf(s)] + g[s \ {OneOf(s)}]]
  <2>4. g = k
    <3>1. \A s \in SUBSET T : g[s] = k[s]
      BY <2>3
    <3> QED
      BY <3>1
  <2> HIDE DEF g
  <2> QED
    BY <2>4 DEF Folds
<1> QED
  BY <1>2, <1>6

(* What a sum is, one element after another. *)
LEMMA SumEmpty == ASSUME NEW f PROVE SumFunctionOnSet(f, {}) = 0
<1>1. PICK g : Folds(g, f, {})
  BY FoldExists, FS_EmptySet
<1>2. Folds(CHOOSE h : Folds(h, f, {}), f, {})
  BY <1>1
<1>3. {} \in SUBSET {}
  OBVIOUS
<1> DEFINE h == CHOOSE h : Folds(h, f, {})
<1>4. h[{}] = 0
  <2> HIDE DEF h
  <2>1. Folds(h, f, {})
    BY <1>2 DEF h
  <2> QED
    BY <2>1, <1>3 DEF Folds
<1> QED
  BY <1>4, SumDef

LEMMA SumPick ==
  ASSUME NEW f, NEW S, IsFiniteSet(S), S # {}
  PROVE  /\ OneOf(S) \in S
         /\ SumFunctionOnSet(f, S) = f[OneOf(S)] + SumFunctionOnSet(f, S \ {OneOf(S)})
<1> DEFINE G(U) == CHOOSE g : Folds(g, f, U)
           u == S \ {OneOf(S)}
<1>1. OneOf(S) \in S
  BY DEF OneOf
<1>2. IsFiniteSet(u) /\ u \subseteq S
  BY FS_Subset
<1>3. \A U : IsFiniteSet(U) => Folds(G(U), f, U)
  BY FoldExists
<1>4. \A U : SumFunctionOnSet(f, U) = G(U)[U]
  BY SumDef
<1> HIDE DEF G, u
<1>5. G(S)[u] = G(u)[u]
  <2>1. u \in SUBSET u
    OBVIOUS
  <2> QED
    BY <1>2, <1>3, <2>1, FoldUnique
<1>6. G(S)[S] = f[OneOf(S)] + G(S)[u]
  <2>1. S \in SUBSET S /\ Folds(G(S), f, S)
    BY <1>3
  <2> QED
    BY <2>1 DEF Folds, u
<1> QED
  BY <1>1, <1>4, <1>5, <1>6 DEF u

(* Sums of integers: in whatever order, of equal values, of disjoint sets. *)
IntOn(f, S) == IsFiniteSet(S) /\ \A x \in S : f[x] \in Int

LEMMA SumInt ==
  ASSUME NEW f, NEW S, IntOn(f, S)
  PROVE  SumFunctionOnSet(f, S) \in Int
<1> DEFINE B == {T \in SUBSET S : SumFunctionOnSet(f, T) \notin Int}
<1> SUFFICES ASSUME B # {} PROVE FALSE
  OBVIOUS
<1>2. PICK T \in B : \A U \in B : U \subseteq T => U = T
  <2>1. B \in SUBSET SUBSET S /\ IsFiniteSet(S)
    BY DEF IntOn
  <2> HIDE DEF B
  <2> QED
    BY <2>1, SmallestSet
<1>3. T # {} /\ IsFiniteSet(T)
  <2>1. T \in SUBSET S /\ SumFunctionOnSet(f, T) \notin Int
    BY <1>2
  <2>2. T # {}
    BY <2>1, SumEmpty
  <2> QED
    BY <2>1, <2>2, FS_Subset DEF IntOn
<1>4. /\ OneOf(T) \in T
      /\ SumFunctionOnSet(f, T) = f[OneOf(T)] + SumFunctionOnSet(f, T \ {OneOf(T)})
  BY <1>3, SumPick
<1>5. T \ {OneOf(T)} \notin B
  BY <1>2, <1>4
<1>6. SumFunctionOnSet(f, T \ {OneOf(T)}) \in Int
  BY <1>5
<1> QED
  BY <1>2, <1>4, <1>6 DEF IntOn

LEMMA SumAdd ==
  ASSUME NEW f, NEW S, IntOn(f, S), NEW y \in S
  PROVE  SumFunctionOnSet(f, S) = f[y] + SumFunctionOnSet(f, S \ {y})
<1> DEFINE B == {T \in SUBSET S : \E z \in T : SumFunctionOnSet(f, T) # f[z] + SumFunctionOnSet(f, T \ {z})}
<1> SUFFICES ASSUME B # {} PROVE FALSE
  <2>1. S \notin B
    OBVIOUS
  <2> QED
    BY <2>1
<1>2. PICK T \in B : \A U \in B : U \subseteq T => U = T
  <2>1. B \in SUBSET SUBSET S /\ IsFiniteSet(S)
    BY DEF IntOn
  <2> HIDE DEF B
  <2> QED
    BY <2>1, SmallestSet
<1>3. PICK z \in T : SumFunctionOnSet(f, T) # f[z] + SumFunctionOnSet(f, T \ {z})
  BY <1>2
<1>4. T # {} /\ IsFiniteSet(T) /\ T \in SUBSET S
  BY <1>2, <1>3, FS_Subset DEF IntOn
<1> DEFINE x == OneOf(T)
<1>5. x \in T /\ SumFunctionOnSet(f, T) = f[x] + SumFunctionOnSet(f, T \ {x})
  BY <1>4, SumPick
<1> HIDE DEF x
<1>6. x # z
  BY <1>3, <1>5
<1>7. T \ {x} \notin B /\ T \ {z} \notin B
  BY <1>2, <1>3, <1>5
<1>8. SumFunctionOnSet(f, T \ {x}) = f[z] + SumFunctionOnSet(f, (T \ {x}) \ {z})
  BY <1>4, <1>6, <1>7
<1>9. SumFunctionOnSet(f, T \ {z}) = f[x] + SumFunctionOnSet(f, (T \ {z}) \ {x})
  BY <1>4, <1>5, <1>6, <1>7
<1>10. (T \ {z}) \ {x} = (T \ {x}) \ {z}
  OBVIOUS
<1>11. IntOn(f, (T \ {x}) \ {z}) /\ f[x] \in Int /\ f[z] \in Int
  BY <1>4, <1>5, FS_Subset DEF IntOn
<1>12. SumFunctionOnSet(f, (T \ {x}) \ {z}) \in Int
  BY <1>11, SumInt
<1> QED
  <2> DEFINE t == SumFunctionOnSet(f, (T \ {x}) \ {z})
             tx == SumFunctionOnSet(f, T \ {x})
             tz == SumFunctionOnSet(f, T \ {z})
             all == SumFunctionOnSet(f, T)
  <2>1. all # f[z] + tz /\ all = f[x] + tx /\ tx = f[z] + t /\ tz = f[x] + t
    BY <1>3, <1>5, <1>8, <1>9, <1>10
  <2>2. t \in Int /\ f[x] \in Int /\ f[z] \in Int
    BY <1>11, <1>12
  <2> HIDE DEF t, tx, tz, all
  <2> QED
    BY <2>1, <2>2

LEMMA SumSame ==
  ASSUME NEW f, NEW g, NEW S, IsFiniteSet(S), \A x \in S : f[x] = g[x]
  PROVE  SumFunctionOnSet(f, S) = SumFunctionOnSet(g, S)
<1> DEFINE B == {T \in SUBSET S : SumFunctionOnSet(f, T) # SumFunctionOnSet(g, T)}
<1> SUFFICES ASSUME B # {} PROVE FALSE
  OBVIOUS
<1>2. PICK T \in B : \A U \in B : U \subseteq T => U = T
  <2>1. B \in SUBSET SUBSET S
    OBVIOUS
  <2> HIDE DEF B
  <2> QED
    BY <2>1, SmallestSet
<1>3. T # {} /\ IsFiniteSet(T)
  BY <1>2, SumEmpty, FS_Subset
<1>4. /\ OneOf(T) \in T
      /\ SumFunctionOnSet(f, T) = f[OneOf(T)] + SumFunctionOnSet(f, T \ {OneOf(T)})
      /\ SumFunctionOnSet(g, T) = g[OneOf(T)] + SumFunctionOnSet(g, T \ {OneOf(T)})
  BY <1>3, SumPick
<1>5. T \ {OneOf(T)} \notin B
  BY <1>2, <1>4
<1> QED
  BY <1>2, <1>4, <1>5

LEMMA SumUnion ==
  ASSUME NEW f, NEW S, NEW R, IntOn(f, S), IntOn(f, R), S \cap R = {}
  PROVE  SumFunctionOnSet(f, S \cup R) = SumFunctionOnSet(f, S) + SumFunctionOnSet(f, R)
<1> DEFINE B == {T \in SUBSET S : SumFunctionOnSet(f, T \cup R) # SumFunctionOnSet(f, T) + SumFunctionOnSet(f, R)}
<1> SUFFICES ASSUME B # {} PROVE FALSE
  OBVIOUS
<1>2. PICK T \in B : \A U \in B : U \subseteq T => U = T
  <2>1. B \in SUBSET SUBSET S /\ IsFiniteSet(S)
    BY DEF IntOn
  <2> HIDE DEF B
  <2> QED
    BY <2>1, SmallestSet
<1>3. T # {}
  <2>1. {} \cup R = R /\ SumFunctionOnSet(f, R) \in Int
    BY SumInt
  <2>2. SumFunctionOnSet(f, T \cup R) # SumFunctionOnSet(f, T) + SumFunctionOnSet(f, R)
    BY <1>2
  <2>3. SumFunctionOnSet(f, {}) = 0
    BY SumEmpty
  <2> QED
    BY <2>1, <2>2, <2>3
<1>4. PICK x \in T : TRUE
  BY <1>3
<1> DEFINE u == T \ {x}
<1>5. u \notin B /\ u \in SUBSET S
  BY <1>2
<1>6. SumFunctionOnSet(f, u \cup R) = SumFunctionOnSet(f, u) + SumFunctionOnSet(f, R)
  BY <1>5
<1>7. IntOn(f, T) /\ IntOn(f, u) /\ IntOn(f, T \cup R) /\ f[x] \in Int
  BY <1>2, FS_Subset, FS_Union DEF IntOn
<1>8. SumFunctionOnSet(f, T) = f[x] + SumFunctionOnSet(f, u)
  BY <1>7, SumAdd
<1>9. SumFunctionOnSet(f, T \cup R) = f[x] + SumFunctionOnSet(f, (T \cup R) \ {x})
  BY <1>7, SumAdd
<1>10. (T \cup R) \ {x} = u \cup R
  BY <1>4, <1>2
<1> HIDE DEF u
<1>11. SumFunctionOnSet(f, u) \in Int /\ SumFunctionOnSet(f, R) \in Int
  BY <1>7, SumInt
<1> QED
  <2> DEFINE tr == SumFunctionOnSet(f, T \cup R)
             ur == SumFunctionOnSet(f, u \cup R)
             t == SumFunctionOnSet(f, T)
             w == SumFunctionOnSet(f, u)
             r == SumFunctionOnSet(f, R)
  <2>1. tr # t + r
    BY <1>2
  <2>2. ur = w + r /\ t = f[x] + w /\ tr = f[x] + ur
    BY <1>6, <1>8, <1>9, <1>10
  <2>3. w \in Int /\ r \in Int /\ f[x] \in Int
    BY <1>7, <1>11
  <2> HIDE DEF tr, ur, t, w, r
  <2> QED
    BY <2>1, <2>2, <2>3

LEMMA SumNonNegative ==
  ASSUME NEW f, NEW S, IntOn(f, S), \A x \in S : f[x] >= 0
  PROVE  SumFunctionOnSet(f, S) >= 0
<1> DEFINE B == {T \in SUBSET S : ~(SumFunctionOnSet(f, T) >= 0)}
<1> SUFFICES ASSUME B # {} PROVE FALSE
  OBVIOUS
<1>1. IsFiniteSet(S) /\ B \in SUBSET SUBSET S
  BY DEF IntOn
<1>2. PICK T \in B : \A U \in B : U \subseteq T => U = T
  <2> HIDE DEF B
  <2> QED
    BY <1>1, SmallestSet
<1>3. T \in SUBSET S /\ ~(SumFunctionOnSet(f, T) >= 0)
  BY <1>2
<1>4. T # {}
  BY <1>3, SumEmpty
<1>5. PICK x \in T : TRUE
  BY <1>4
<1> DEFINE u == T \ {x}
<1>6. SumFunctionOnSet(f, u) >= 0
  BY <1>2, <1>3, <1>5
<1>7. IntOn(f, T) /\ IntOn(f, u)
  BY <1>1, <1>3, FS_Subset DEF IntOn
<1>8. SumFunctionOnSet(f, T) = f[x] + SumFunctionOnSet(f, u)
  BY <1>5, <1>7, SumAdd
<1>9. SumFunctionOnSet(f, u) \in Int /\ f[x] \in Int /\ f[x] >= 0
  BY <1>3, <1>5, <1>7, SumInt DEF IntOn
<1> QED
  BY <1>3, <1>6, <1>8, <1>9

LEMMA FiniteImage ==
  ASSUME NEW S, IsFiniteSet(S), NEW f
  PROVE  IsFiniteSet({f[x] : x \in S})
<1> DEFINE T == {f[x] : x \in S}
           g == [x \in S |-> f[x]]
<1>1. g \in Surjection(S, T)
  BY DEF Surjection
<1> QED
  BY <1>1, FS_Surjection

(* The sum of equal values under other names. *)
LEMMA SumRenamed ==
  ASSUME NEW S, NEW f, NEW g, NEW name, IntOn(f, S),
         \A x, y \in S : name[x] = name[y] => x = y,
         \A x \in S : g[name[x]] = f[x]
  PROVE  SumFunctionOnSet(g, {name[x] : x \in S}) = SumFunctionOnSet(f, S)
<1> DEFINE Image(T) == {name[x] : x \in T}
           B == {T \in SUBSET S : SumFunctionOnSet(g, Image(T)) # SumFunctionOnSet(f, T)}
<1> SUFFICES ASSUME B # {} PROVE FALSE
  OBVIOUS
<1>1. PICK T \in B : \A U \in B : U \subseteq T => U = T
  <2>1. B \in SUBSET SUBSET S /\ IsFiniteSet(S)
    BY DEF IntOn
  <2> HIDE DEF B
  <2> QED
    BY <2>1, SmallestSet
<1>2. T \in SUBSET S /\ SumFunctionOnSet(g, Image(T)) # SumFunctionOnSet(f, T)
  BY <1>1
<1>3. T # {}
  <2>1. Image({}) = {}
    OBVIOUS
  <2>2. SumFunctionOnSet(g, {}) = 0 /\ SumFunctionOnSet(f, {}) = 0
    BY SumEmpty
  <2> HIDE DEF Image
  <2> QED
    BY <1>2, <2>1, <2>2
<1>4. PICK x \in T : TRUE
  BY <1>3
<1>5. T \ {x} \in SUBSET S /\ SumFunctionOnSet(g, Image(T \ {x})) = SumFunctionOnSet(f, T \ {x})
  BY <1>1, <1>2, <1>4
<1>6. Image(T) \ {name[x]} = Image(T \ {x}) /\ name[x] \in Image(T)
  BY <1>2, <1>4
<1>7. IntOn(f, T) /\ IntOn(g, Image(T))
  <2>1. IsFiniteSet(T)
    BY <1>2, FS_Subset DEF IntOn
  <2>2. IsFiniteSet(Image(T))
    BY <2>1, FiniteImage
  <2>3. \A z \in Image(T) : g[z] \in Int
    BY <1>2 DEF IntOn
  <2> QED
    BY <1>2, <2>1, <2>2, <2>3 DEF IntOn
<1> HIDE DEF Image
<1>8. SumFunctionOnSet(g, Image(T)) = g[name[x]] + SumFunctionOnSet(g, Image(T) \ {name[x]})
  BY <1>6, <1>7, SumAdd
<1>9. SumFunctionOnSet(f, T) = f[x] + SumFunctionOnSet(f, T \ {x})
  BY <1>7, SumAdd
<1> QED
  BY <1>2, <1>4, <1>5, <1>6, <1>8, <1>9

(* A sum of sums over disjoint sets is the sum over their union. *)
LEMMA SumOfSums ==
  ASSUME NEW K, IsFiniteSet(K), NEW part, NEW f, NEW s,
         \A k \in K : IntOn(f, part[k]) /\ s[k] = SumFunctionOnSet(f, part[k]),
         \A k, l \in K : k # l => part[k] \cap part[l] = {}
  PROVE  SumFunctionOnSet(s, K) = SumFunctionOnSet(f, UNION {part[k] : k \in K})
<1> DEFINE All(T) == UNION {part[k] : k \in T}
           B == {T \in SUBSET K : SumFunctionOnSet(s, T) # SumFunctionOnSet(f, All(T))}
<1> SUFFICES ASSUME B # {} PROVE FALSE
  OBVIOUS
<1>1. PICK T \in B : \A U \in B : U \subseteq T => U = T
  <2>1. B \in SUBSET SUBSET K
    OBVIOUS
  <2> HIDE DEF B
  <2> QED
    BY <2>1, SmallestSet
<1>2. T \in SUBSET K /\ SumFunctionOnSet(s, T) # SumFunctionOnSet(f, All(T))
  BY <1>1
<1>3. T # {}
  <2>1. All({}) = {}
    OBVIOUS
  <2>2. SumFunctionOnSet(s, {}) = 0 /\ SumFunctionOnSet(f, {}) = 0
    BY SumEmpty
  <2> HIDE DEF All
  <2> QED
    BY <1>2, <2>1, <2>2
<1>4. PICK x \in T : TRUE
  BY <1>3
<1> DEFINE u == T \ {x}
<1>5. u \in SUBSET K /\ SumFunctionOnSet(s, u) = SumFunctionOnSet(f, All(u))
  BY <1>1, <1>2, <1>4
<1>6. All(T) = All(u) \cup part[x]
  <2>1. \A z : z \in All(T) <=> z \in All(u) \/ z \in part[x]
    BY <1>4
  <2> HIDE DEF All, u
  <2> QED
    BY <2>1
<1>7. All(u) \cap part[x] = {}
  <2>1. \A k \in u : part[k] \cap part[x] = {}
    BY <1>2, <1>4
  <2> QED
    BY <2>1
<1>8. IntOn(f, All(u)) /\ IntOn(f, part[x])
  <2>1. IsFiniteSet(u)
    BY <1>5, FS_Subset
  <2>2. IsFiniteSet({part[k] : k \in u})
    BY <2>1, FiniteImage
  <2>3. IsFiniteSet(All(u))
    <3>1. \A Z \in {part[k] : k \in u} : IsFiniteSet(Z)
      BY <1>5 DEF IntOn
    <3> QED
      BY <2>2, <3>1, FS_UNION
  <2>4. \A z \in All(u) : f[z] \in Int
    BY <1>5 DEF IntOn
  <2> QED
    BY <1>2, <1>4, <2>3, <2>4 DEF IntOn
<1>9. IntOn(s, T)
  <2>1. IsFiniteSet(T)
    BY <1>2, FS_Subset
  <2>2. \A k \in T : s[k] \in Int
    <3> TAKE k \in T
    <3>1. k \in K
      BY <1>2
    <3>2. SumFunctionOnSet(f, part[k]) \in Int
      BY <3>1, SumInt
    <3> QED
      BY <3>1, <3>2
  <2> QED
    BY <2>1, <2>2 DEF IntOn
<1>10. SumFunctionOnSet(s, T) = s[x] + SumFunctionOnSet(s, u)
  BY <1>4, <1>9, SumAdd
<1> HIDE DEF All
<1> HIDE DEF u
<1>11. SumFunctionOnSet(f, All(T)) = SumFunctionOnSet(f, All(u)) + SumFunctionOnSet(f, part[x])
  <2>1. SumFunctionOnSet(f, All(u) \cup part[x]) = SumFunctionOnSet(f, All(u)) + SumFunctionOnSet(f, part[x])
    BY <1>7, <1>8, SumUnion
  <2> QED
    BY <1>6, <2>1
<1>12. s[x] = SumFunctionOnSet(f, part[x])
  BY <1>2, <1>4
<1>13. SumFunctionOnSet(f, All(u)) \in Int /\ SumFunctionOnSet(f, part[x]) \in Int
  BY <1>8, SumInt
<1> QED
  <2> DEFINE a == SumFunctionOnSet(f, All(u))
             b == SumFunctionOnSet(f, part[x])
  <2>1. a \in Int /\ b \in Int /\ a + b = b + a
    BY <1>13
  <2> QED
    BY <1>2, <1>5, <1>10, <1>11, <1>12, <2>1

---------------------------------------------------------------------------------
(* A finite set of integers has a least and a greatest. *)
SomeInts(S) == IsFiniteSet(S) /\ S \subseteq Int /\ S # {}

LEMMA Extremes ==
  ASSUME NEW S, SomeInts(S)
  PROVE  /\ Min(S) \in S /\ \A y \in S : Min(S) <= y
         /\ Max(S) \in S /\ \A y \in S : y <= Max(S)
<1>1. \E x \in S : \A y \in S : x <= y
  <2> DEFINE Down(n) == {x \in S : x <= n}
             B == {Down(n) : n \in S}
  <2>0. IsFiniteSet(S) /\ S # {}
    BY DEF SomeInts
  <2>1. B \in SUBSET SUBSET S /\ B # {} /\ \A y \in S : Down(y) \in B
    BY <2>0
  <2>2. PICK T \in B : \A U \in B : U \subseteq T => U = T
    <3> HIDE DEF B, Down
    <3> QED
      BY <2>0, <2>1, SmallestSet
  <2>3. PICK n \in S : T = Down(n)
    OBVIOUS
  <2>4. ASSUME NEW y \in S, y < n PROVE FALSE
    <3>1. \A x \in S : x \in Down(y) => x \in Down(n)
      BY <2>4 DEF SomeInts
    <3>2. n \in Down(n) /\ n \notin Down(y)
      BY <2>4 DEF SomeInts
    <3>3. Down(y) \subseteq Down(n)
      BY <3>1
    <3> HIDE DEF Down
    <3> QED
      BY <2>1, <2>2, <2>3, <3>2, <3>3
  <2> QED
    BY <2>4 DEF SomeInts
<1>2. \E x \in S : \A y \in S : y <= x
  <2> DEFINE Up(n) == {x \in S : n <= x}
             B == {Up(n) : n \in S}
  <2>0. IsFiniteSet(S) /\ S # {}
    BY DEF SomeInts
  <2>1. B \in SUBSET SUBSET S /\ B # {} /\ \A y \in S : Up(y) \in B
    BY <2>0
  <2>2. PICK T \in B : \A U \in B : U \subseteq T => U = T
    <3> HIDE DEF B, Up
    <3> QED
      BY <2>0, <2>1, SmallestSet
  <2>3. PICK n \in S : T = Up(n)
    OBVIOUS
  <2>4. ASSUME NEW y \in S, n < y PROVE FALSE
    <3>1. \A x \in S : x \in Up(y) => x \in Up(n)
      BY <2>4 DEF SomeInts
    <3>2. n \in Up(n) /\ n \notin Up(y)
      BY <2>4 DEF SomeInts
    <3>3. Up(y) \subseteq Up(n)
      BY <3>1
    <3> HIDE DEF Up
    <3> QED
      BY <2>1, <2>2, <2>3, <3>2, <3>3
  <2> QED
    BY <2>4 DEF SomeInts
<1>3. Min(S) \in S /\ \A y \in S : Min(S) <= y
  BY <1>1 DEF Min
<1>4. Max(S) \in S /\ \A y \in S : Max(S) >= y
  BY <1>2 DEF Max, SomeInts
<1> QED
  BY <1>3, <1>4 DEF SomeInts

--------------------------------------------------------------------------------
(* Strict orders on finite sets, as sets of pairs. *)
Orders(R, S) ==
  /\ \A x, y, z \in S : <<x, y>> \in R /\ <<y, z>> \in R => <<x, z>> \in R
  /\ \A x \in S : <<x, x>> \notin R
  /\ \A x, y \in S : x = y \/ <<x, y>> \in R \/ <<y, x>> \in R

InFrontOf(S, R, x) == {y \in S : <<y, x>> \in R}

LEMMA OrdersPart ==
  ASSUME NEW S, NEW R, Orders(R, S), NEW T \in SUBSET S
  PROVE  Orders(R, T)
BY DEF Orders

LEMMA InFrontCounts ==
  ASSUME NEW S, IsFiniteSet(S), NEW R, NEW x
  PROVE  /\ IsFiniteSet(InFrontOf(S, R, x))
         /\ Cardinality(InFrontOf(S, R, x)) \in Nat
<1>1. InFrontOf(S, R, x) \subseteq S
  BY DEF InFrontOf
<1> QED
  BY <1>1, FS_Subset, FS_CardinalityType

(* Every set has somebody in front of all others. *)
LEMMA FirstOf ==
  ASSUME NEW S, IsFiniteSet(S), S # {}, NEW R, Orders(R, S)
  PROVE  \E x \in S : \A y \in S \ {x} : <<x, y>> \in R
<1> DEFINE B == {InFrontOf(S, R, x) : x \in S}
<1>1. B \in SUBSET SUBSET S /\ B # {} /\ \A y \in S : InFrontOf(S, R, y) \in B
  BY DEF InFrontOf
<1>2. PICK T \in B : \A U \in B : U \subseteq T => U = T
  <2> HIDE DEF B
  <2> QED
    BY <1>1, SmallestSet
<1>3. PICK x \in S : T = InFrontOf(S, R, x)
  OBVIOUS
<1>4. ASSUME NEW y \in S \ {x}, <<x, y>> \notin R PROVE FALSE
  <2>1. <<y, x>> \in R /\ <<y, y>> \notin R
    BY <1>4 DEF Orders
  <2>2. InFrontOf(S, R, y) \subseteq InFrontOf(S, R, x)
    BY <1>4, <2>1 DEF Orders, InFrontOf
  <2>3. y \in InFrontOf(S, R, x) /\ y \notin InFrontOf(S, R, y)
    BY <1>4, <2>1 DEF InFrontOf
  <2> QED
    BY <1>1, <1>2, <1>3, <1>4, <2>2, <2>3
<1> QED
  BY <1>4
================================================================================
