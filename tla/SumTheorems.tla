----------------------------- MODULE SumTheorems -----------------------------
(***************************************************************************)
(* Sums of a function over a finite set, as the models write them, and the *)
(* induction over finite sets that they and other folds rest on.           *)
(*                                                                         *)
(* Induction over finite sets is used in the form that takes a set instead *)
(* of a predicate: the finite subsets are well founded under inclusion, so *)
(* that a non-empty set of them has a minimal element (WFMin).             *)
(***************************************************************************)
EXTENDS FiniteSetsExt, Integers, FiniteSetTheorems, TLAPS

Pick(s) == CHOOSE x \in s : TRUE

\* g is the function that the sum over S is defined by.
Sums(g, F, S) ==
    g = [s \in SUBSET S |->
           IF s = {} THEN 0 ELSE F[Pick(s)] + g[s \ {Pick(s)}]]

\* What holds of a finite set if it holds of it without any one element.
LEMMA SetInduction ==
    ASSUME NEW S, IsFiniteSet(S), NEW C,
           \A T \in SUBSET S : (\A x \in T : T \ {x} \in C) => T \in C
    PROVE  S \in C
<1> SUFFICES ASSUME S \notin C PROVE FALSE
  OBVIOUS
<1> DEFINE Bad == {T \in SUBSET S : T \notin C}
<1>1. IsWellFoundedOn(StrictSubsetOrdering(S), SUBSET S)
  BY FS_StrictSubsetOrderingWellFounded, FS_FiniteSubsetsOfFinite
<1>2. Bad \subseteq SUBSET S /\ Bad # {}
  OBVIOUS
<1> HIDE DEF Bad
<1>3. PICK T \in Bad : \A U \in Bad : <<U, T>> \notin StrictSubsetOrdering(S)
  BY <1>1, <1>2, WFMin
<1>4. \A x \in T : T \ {x} \in C
  <2> SUFFICES ASSUME NEW x \in T PROVE T \ {x} \in C
    OBVIOUS
  <2>1. <<T \ {x}, T>> \in StrictSubsetOrdering(S)
    BY <1>2 DEF StrictSubsetOrdering
  <2> QED BY <2>1, <1>2, <1>3 DEF Bad
<1> QED BY <1>4 DEF Bad

\* A non-empty finite set of numbers has a largest one.
LEMMA MaxIs ==
    ASSUME NEW N \in Nat, NEW S \in SUBSET (1..N), S # {}
    PROVE  Max(S) \in S /\ \A s \in S : s <= Max(S)
<1>0. \A s \in S : s \in Nat /\ N - s \in Nat
  OBVIOUS
<1> DEFINE T == {n \in Nat : \E s \in S : n = N - s}
           R == OpToRel(<, Nat)
<1>2. T \subseteq Nat /\ T # {}
  BY <1>0
<1>3. PICK m \in T : \A n \in T : <<n, m>> \notin R
  <2> HIDE DEF T, R
  <2> QED BY <1>2, WFMin, NatLessThanWellFounded DEF R
<1>4. \A n \in T : ~(n < m)
  BY <1>3 DEF OpToRel
<1>5. \E x \in S : \A s \in S : x >= s
  <2>1. PICK x \in S : m = N - x
    OBVIOUS
  <2>2. ASSUME NEW s \in S PROVE x >= s
    <3>1. ~(N - s < N - x)
      BY <1>0, <1>4, <2>1
    <3> QED BY <1>0, <3>1
  <2> QED BY <2>2
<1> QED BY <1>5 DEF Max

\* What such a function is at a subset.
LEMMA SumsUnfold ==
    ASSUME NEW g, NEW F, NEW S, Sums(g, F, S), NEW s \in SUBSET S
    PROVE  g[s] = IF s = {} THEN 0 ELSE F[Pick(s)] + g[s \ {Pick(s)}]
BY DEF Sums

\* Two such functions agree wherever both are defined.
LEMMA SumsAgree ==
    ASSUME NEW g, NEW h, NEW F, NEW S, NEW T, IsFiniteSet(T),
           Sums(g, F, S), Sums(h, F, T), T \subseteq S
    PROVE  g[T] = h[T]
<1> DEFINE C == {s \in SUBSET T : g[s] = h[s]}
<1>1. ASSUME NEW s \in SUBSET T, \A x \in s : s \ {x} \in C PROVE s \in C
  <2>1. g[s] = IF s = {} THEN 0 ELSE F[Pick(s)] + g[s \ {Pick(s)}]
    BY SumsUnfold
  <2>2. h[s] = IF s = {} THEN 0 ELSE F[Pick(s)] + h[s \ {Pick(s)}]
    BY SumsUnfold
  <2>3. CASE s = {} BY <2>1, <2>2, <2>3
  <2>4. CASE s # {}
    <3>1. Pick(s) \in s BY <2>4 DEF Pick
    <3>2. g[s \ {Pick(s)}] = h[s \ {Pick(s)}] BY <3>1, <1>1
    <3> QED BY <2>1, <2>2, <2>4, <3>2
  <2> QED BY <2>3, <2>4
<1> HIDE DEF C
<1>2. T \in C
  BY <1>1, SetInduction
<1> QED BY <1>2 DEF C

\* Restricted to the subsets of T it is the one for T.
LEMMA SumsRestrict ==
    ASSUME NEW g, NEW F, NEW S, Sums(g, F, S), NEW T \in SUBSET S
    PROVE  Sums([s \in SUBSET T |-> g[s]], F, T)
<1> DEFINE h == [s \in SUBSET T |-> g[s]]
<1>1. ASSUME NEW s \in SUBSET T
      PROVE  h[s] = IF s = {} THEN 0 ELSE F[Pick(s)] + h[s \ {Pick(s)}]
  BY SumsUnfold
<1> QED BY <1>1 DEF Sums

\* There is one for every finite set, by induction over its subsets.
LEMMA SumsExist ==
    ASSUME NEW F, NEW S, IsFiniteSet(S)
    PROVE  \E g : Sums(g, F, S)
<1> DEFINE C == {T \in SUBSET S : \E g : Sums(g, F, T)}
           V(s) == (CHOOSE g : Sums(g, F, s))[s]
<1>1. ASSUME NEW T \in SUBSET S, \A x \in T : T \ {x} \in C PROVE T \in C
  <2> DEFINE Value(s) == IF s = {} THEN 0 ELSE F[Pick(s)] + V(s \ {Pick(s)})
             h == [s \in SUBSET T |-> Value(s)]
  <2>1. ASSUME NEW s \in SUBSET T, s # T PROVE V(s) = Value(s)
    <3>1. PICK x \in T : x \notin s BY <2>1
    <3>2. PICK g : Sums(g, F, T \ {x}) BY <1>1
    <3>3. ASSUME NEW u \in SUBSET (T \ {x}) PROVE V(u) = g[u]
      <4>1. \E k : Sums(k, F, u)
        BY <3>2, SumsRestrict
      <4>2. Sums(CHOOSE k : Sums(k, F, u), F, u)
        BY <4>1
      <4>3. IsFiniteSet(u)
        BY FS_Subset
      <4> QED BY <3>2, <4>2, <4>3, SumsAgree
    <3>4. V(s) = g[s] /\ V(s \ {Pick(s)}) = g[s \ {Pick(s)}]
      BY <3>1, <3>3
    <3> QED BY <3>1, <3>2, <3>4, SumsUnfold
  <2>2. ASSUME NEW s \in SUBSET T
        PROVE  h[s] = IF s = {} THEN 0 ELSE F[Pick(s)] + h[s \ {Pick(s)}]
    <3>1. CASE s = {} BY <3>1
    <3>2. CASE s # {}
      <4>1. Pick(s) \in s BY <3>2 DEF Pick
      <4>2. s \ {Pick(s)} \in SUBSET T /\ s \ {Pick(s)} # T
        BY <4>1
      <4>3. h[s \ {Pick(s)}] = V(s \ {Pick(s)})
        BY <4>2, <2>1
      <4> HIDE DEF V
      <4> QED BY <3>2, <4>3
    <3> QED BY <3>1, <3>2
  <2>3. Sums(h, F, T)
    <3> HIDE DEF Value
    <3>1. h = [s \in SUBSET T |-> h[s]] OBVIOUS
    <3> HIDE DEF h
    <3> QED BY <2>2, <3>1 DEF Sums
  <2> QED BY <2>3
<1> HIDE DEF C
<1>2. S \in C
  BY <1>1, SetInduction
<1> QED BY <1>2 DEF C

\* The library's sum is the value of such a function.
LEMMA SumSums ==
    ASSUME NEW F, NEW S, IsFiniteSet(S)
    PROVE  \E g : Sums(g, F, S) /\ SumFunctionOnSet(F, S) = g[S]
<1> DEFINE it == CHOOSE iter : iter = [s \in SUBSET S |->
                    IF s = {} THEN 0
                    ELSE F[CHOOSE x \in s : TRUE] + iter[s \ {CHOOSE x \in s : TRUE}]]
<1>1. \E iter : iter = [s \in SUBSET S |->
                    IF s = {} THEN 0
                    ELSE F[CHOOSE x \in s : TRUE] + iter[s \ {CHOOSE x \in s : TRUE}]]
  <2>1. PICK g : Sums(g, F, S)
    BY SumsExist
  <2>2. g = [s \in SUBSET S |->
               IF s = {} THEN 0
               ELSE F[CHOOSE x \in s : TRUE] + g[s \ {CHOOSE x \in s : TRUE}]]
    BY <2>1, Zenon DEF Sums, Pick
  <2> QED BY <2>2, Zenon
<1>2. it = [s \in SUBSET S |->
              IF s = {} THEN 0
              ELSE F[CHOOSE x \in s : TRUE] + it[s \ {CHOOSE x \in s : TRUE}]]
  BY <1>1, Zenon
<1>3. Sums(it, F, S)
  BY <1>2, Zenon DEF Sums, Pick
<1>4. SumFunctionOnSet(F, S) = it[S]
  BY DEF SumFunctionOnSet, FoldFunctionOnSet, MapThenFoldSet
<1> QED BY <1>3, <1>4

----------------------------------------------------------------------------
\* The equation of the definition.
LEMMA SumPicks ==
    ASSUME NEW F, NEW S, IsFiniteSet(S), S # {}
    PROVE  SumFunctionOnSet(F, S) = F[Pick(S)] + SumFunctionOnSet(F, S \ {Pick(S)})
<1>1. PICK g : Sums(g, F, S) /\ SumFunctionOnSet(F, S) = g[S]
  BY SumSums
<1> DEFINE T == S \ {Pick(S)}
<1>2. IsFiniteSet(T)
  BY FS_Subset
<1>3. PICK h : Sums(h, F, T) /\ SumFunctionOnSet(F, T) = h[T]
  BY <1>2, SumSums
<1>4. g[T] = h[T]
  <2> T \subseteq S OBVIOUS
  <2> HIDE DEF T
  <2> QED BY <1>1, <1>2, <1>3, SumsAgree
<1>5. g[S] = F[Pick(S)] + g[T]
  BY <1>1, SumsUnfold
<1> QED BY <1>1, <1>3, <1>4, <1>5

\* Nothing adds up to 0.
LEMMA SumEmpty ==
    ASSUME NEW F PROVE SumFunctionOnSet(F, {}) = 0
<1>1. IsFiniteSet({})
  BY FS_EmptySet
<1> QED BY <1>1, SumSums, SumsUnfold

\* Whole numbers add up to a whole number.
LEMMA SumType ==
    ASSUME NEW F, NEW S, IsFiniteSet(S), \A x \in S : F[x] \in Int
    PROVE  SumFunctionOnSet(F, S) \in Int
<1> DEFINE C == {T \in SUBSET S : SumFunctionOnSet(F, T) \in Int}
<1>1. ASSUME NEW T \in SUBSET S, \A x \in T : T \ {x} \in C PROVE T \in C
  <2>1. CASE T = {} BY <2>1, SumEmpty
  <2>2. CASE T # {}
    <3>1. Pick(T) \in T BY <2>2 DEF Pick
    <3>2. IsFiniteSet(T) BY FS_Subset
    <3>3. SumFunctionOnSet(F, T) = F[Pick(T)] + SumFunctionOnSet(F, T \ {Pick(T)})
      BY <2>2, <3>2, SumPicks
    <3> QED BY <1>1, <3>1, <3>3
  <2> QED BY <2>1, <2>2
<1> HIDE DEF C
<1>2. S \in C
  BY <1>1, SetInduction
<1> QED BY <1>2 DEF C

\* Any element can be taken out of a sum.
LEMMA SumRemove ==
    ASSUME NEW F, NEW S, IsFiniteSet(S), \A x \in S : F[x] \in Int, NEW y \in S
    PROVE  SumFunctionOnSet(F, S) = F[y] + SumFunctionOnSet(F, S \ {y})
<1> DEFINE Sum(T) == SumFunctionOnSet(F, T)
           C == {T \in SUBSET S : \A x \in T : Sum(T) = F[x] + Sum(T \ {x})}
<1>1. ASSUME NEW T \in SUBSET S, \A x \in T : T \ {x} \in C PROVE T \in C
  <2> DEFINE p == Pick(T)
  <2> SUFFICES ASSUME NEW x \in T PROVE Sum(T) = F[x] + Sum(T \ {x})
    OBVIOUS
  <2>1. p \in T BY DEF Pick
  <2>2. IsFiniteSet(T) BY FS_Subset
  <2>3. Sum(T) = F[p] + Sum(T \ {p})
    BY <2>1, <2>2, SumPicks
  <2>4. CASE x = p BY <2>3, <2>4
  <2>5. CASE x # p
    <3> DEFINE R == (T \ {p}) \ {x}
    <3>1. R = (T \ {x}) \ {p} OBVIOUS
    <3>2. T \ {p} \in C /\ T \ {x} \in C
      BY <1>1, <2>1
    <3>3. Sum(T \ {p}) = F[x] + Sum(R)
      BY <3>2, <2>5
    <3>4. Sum(T \ {x}) = F[p] + Sum(R)
      BY <3>1, <3>2, <2>1, <2>5
    <3>5. IsFiniteSet(R) BY <2>2, FS_Subset
    <3>6. F[x] \in Int /\ F[p] \in Int
      BY <2>1
    <3>7. Sum(R) \in Int
      BY <3>5, SumType
    <3> HIDE DEF R, Sum, p
    <3> QED BY <2>3, <3>3, <3>4, <3>6, <3>7
  <2> QED BY <2>4, <2>5
<1> HIDE DEF C
<1>2. S \in C
  BY <1>1, SetInduction
<1> QED BY <1>2 DEF C

\* One element more.
LEMMA SumAdd ==
    ASSUME NEW F, NEW S, IsFiniteSet(S), NEW y, y \notin S,
           \A x \in S \cup {y} : F[x] \in Int
    PROVE  SumFunctionOnSet(F, S \cup {y}) = F[y] + SumFunctionOnSet(F, S)
<1>1. IsFiniteSet(S \cup {y}) /\ y \in S \cup {y} /\ (S \cup {y}) \ {y} = S
  BY FS_AddElement
<1> QED BY <1>1, SumRemove

\* The sum over one element.
LEMMA SumOne ==
    ASSUME NEW F, NEW y, F[y] \in Int
    PROVE  SumFunctionOnSet(F, {y}) = F[y]
<1>1. SumFunctionOnSet(F, {} \cup {y}) = F[y] + SumFunctionOnSet(F, {})
  BY FS_EmptySet, SumAdd
<1> QED BY <1>1, SumEmpty

\* A sum depends on the values of the function on the set only.
LEMMA SumEqual ==
    ASSUME NEW F, NEW G, NEW S, IsFiniteSet(S), \A x \in S : F[x] = G[x]
    PROVE  SumFunctionOnSet(F, S) = SumFunctionOnSet(G, S)
<1> DEFINE C == {T \in SUBSET S : SumFunctionOnSet(F, T) = SumFunctionOnSet(G, T)}
<1>1. ASSUME NEW T \in SUBSET S, \A x \in T : T \ {x} \in C PROVE T \in C
  <2>1. CASE T = {} BY <2>1, SumEmpty
  <2>2. CASE T # {}
    <3>1. Pick(T) \in T BY <2>2 DEF Pick
    <3>2. IsFiniteSet(T) BY FS_Subset
    <3>3. /\ SumFunctionOnSet(F, T) = F[Pick(T)] + SumFunctionOnSet(F, T \ {Pick(T)})
          /\ SumFunctionOnSet(G, T) = G[Pick(T)] + SumFunctionOnSet(G, T \ {Pick(T)})
      BY <2>2, <3>2, SumPicks
    <3> QED BY <1>1, <3>1, <3>3
  <2> QED BY <2>1, <2>2
<1> HIDE DEF C
<1>2. S \in C
  BY <1>1, SetInduction
<1> QED BY <1>2 DEF C

\* Sums over disjoint sets add up.
LEMMA SumUnion ==
    ASSUME NEW F, NEW S, NEW T, IsFiniteSet(S), IsFiniteSet(T), S \cap T = {},
           \A x \in S \cup T : F[x] \in Int
    PROVE  SumFunctionOnSet(F, S \cup T) = SumFunctionOnSet(F, S) + SumFunctionOnSet(F, T)
<1> DEFINE Sum(U) == SumFunctionOnSet(F, U)
           C == {U \in SUBSET T : Sum(S \cup U) = Sum(S) + Sum(U)}
<1>0. Sum(S) \in Int
  BY SumType
<1>1. ASSUME NEW U \in SUBSET T, \A x \in U : U \ {x} \in C PROVE U \in C
  <2>1. CASE U = {}
    <3>1. S \cup U = S BY <2>1
    <3> QED BY <2>1, <3>1, <1>0, SumEmpty
  <2>2. CASE U # {}
    <3>1. PICK x \in U : TRUE BY <2>2
    <3>2. IsFiniteSet(U) /\ IsFiniteSet(U \ {x}) /\ IsFiniteSet(S \cup U)
      BY FS_Subset, FS_Union
    <3>3. Sum(U) = F[x] + Sum(U \ {x})
      BY <3>2, SumRemove
    <3>4. Sum(S \cup U) = F[x] + Sum((S \cup U) \ {x})
      BY <3>2, SumRemove
    <3>5. (S \cup U) \ {x} = S \cup (U \ {x})
      OBVIOUS
    <3>6. Sum(U \ {x}) \in Int /\ F[x] \in Int
      BY <3>2, SumType
    <3>7. Sum(S \cup (U \ {x})) = Sum(S) + Sum(U \ {x})
      BY <1>1
    <3>8. Sum(S \cup U) = F[x] + (Sum(S) + Sum(U \ {x}))
      BY <3>4, <3>5, <3>7, Zenon
    <3>9. Sum(S \cup U) = Sum(S) + Sum(U)
      <4> DEFINE s == Sum(S)   u == Sum(U \ {x})
      <4> HIDE DEF s, u
      <4>1. \A i, j, k \in Int : i + (j + k) = j + (i + k)
        OBVIOUS
      <4>2. F[x] \in Int /\ s \in Int /\ u \in Int
        BY <1>0, <3>6 DEF s, u
      <4>3. F[x] + (s + u) = s + (F[x] + u)
        BY <4>1, <4>2
      <4> QED BY <3>3, <3>8, <4>3, Zenon DEF s, u
    <3> QED BY <3>9
  <2> QED BY <2>1, <2>2
<1> HIDE DEF C
<1>2. T \in C
  BY <1>1, SetInduction
<1> QED BY <1>2 DEF C

\* Zeros add up to 0.
LEMMA SumZero ==
    ASSUME NEW F, NEW S, IsFiniteSet(S), \A x \in S : F[x] = 0
    PROVE  SumFunctionOnSet(F, S) = 0
<1> DEFINE C == {T \in SUBSET S : SumFunctionOnSet(F, T) = 0}
<1>1. ASSUME NEW T \in SUBSET S, \A x \in T : T \ {x} \in C PROVE T \in C
  <2>1. CASE T = {} BY <2>1, SumEmpty
  <2>2. CASE T # {}
    <3>1. Pick(T) \in T BY <2>2 DEF Pick
    <3>2. IsFiniteSet(T) BY FS_Subset
    <3>3. SumFunctionOnSet(F, T) = F[Pick(T)] + SumFunctionOnSet(F, T \ {Pick(T)})
      BY <2>2, <3>2, SumPicks
    <3> QED BY <1>1, <3>1, <3>3
  <2> QED BY <2>1, <2>2
<1> HIDE DEF C
<1>2. S \in C
  BY <1>1, SetInduction
<1> QED BY <1>2 DEF C

\* What is zero outside of a part adds nothing.
LEMMA SumPart ==
    ASSUME NEW F, NEW S, NEW T \in SUBSET S, IsFiniteSet(S),
           \A x \in S : F[x] \in Int, \A x \in S \ T : F[x] = 0
    PROVE  SumFunctionOnSet(F, S) = SumFunctionOnSet(F, T)
<1>1. IsFiniteSet(T) /\ IsFiniteSet(S \ T)
  BY FS_Subset
<1>2. S = T \cup (S \ T) /\ T \cap (S \ T) = {}
  OBVIOUS
<1>3. SumFunctionOnSet(F, S) = SumFunctionOnSet(F, T) + SumFunctionOnSet(F, S \ T)
  BY <1>1, <1>2, SumUnion
<1>4. SumFunctionOnSet(F, S \ T) = 0
  BY <1>1, SumZero
<1>5. SumFunctionOnSet(F, T) \in Int
  BY <1>1, SumType
<1> QED BY <1>3, <1>4, <1>5

\* The sum of sums.
LEMMA SumPlus ==
    ASSUME NEW F, NEW G, NEW H, NEW S, IsFiniteSet(S),
           \A x \in S : F[x] \in Int /\ G[x] \in Int /\ H[x] = F[x] + G[x]
    PROVE  SumFunctionOnSet(H, S) = SumFunctionOnSet(F, S) + SumFunctionOnSet(G, S)
<1> DEFINE C == {T \in SUBSET S : SumFunctionOnSet(H, T)
                      = SumFunctionOnSet(F, T) + SumFunctionOnSet(G, T)}
<1>1. ASSUME NEW T \in SUBSET S, \A x \in T : T \ {x} \in C PROVE T \in C
  <2>1. CASE T = {} BY <2>1, SumEmpty
  <2>2. CASE T # {}
    <3> DEFINE p == Pick(T)
               R == T \ {p}
    <3>1. p \in T BY <2>2 DEF Pick
    <3>2. IsFiniteSet(T) /\ IsFiniteSet(R) BY FS_Subset
    <3>3. /\ SumFunctionOnSet(F, T) = F[p] + SumFunctionOnSet(F, R)
          /\ SumFunctionOnSet(G, T) = G[p] + SumFunctionOnSet(G, R)
          /\ SumFunctionOnSet(H, T) = H[p] + SumFunctionOnSet(H, R)
      BY <2>2, <3>2, SumPicks
    <3>4. SumFunctionOnSet(H, R) = SumFunctionOnSet(F, R) + SumFunctionOnSet(G, R)
      BY <1>1, <3>1
    <3>5. SumFunctionOnSet(F, R) \in Int /\ SumFunctionOnSet(G, R) \in Int
      BY <3>2, SumType
    <3>6. F[p] \in Int /\ G[p] \in Int /\ H[p] = F[p] + G[p]
      BY <3>1
    <3> HIDE DEF R, p
    <3>7. SumFunctionOnSet(H, T) = SumFunctionOnSet(F, T) + SumFunctionOnSet(G, T)
      BY <3>3, <3>4, <3>5, <3>6
    <3> QED BY <3>7
  <2> QED BY <2>1, <2>2
<1> HIDE DEF C
<1>2. S \in C
  BY <1>1, SetInduction
<1> QED BY <1>2 DEF C

\* The sum of the opposites.
LEMMA SumNegative ==
    ASSUME NEW F, NEW G, NEW S, IsFiniteSet(S),
           \A x \in S : F[x] \in Int /\ G[x] = -F[x]
    PROVE  SumFunctionOnSet(G, S) = -SumFunctionOnSet(F, S)
<1> DEFINE Z == [x \in S |-> 0]
<1>1. \A x \in S : F[x] \in Int /\ G[x] \in Int /\ Z[x] = F[x] + G[x]
  OBVIOUS
<1>2. SumFunctionOnSet(Z, S) = 0
  BY SumZero
<1> HIDE DEF Z
<1>3. SumFunctionOnSet(Z, S) = SumFunctionOnSet(F, S) + SumFunctionOnSet(G, S)
  BY <1>1, SumPlus
<1>4. SumFunctionOnSet(F, S) \in Int /\ SumFunctionOnSet(G, S) \in Int
  BY <1>1, SumType
<1> QED BY <1>2, <1>3, <1>4

\* F and G are one table by rows and by columns, R and C the sums of these.
Table(F, G, R, C, A, B) ==
    /\ IsFiniteSet(A) /\ IsFiniteSet(B)
    /\ \A a \in A, b \in B : F[a][b] \in Int /\ G[b][a] = F[a][b]
    /\ \A a \in A : R[a] = SumFunctionOnSet(F[a], B)
    /\ \A b \in B : C[b] = SumFunctionOnSet(G[b], A)

\* Adding up by rows or by columns is the same.
LEMMA SumSwap ==
    ASSUME NEW F, NEW G, NEW R, NEW C, NEW A, NEW B, Table(F, G, R, C, A, B)
    PROVE  SumFunctionOnSet(R, A) = SumFunctionOnSet(C, B)
<1>a. /\ IsFiniteSet(A) /\ IsFiniteSet(B)
      /\ \A a \in A, b \in B : F[a][b] \in Int /\ G[b][a] = F[a][b]
      /\ \A a \in A : R[a] = SumFunctionOnSet(F[a], B)
      /\ \A b \in B : C[b] = SumFunctionOnSet(G[b], A)
  BY DEF Table
<1> DEFINE Column(T) == [b \in B |-> SumFunctionOnSet(G[b], T)]
           Good == {T \in SUBSET A : SumFunctionOnSet(R, T)
                                     = SumFunctionOnSet(Column(T), B)}
<1>0. \A a \in A : R[a] \in Int
  BY <1>a, SumType
<1>1. ASSUME NEW T \in SUBSET A, \A x \in T : T \ {x} \in Good PROVE T \in Good
  <2>0. IsFiniteSet(T) BY <1>a, FS_Subset
  <2>1. CASE T = {}
    <3>1. \A b \in B : Column(T)[b] = 0
      BY <2>1, SumEmpty
    <3>2. SumFunctionOnSet(Column(T), B) = 0
      BY <1>a, <3>1, SumZero
    <3> QED BY <2>1, <3>2, SumEmpty
  <2>2. CASE T # {}
    <3>1. PICK x \in T : TRUE BY <2>2
    <3> DEFINE U == T \ {x}
               D == F[x]
    <3>2. IsFiniteSet(U) BY <2>0, FS_Subset
    <3>3. SumFunctionOnSet(R, T) = R[x] + SumFunctionOnSet(R, U)
      BY <1>0, <2>0, SumRemove
    <3>4. \A b \in B : /\ Column(U)[b] \in Int /\ D[b] \in Int
                       /\ Column(T)[b] = D[b] + Column(U)[b]
      <4> SUFFICES ASSUME NEW b \in B
                   PROVE  /\ Column(U)[b] \in Int /\ D[b] \in Int
                          /\ Column(T)[b] = D[b] + Column(U)[b]
        OBVIOUS
      <4> DEFINE g == G[b]
      <4>1. \A a \in T : g[a] \in Int
        BY <1>a
      <4>2. SumFunctionOnSet(g, T) = g[x] + SumFunctionOnSet(g, U)
        <5> HIDE DEF g
        <5> QED BY <2>0, <4>1, SumRemove
      <4>3. SumFunctionOnSet(g, U) \in Int
        BY <3>2, <4>1, SumType
      <4> QED BY <1>a, <4>2, <4>3
    <3>5. SumFunctionOnSet(Column(T), B)
            = SumFunctionOnSet(D, B) + SumFunctionOnSet(Column(U), B)
      <4> DEFINE CT == Column(T)   CU == Column(U)
      <4>1. \A b \in B : D[b] \in Int /\ CU[b] \in Int /\ CT[b] = D[b] + CU[b]
        BY <3>4
      <4> HIDE DEF D, CT, CU
      <4>2. SumFunctionOnSet(CT, B) = SumFunctionOnSet(D, B) + SumFunctionOnSet(CU, B)
        BY <1>a, <4>1, SumPlus
      <4> QED BY <4>2 DEF CT, CU
    <3>6. SumFunctionOnSet(R, U) = SumFunctionOnSet(Column(U), B)
      BY <1>1
    <3>7. R[x] = SumFunctionOnSet(D, B)
      BY <1>a
    <3> HIDE DEF Column, D, U
    <3>8. SumFunctionOnSet(R, T) = SumFunctionOnSet(Column(T), B)
      BY <3>3, <3>5, <3>6, <3>7
    <3> QED BY <3>8
  <2> QED BY <2>1, <2>2
<1> HIDE DEF Good
<1>2. A \in Good
  BY <1>a, <1>1, SetInduction
<1> DEFINE Last == Column(A)
<1>3. SumFunctionOnSet(R, A) = SumFunctionOnSet(Last, B)
  BY <1>2 DEF Good
<1>4. \A b \in B : Last[b] = C[b]
  BY <1>a
<1> HIDE DEF Last
<1>5. SumFunctionOnSet(Last, B) = SumFunctionOnSet(C, B)
  BY <1>a, <1>4, SumEqual
<1> QED BY <1>3, <1>5

\* A sum over an image: nothing is lost if no two elements have one image.
LEMMA SumImage ==
    ASSUME NEW S, IsFiniteSet(S), NEW f, NEW F, NEW G,
           \A x, y \in S : f[x] = f[y] => x = y,
           \A x \in S : F[x] \in Int /\ G[f[x]] = F[x]
    PROVE  SumFunctionOnSet(G, {f[x] : x \in S}) = SumFunctionOnSet(F, S)
<1> DEFINE Image(T) == {f[x] : x \in T}
           C == {T \in SUBSET S : /\ IsFiniteSet(Image(T))
                                  /\ SumFunctionOnSet(G, Image(T)) = SumFunctionOnSet(F, T)}
<1>1. ASSUME NEW T \in SUBSET S, \A x \in T : T \ {x} \in C PROVE T \in C
  <2>0. IsFiniteSet(T) BY FS_Subset
  <2>1. CASE T = {}
    <3>1. Image(T) = {} BY <2>1
    <3> QED BY <2>1, <3>1, SumEmpty, FS_EmptySet
  <2>2. CASE T # {}
    <3>1. PICK x \in T : TRUE BY <2>2
    <3> DEFINE U == T \ {x}
    <3>2. U \in C BY <1>1
    <3>3. Image(T) = Image(U) \cup {f[x]} /\ f[x] \notin Image(U)
      OBVIOUS
    <3>4. \A z \in Image(U) \cup {f[x]} : G[z] \in Int
      OBVIOUS
    <3>5. IsFiniteSet(Image(U)) /\ SumFunctionOnSet(G, Image(U)) = SumFunctionOnSet(F, U)
      BY <3>2
    <3>6. IsFiniteSet(Image(T))
      <4>1. IsFiniteSet(Image(U) \cup {f[x]})
        BY <3>5, FS_AddElement
      <4> QED BY <3>3, <4>1
    <3>7. SumFunctionOnSet(F, T) = F[x] + SumFunctionOnSet(F, U)
      BY <2>0, SumRemove
    <3>8. G[f[x]] = F[x] OBVIOUS
    <3> HIDE DEF Image, U
    <3>9. SumFunctionOnSet(G, Image(T)) = G[f[x]] + SumFunctionOnSet(G, Image(U))
      BY <3>3, <3>4, <3>5, SumAdd
    <3>10. SumFunctionOnSet(G, Image(T)) = SumFunctionOnSet(F, T)
      BY <3>5, <3>7, <3>8, <3>9
    <3> QED BY <3>6, <3>10
  <2> QED BY <2>1, <2>2
<1> HIDE DEF C
<1>2. S \in C
  BY <1>1, SetInduction
<1> QED BY <1>2 DEF C
=============================================================================
