------------------------------- MODULE FiniteFacts -------------------------------
(***************************************************************************)
(* Least elements of finite sets and sums over them, for the proofs about  *)
(* windows, pages, file names and counts.  An order is given as a set of   *)
(* pairs.                                                                  *)
(***************************************************************************)
EXTENDS FiniteSetsExt, FiniteSetTheorems, WellFoundedInduction, TLAPS

\* A finite set has a minimal element in any strict order: the one with no
\* elements below it, for the sets of elements below others are finite too.
LEMMA HasMinimal ==
  ASSUME NEW S, IsFiniteSet(S), S # {}, NEW R,
         \A x \in S : <<x, x>> \notin R,
         \A x, y, z \in S : <<x, y>> \in R /\ <<y, z>> \in R => <<x, z>> \in R
  PROVE  \E x \in S : \A y \in S : <<y, x>> \notin R
<1> DEFINE Below(x) == {y \in S : <<y, x>> \in R}
           T == {Below(x) : x \in S}
<1>1. T \subseteq FiniteSubsetsOf(S) /\ T # {}
  <2>1. \A x \in S : Below(x) \in SUBSET S
    OBVIOUS
  <2>2. \A x \in S : IsFiniteSet(Below(x))
    <3> HIDE DEF Below
    <3> QED BY <2>1, FS_Subset
  <2> HIDE DEF Below
  <2> QED BY <2>1, <2>2 DEF FiniteSubsetsOf
<1>2. PICK b \in T : \A c \in T : <<c, b>> \notin StrictSubsetOrdering(S)
  <2> HIDE DEF T
  <2> QED BY <1>1, FS_StrictSubsetOrderingWellFounded, WFMin, Zenon
<1>3. PICK x \in S : b = Below(x)
  OBVIOUS
<1>4. ASSUME NEW y \in S, <<y, x>> \in R PROVE FALSE
  <2>1. Below(y) \in T
    OBVIOUS
  <2>2. Below(y) \subseteq Below(x)
    BY <1>4
  <2>3. y \in Below(x) /\ y \notin Below(y)
    BY <1>4
  <2>4. Below(x) \subseteq S /\ Below(y) \subseteq S
    OBVIOUS
  <2> HIDE DEF Below, T
  <2>5. <<Below(y), Below(x)>> \in StrictSubsetOrdering(S)
    BY <2>2, <2>3, <2>4 DEF StrictSubsetOrdering
  <2> QED BY <1>2, <1>3, <2>1, <2>5
<1> QED BY <1>4

\* A finite set of numbers has a least one.
LEMMA HasLeast ==
  ASSUME NEW S, IsFiniteSet(S), S # {}, S \subseteq Int
  PROVE  \E n \in S : \A m \in S : n <= m
<1> DEFINE R == {r \in S \X S : r[1] < r[2]}
<1>1. \A x, y \in S : <<x, y>> \in R <=> x < y
  OBVIOUS
<1> HIDE DEF R
<1>2. \A x \in S : <<x, x>> \notin R
  BY <1>1
<1>3. \A x, y, z \in S : <<x, y>> \in R /\ <<y, z>> \in R => <<x, z>> \in R
  BY <1>1
<1>4. PICK n \in S : \A m \in S : <<m, n>> \notin R
  BY ONLY <1>2, <1>3, IsFiniteSet(S), S # {}, HasMinimal, ZenonT(60)
<1>5. \A m \in S : ~(m < n)
  BY <1>1, <1>4, Zenon
<1>6. \A m \in S : n <= m
  BY <1>5
<1> QED BY <1>6

\* And a greatest one.
LEMMA HasGreatest ==
  ASSUME NEW S, IsFiniteSet(S), S # {}, S \subseteq Int
  PROVE  \E n \in S : \A m \in S : m <= n
<1> DEFINE R == {r \in S \X S : r[1] > r[2]}
<1>1. \A x, y \in S : <<x, y>> \in R <=> x > y
  OBVIOUS
<1> HIDE DEF R
<1>2. \A x \in S : <<x, x>> \notin R
  BY <1>1
<1>3. \A x, y, z \in S : <<x, y>> \in R /\ <<y, z>> \in R => <<x, z>> \in R
  BY <1>1
<1>4. PICK n \in S : \A m \in S : <<m, n>> \notin R
  BY ONLY <1>2, <1>3, IsFiniteSet(S), S # {}, HasMinimal, ZenonT(60)
<1>5. \A m \in S : ~(m > n)
  BY <1>1, <1>4, Zenon
<1>6. \A m \in S : m <= n
  BY <1>5
<1> QED BY <1>6

-----------------------------------------------------------------------------
(* Sums.  The fold behind SumFunction is a function defined by recursion   *)
(* over subsets; that it exists, and what it returns, follows because a    *)
(* smallest subset that violates it cannot exist.                          *)

\* The element a fold takes next.
Taken(s) == CHOOSE x \in s : TRUE

\* h sums a over every subset of S, one element after the other.
SumsUp(h, S, a) ==
  h = [W \in SUBSET S |-> IF W = {} THEN 0 ELSE a[Taken(W)] + h[W \ {Taken(W)}]]

\* Of any collection of subsets of a finite set one contains no other.
LEMMA HasSmallest ==
  ASSUME NEW S, IsFiniteSet(S), NEW B \in SUBSET SUBSET S, B # {}
  PROVE  \E V \in B : \A W \in B : W \subseteq V => W = V
<1>1. B \subseteq FiniteSubsetsOf(S)
  BY FS_Subset DEF FiniteSubsetsOf
<1>2. PICK V \in B : \A W \in B : <<W, V>> \notin StrictSubsetOrdering(S)
  BY <1>1, FS_StrictSubsetOrderingWellFounded, WFMin, Zenon
<1> QED BY <1>2 DEF StrictSubsetOrdering

LEMMA TakenIn ==
  ASSUME NEW W, W # {}
  PROVE  Taken(W) \in W
BY DEF Taken

\* The sum over a subset does not depend on the set it is part of.
LEMMA SumsUpAgree ==
  ASSUME NEW S, IsFiniteSet(S), NEW a, NEW T \in SUBSET S, NEW U \in SUBSET S,
         NEW h, SumsUp(h, T, a), NEW k, SumsUp(k, U, a)
  PROVE  \A W \in SUBSET (T \cap U) : h[W] = k[W]
<1> DEFINE B == {W \in SUBSET (T \cap U) : h[W] # k[W]}
<1> SUFFICES ASSUME B # {} PROVE FALSE
  OBVIOUS
<1>1. B \in SUBSET SUBSET S
  OBVIOUS
<1>2. PICK V \in B : \A W \in B : W \subseteq V => W = V
  <2> HIDE DEF B
  <2> QED BY <1>1, HasSmallest
<1>3. V # {}
  BY DEF SumsUp
<1>4. V \ {Taken(V)} \notin B
  BY <1>2, <1>3, TakenIn
<1>5. h[V \ {Taken(V)}] = k[V \ {Taken(V)}]
  BY <1>4
<1>6. /\ h[V] = a[Taken(V)] + h[V \ {Taken(V)}]
      /\ k[V] = a[Taken(V)] + k[V \ {Taken(V)}]
  BY <1>3 DEF SumsUp
<1> QED BY <1>5, <1>6

\* There is such a function: its value at a set is fixed by its values at smaller ones.
LEMMA SumsUpExists ==
  ASSUME NEW S, IsFiniteSet(S), NEW a
  PROVE  \E h : SumsUp(h, S, a)
<1> DEFINE B == {V \in SUBSET S : ~\E h : SumsUp(h, V, a)}
<1> SUFFICES ASSUME B # {} PROVE FALSE
  OBVIOUS
<1>1. B \in SUBSET SUBSET S
  OBVIOUS
<1>2. PICK V \in B : \A W \in B : W \subseteq V => W = V
  <2> HIDE DEF B
  <2> QED BY <1>1, HasSmallest
<1> DEFINE Of(W) == CHOOSE h : SumsUp(h, W, a)
           Less(W) == W \ {Taken(W)}
           g == [W \in SUBSET V |-> IF W = {} THEN 0 ELSE a[Taken(W)] + Of(Less(W))[Less(W)]]
<1>3. ASSUME NEW W \in SUBSET V, W # V PROVE SumsUp(Of(W), W, a)
  BY <1>2, <1>3
<1>4. ASSUME NEW W \in SUBSET V, W # {} PROVE Less(W) \in SUBSET V /\ Less(W) # V
  BY <1>4, TakenIn
<1>5. ASSUME NEW X \in SUBSET V, X # V PROVE g[X] = Of(X)[X]
  <2> DEFINE k == Of(X)
  <2>1. SumsUp(k, X, a)
    BY <1>3, <1>5
  <2> HIDE DEF k
  <2>2. CASE X = {}
    BY <2>1, <2>2 DEF SumsUp
  <2>3. CASE X # {}
    <3>1. Less(X) \in SUBSET V /\ Less(X) # V
      BY <1>4, <2>3
    <3> DEFINE l == Of(Less(X))
    <3>2. SumsUp(l, Less(X), a)
      BY <1>3, <3>1
    <3> HIDE DEF l
    <3>3. k[Less(X)] = l[Less(X)]
      BY <2>1, <3>1, <3>2, SumsUpAgree
    <3>4. k[X] = a[Taken(X)] + k[Less(X)]
      BY <2>1, <2>3 DEF SumsUp
    <3>5. g[X] = a[Taken(X)] + l[Less(X)]
      BY <2>3 DEF l
    <3> QED BY <3>3, <3>4, <3>5 DEF k
  <2> QED BY <2>2, <2>3 DEF k
<1>6. SumsUp(g, V, a)
  <2>1. \A W \in SUBSET V : W # {} => g[Less(W)] = Of(Less(W))[Less(W)]
    BY <1>4, <1>5
  <2>2. g = [W \in SUBSET V |-> IF W = {} THEN 0 ELSE a[Taken(W)] + g[Less(W)]]
    <3> HIDE DEF Less, Of
    <3> QED BY <2>1
  <2> QED BY <2>2 DEF SumsUp
<1> QED BY <1>2, <1>6

\* The library's sum is what SumsUp says.
LEMMA SumIs ==
  ASSUME NEW a, IsFiniteSet(DOMAIN a)
  PROVE  \E h : SumsUp(h, DOMAIN a, a) /\ SumFunction(a) = h[DOMAIN a]
<1> DEFINE Solves(f) == f = [W \in SUBSET (DOMAIN a) |->
                  IF W = {} THEN 0
                  ELSE a[CHOOSE x \in W : TRUE] + f[W \ {CHOOSE x \in W : TRUE}]]
           h == CHOOSE f : Solves(f)
<1>1. SumFunction(a) = h[DOMAIN a]
  BY DEF SumFunction, SumFunctionOnSet, FoldFunctionOnSet, MapThenFoldSet
<1>2. SumsUp(h, DOMAIN a, a)
  <2>1. \A f : Solves(f) <=> SumsUp(f, DOMAIN a, a)
    BY DEF SumsUp, Taken
  <2> HIDE DEF Solves
  <2>2. \E f : Solves(f)
    BY <2>1, SumsUpExists
  <2> QED BY <2>1, <2>2
<1> HIDE DEF h
<1> QED BY <1>1, <1>2

\* One term raised by n raises the sum by n.
LEMMA SumRises ==
  ASSUME NEW S, IsFiniteSet(S), NEW a \in [S -> Nat], NEW b \in [S -> Nat], NEW s \in S,
         NEW n \in Nat, b[s] = a[s] + n, \A x \in S \ {s} : b[x] = a[x]
  PROVE  SumFunction(b) = SumFunction(a) + n /\ SumFunction(a) \in Nat
<1>1. PICK h : SumsUp(h, S, a) /\ SumFunction(a) = h[S]
  BY SumIs
<1>2. PICK k : SumsUp(k, S, b) /\ SumFunction(b) = k[S]
  BY SumIs
<1> DEFINE Right(W) == h[W] \in Nat /\ k[W] = h[W] + (IF s \in W THEN n ELSE 0)
           B == {W \in SUBSET S : ~Right(W)}
<1>3. SUFFICES ASSUME B # {} PROVE FALSE
  <2>1. Right(S)
    BY <1>3
  <2> QED BY <1>1, <1>2, <2>1
<1>4. PICK V \in B : \A W \in B : W \subseteq V => W = V
  <2>1. B \in SUBSET SUBSET S
    OBVIOUS
  <2> HIDE DEF B
  <2> QED BY <1>3, <2>1, HasSmallest
<1>5. V # {}
  BY <1>1, <1>2 DEF SumsUp
<1> DEFINE x == Taken(V)
           W == V \ {x}
<1>6. x \in V /\ x \in S
  BY <1>5, TakenIn
<1>7. Right(W)
  BY <1>4, <1>6
<1>8. h[V] = a[x] + h[W] /\ k[V] = b[x] + k[W]
  BY <1>1, <1>2, <1>5 DEF SumsUp
<1>9. a[x] \in Nat /\ b[x] = a[x] + (IF x = s THEN n ELSE 0)
  BY <1>6
<1>10. IF s \in V THEN s = x \/ s \in W ELSE s # x /\ s \notin W
  BY <1>6
<1>11. ~(s = x /\ s \in W)
  OBVIOUS
<1> HIDE DEF x, W
<1>12. Right(V)
  BY <1>7, <1>8, <1>9, <1>10, <1>11
<1> QED BY <1>4, <1>12

\* Zeros sum up to zero.
LEMMA SumOfNothing ==
  ASSUME NEW S, IsFiniteSet(S), NEW a \in [S -> {0}]
  PROVE  SumFunction(a) = 0
<1>1. PICK h : SumsUp(h, S, a) /\ SumFunction(a) = h[S]
  BY SumIs
<1> DEFINE B == {W \in SUBSET S : h[W] # 0}
<1>3. SUFFICES ASSUME B # {} PROVE FALSE
  BY <1>1
<1>4. PICK V \in B : \A W \in B : W \subseteq V => W = V
  <2>1. B \in SUBSET SUBSET S
    OBVIOUS
  <2> HIDE DEF B
  <2> QED BY <1>3, <2>1, HasSmallest
<1>5. V # {}
  BY <1>1 DEF SumsUp
<1>6. Taken(V) \in V
  BY <1>5, TakenIn
<1>7. h[V \ {Taken(V)}] = 0
  BY <1>4, <1>6
<1>8. h[V] = a[Taken(V)] + h[V \ {Taken(V)}]
  BY <1>1, <1>5 DEF SumsUp
<1> QED BY <1>4, <1>6, <1>7, <1>8
=============================================================================
