----------------------------- MODULE FiniteSums -----------------------------
(***************************************************************************)
(* Facts about SumFunction over finite index sets, for proofs.             *)
(***************************************************************************)
EXTENDS Integers, Functions, FiniteSets, FiniteSetTheorems, TLAPS

\* The order of the naturals as a relation.
Less == {ss \in Nat \X Nat : ss[1] < ss[2]}

\* Every set of naturals has a least element.
LEMMA LeastNatural ==
    ASSUME NEW T \in SUBSET Nat, T # {}
    PROVE  \E x \in T : \A y \in T : x <= y
<1>1. IsWellFoundedOn(Less, Nat)
  <2>1. IsWellFoundedOn({ss \in Nat \X Nat : ss[1] < ss[2]}, Nat)
    BY NatLessThanWellFounded DEF OpToRel
  <2> QED
    BY <2>1 DEF Less
<1>2. PICK x \in T : \A y \in T : ~ (<<y, x>> \in Less)
  BY <1>1, WFMin
<1>3. ASSUME NEW y \in T PROVE x <= y
  <2>1. x \in Nat /\ y \in Nat /\ ~(y < x)
    BY <1>2 DEF Less
  <2> QED BY <2>1
<1> QED
  BY <1>2, <1>3

\* The element a fold takes next, and the equation the fold is a solution of.
Pick(s) == CHOOSE x \in s : TRUE

Unfolds(g, fun, S) ==
    g = [s \in SUBSET S |-> IF s = {} THEN 0 ELSE fun[Pick(s)] + g[s \ {Pick(s)}]]

\* SumFunctionOnSet is the value of that solution at the whole set.
LEMMA SumByUnfolding ==
    ASSUME NEW fun, NEW S
    PROVE  SumFunctionOnSet(fun, S) = (CHOOSE g : Unfolds(g, fun, S))[S]
  BY DEF SumFunctionOnSet, FoldFunctionOnSet, MapThenFoldSet, Unfolds, Pick

\* The next element of a set is an element, and the set without it is smaller.
LEMMA PickSmaller ==
    ASSUME NEW s, IsFiniteSet(s), s # {}
    PROVE  /\ Pick(s) \in s
           /\ IsFiniteSet(s \ {Pick(s)})
           /\ Cardinality(s) \in Nat /\ Cardinality(s \ {Pick(s)}) \in Nat
           /\ Cardinality(s) = Cardinality(s \ {Pick(s)}) + 1
<1>1. Pick(s) \in s
  BY DEF Pick
<1>2. /\ IsFiniteSet(s \ {Pick(s)})
      /\ Cardinality(s \ {Pick(s)}) = Cardinality(s) - 1
  BY <1>1, FS_RemoveElement
<1> QED
  BY <1>1, <1>2, FS_CardinalityType

\* The recursion of a fold over a finite set has a solution: it is built up on
\* the subsets of at most n elements.
LEMMA UnfoldingExists ==
    ASSUME NEW fun, NEW S, IsFiniteSet(S)
    PROVE  \E g : Unfolds(g, fun, S)
<1> DEFINE Small(n) == {s \in SUBSET S : Cardinality(s) <= n}
           Solves(g, n) == /\ DOMAIN g = Small(n)
                           /\ \A s \in Small(n) :
                                g[s] = IF s = {} THEN 0 ELSE fun[Pick(s)] + g[s \ {Pick(s)}]
           Bad == {n \in Nat : ~ \E g : Solves(g, n)}
<1>1. \A s \in SUBSET S : IsFiniteSet(s) /\ Cardinality(s) \in Nat
  BY FS_Subset, FS_CardinalityType
<1>2. Bad = {}
  <2> SUFFICES ASSUME Bad # {} PROVE FALSE
    OBVIOUS
  <2>1. PICK n \in Bad : \A m \in Bad : n <= m
    BY LeastNatural
  <2>2. n \in Nat
    BY <2>1
  <2>3. CASE n = 0
    <3>1. \A s \in Small(0) : s = {}
      BY <1>1, FS_EmptySet
    <3>2. Solves([s \in Small(0) |-> 0], 0)
      BY <3>1
    <3> QED
      BY <2>1, <2>3, <3>2
  <2>4. CASE n # 0
    <3>1. n - 1 \in Nat /\ n - 1 \notin Bad
      <4>1. n - 1 \in Nat /\ ~(n <= n - 1)
        BY <2>2, <2>4
      <4> HIDE DEF Bad
      <4> QED
        BY <2>1, <4>1
    <3>2. PICK g : Solves(g, n - 1)
      BY <3>1
    <3> DEFINE h == [s \in Small(n) |->
                       IF s = {} THEN 0 ELSE fun[Pick(s)] + g[s \ {Pick(s)}]]
    <3>3. ASSUME NEW s \in Small(n), s # {} PROVE s \ {Pick(s)} \in Small(n - 1)
      <4>1. s \in SUBSET S /\ Cardinality(s) <= n
        OBVIOUS
      <4>2. Cardinality(s) = Cardinality(s \ {Pick(s)}) + 1
            /\ Cardinality(s \ {Pick(s)}) \in Nat
        BY <1>1, <3>3, <4>1, PickSmaller
      <4> QED
        BY <2>2, <4>1, <4>2
    <3>4. ASSUME NEW s \in Small(n - 1) PROVE s \in Small(n) /\ h[s] = g[s]
      <4>1. s \in Small(n)
        BY <1>1, <2>2
      <4> QED
        BY <3>2, <4>1
    <3>5. Solves(h, n)
      <4>1. DOMAIN h = Small(n)
        OBVIOUS
      <4>2. ASSUME NEW s \in Small(n)
            PROVE  h[s] = IF s = {} THEN 0 ELSE fun[Pick(s)] + h[s \ {Pick(s)}]
        <5>1. CASE s = {}
          BY <5>1
        <5>2. CASE s # {}
          <6>1. h[s \ {Pick(s)}] = g[s \ {Pick(s)}]
            BY <3>3, <3>4, <5>2
          <6> QED
            BY <5>2, <6>1
        <5> QED
          BY <5>1, <5>2
      <4> HIDE DEF h, Small
      <4> QED
        BY <4>1, <4>2
    <3> QED
      BY <2>1, <3>5
  <2> QED
    BY <2>3, <2>4
<1>3. PICK g : Solves(g, Cardinality(S))
  BY <1>1, <1>2
<1>4. Small(Cardinality(S)) = SUBSET S
  BY FS_Subset
<1> DEFINE h == [s \in SUBSET S |-> IF s = {} THEN 0 ELSE fun[Pick(s)] + g[s \ {Pick(s)}]]
<1>5. \A s \in SUBSET S : g[s] = h[s]
  BY <1>3, <1>4
<1>6. ASSUME NEW s \in SUBSET S
      PROVE  h[s] = IF s = {} THEN 0 ELSE fun[Pick(s)] + h[s \ {Pick(s)}]
  <2>1. s \ {Pick(s)} \in SUBSET S
    OBVIOUS
  <2>2. g[s \ {Pick(s)}] = h[s \ {Pick(s)}]
    BY <1>5, <2>1
  <2> QED
    BY <2>2
<1>7. h = [s \in SUBSET S |-> IF s = {} THEN 0 ELSE fun[Pick(s)] + h[s \ {Pick(s)}]]
  <2>1. h = [s \in SUBSET S |-> h[s]]
    OBVIOUS
  <2> HIDE DEF h
  <2> QED
    BY <1>6, <2>1
<1> QED
  BY <1>7 DEF Unfolds

\* Two solutions agree on every finite set in both their domains.
LEMMA UnfoldingUnique ==
    ASSUME NEW fun, NEW S, NEW T, NEW g, NEW h, Unfolds(g, fun, S), Unfolds(h, fun, T),
           NEW r, r \subseteq S, r \subseteq T, IsFiniteSet(r)
    PROVE  g[r] = h[r]
<1> DEFINE Bad == {n \in Nat : \E s \in SUBSET r : Cardinality(s) = n /\ g[s] # h[s]}
<1>1. \A s \in SUBSET r : IsFiniteSet(s) /\ Cardinality(s) \in Nat
  BY FS_Subset, FS_CardinalityType
<1>2. /\ \A s \in SUBSET r : g[s] = IF s = {} THEN 0 ELSE fun[Pick(s)] + g[s \ {Pick(s)}]
      /\ \A s \in SUBSET r : h[s] = IF s = {} THEN 0 ELSE fun[Pick(s)] + h[s \ {Pick(s)}]
  <2>1. \A s \in SUBSET r : s \in SUBSET S /\ s \in SUBSET T
    OBVIOUS
  <2> QED
    BY <2>1 DEF Unfolds
<1>3. Bad = {}
  <2> SUFFICES ASSUME Bad # {} PROVE FALSE
    OBVIOUS
  <2>1. PICK n \in Bad : \A m \in Bad : n <= m
    BY LeastNatural
  <2>2. PICK s \in SUBSET r : Cardinality(s) = n /\ g[s] # h[s]
    BY <2>1
  <2>3. s # {}
    BY <1>2, <2>2
  <2>4. /\ s \ {Pick(s)} \in SUBSET r
        /\ Cardinality(s \ {Pick(s)}) \in Nat
        /\ n = Cardinality(s \ {Pick(s)}) + 1
    BY <1>1, <2>2, <2>3, PickSmaller
  <2>5. Cardinality(s \ {Pick(s)}) \notin Bad
    <3>1. ~(n <= Cardinality(s \ {Pick(s)}))
      BY <2>4
    <3> HIDE DEF Bad
    <3> QED
      BY <2>1, <3>1
  <2>6. g[s \ {Pick(s)}] = h[s \ {Pick(s)}]
    BY <2>4, <2>5
  <2> QED
    BY <1>2, <2>2, <2>3, <2>6
<1> QED
  BY <1>1, <1>3

\* The equations of a sum over a finite set.
LEMMA SumUnfold ==
    ASSUME NEW fun, NEW S, IsFiniteSet(S)
    PROVE  /\ SumFunctionOnSet(fun, {}) = 0
           /\ S # {} => SumFunctionOnSet(fun, S)
                          = fun[Pick(S)] + SumFunctionOnSet(fun, S \ {Pick(S)})
<1> DEFINE sol(T) == CHOOSE g : Unfolds(g, fun, T)
<1>1. ASSUME NEW T, IsFiniteSet(T)
      PROVE  Unfolds(sol(T), fun, T) /\ SumFunctionOnSet(fun, T) = sol(T)[T]
  BY <1>1, UnfoldingExists, SumByUnfolding
<1> HIDE DEF sol
<1>2. SumFunctionOnSet(fun, {}) = 0
  <2>1. Unfolds(sol({}), fun, {}) /\ SumFunctionOnSet(fun, {}) = sol({})[{}]
    BY <1>1, FS_EmptySet
  <2> QED
    BY <2>1 DEF Unfolds
<1>3. ASSUME S # {}
      PROVE  SumFunctionOnSet(fun, S) = fun[Pick(S)] + SumFunctionOnSet(fun, S \ {Pick(S)})
  <2>1. PICK T : T = S \ {Pick(S)}
    OBVIOUS
  <2>2. IsFiniteSet(T)
    BY <1>3, <2>1, PickSmaller
  <2>3. /\ Unfolds(sol(S), fun, S) /\ SumFunctionOnSet(fun, S) = sol(S)[S]
        /\ Unfolds(sol(T), fun, T) /\ SumFunctionOnSet(fun, T) = sol(T)[T]
    BY <1>1, <2>2
  <2>4. sol(S)[S] = fun[Pick(S)] + sol(S)[T]
    <3>1. S \in SUBSET S
      OBVIOUS
    <3> QED
      BY <1>3, <2>1, <2>3, <3>1 DEF Unfolds
  <2>5. sol(S)[T] = sol(T)[T]
    <3>1. T \subseteq S /\ T \subseteq T
      BY <2>1
    <3> QED
      BY <2>2, <2>3, <3>1, UnfoldingUnique
  <2> QED
    BY <2>1, <2>3, <2>4, <2>5
<1> QED
  BY <1>2, <1>3

-----------------------------------------------------------------------------
(* Sums of naturals *)

\* A sum of naturals is a natural.
LEMMA SumOnSetNat ==
    ASSUME NEW fun, NEW S, IsFiniteSet(S), \A x \in S : fun[x] \in Nat
    PROVE  SumFunctionOnSet(fun, S) \in Nat
<1> DEFINE Bad == {n \in Nat : \E s \in SUBSET S : /\ Cardinality(s) = n
                                                   /\ SumFunctionOnSet(fun, s) \notin Nat}
<1>1. \A s \in SUBSET S : IsFiniteSet(s) /\ Cardinality(s) \in Nat
  BY FS_Subset, FS_CardinalityType
<1>2. Bad = {}
  <2> SUFFICES ASSUME Bad # {} PROVE FALSE
    OBVIOUS
  <2>1. PICK n \in Bad : \A m \in Bad : n <= m
    BY LeastNatural
  <2>2. PICK s \in SUBSET S : Cardinality(s) = n /\ SumFunctionOnSet(fun, s) \notin Nat
    BY <2>1
  <2>3. s # {}
    <3>1. SumFunctionOnSet(fun, {}) = 0
      BY FS_EmptySet, SumUnfold
    <3> QED
      BY <2>2, <3>1
  <2>4. /\ s \ {Pick(s)} \in SUBSET S /\ Pick(s) \in S
        /\ Cardinality(s \ {Pick(s)}) \in Nat
        /\ n = Cardinality(s \ {Pick(s)}) + 1
    BY <1>1, <2>2, <2>3, PickSmaller
  <2>5. Cardinality(s \ {Pick(s)}) \notin Bad
    <3>1. ~(n <= Cardinality(s \ {Pick(s)}))
      BY <2>4
    <3> HIDE DEF Bad
    <3> QED
      BY <2>1, <3>1
  <2>6. SumFunctionOnSet(fun, s \ {Pick(s)}) \in Nat
    BY <2>4, <2>5
  <2>7. SumFunctionOnSet(fun, s) = fun[Pick(s)] + SumFunctionOnSet(fun, s \ {Pick(s)})
    BY <1>1, <2>3, SumUnfold
  <2> QED
    BY <2>2, <2>4, <2>6, <2>7
<1> QED
  BY <1>1, <1>2

\* Any one index may be summed last.
LEMMA SumOnSetSplit ==
    ASSUME NEW fun, NEW S, IsFiniteSet(S), \A x \in S : fun[x] \in Nat, NEW i \in S
    PROVE  SumFunctionOnSet(fun, S) = fun[i] + SumFunctionOnSet(fun, S \ {i})
<1> DEFINE Splits(s, j) == SumFunctionOnSet(fun, s) = fun[j] + SumFunctionOnSet(fun, s \ {j})
           Bad == {n \in Nat : \E s \in SUBSET S : /\ Cardinality(s) = n
                                                   /\ \E j \in s : ~Splits(s, j)}
<1>1. \A s \in SUBSET S : IsFiniteSet(s) /\ Cardinality(s) \in Nat
  BY FS_Subset, FS_CardinalityType
<1>2. Bad = {}
  <2> SUFFICES ASSUME Bad # {} PROVE FALSE
    OBVIOUS
  <2>1. PICK n \in Bad : \A m \in Bad : n <= m
    BY LeastNatural
  <2>2. PICK s \in SUBSET S : Cardinality(s) = n /\ \E j \in s : ~Splits(s, j)
    BY <2>1
  <2>3. PICK j \in s : ~Splits(s, j)
    BY <2>2
  <2>4. PICK c : c = Pick(s)
    OBVIOUS
  <2>5. /\ c \in s /\ s # {}
        /\ SumFunctionOnSet(fun, s) = fun[c] + SumFunctionOnSet(fun, s \ {c})
    BY <1>1, <2>3, <2>4, PickSmaller, SumUnfold
  <2>6. j # c
    BY <2>3, <2>5
  <2>7. ASSUME NEW k \in s, NEW l \in s, k # l PROVE Splits(s \ {k}, l)
    <3>1. s \ {k} \in SUBSET S /\ l \in s \ {k}
      BY <2>7
    <3>2. Cardinality(s \ {k}) \in Nat /\ Cardinality(s \ {k}) = n - 1
      BY <1>1, <2>2, <2>7, <3>1, FS_RemoveElement
    <3>3. ~(n <= Cardinality(s \ {k}))
      BY <3>2
    <3>4. Cardinality(s \ {k}) \notin Bad
      <4> HIDE DEF Bad
      <4> QED
        BY <2>1, <3>3
    <3> HIDE DEF Splits
    <3> QED
      BY <3>1, <3>2, <3>4
  <2>8. SumFunctionOnSet(fun, s \ {c}) = fun[j] + SumFunctionOnSet(fun, (s \ {c}) \ {j})
    BY <2>3, <2>5, <2>6, <2>7
  <2>9. SumFunctionOnSet(fun, s \ {j}) = fun[c] + SumFunctionOnSet(fun, (s \ {j}) \ {c})
    BY <2>3, <2>5, <2>6, <2>7
  <2>10. (s \ {c}) \ {j} = (s \ {j}) \ {c}
    OBVIOUS
  <2>11. /\ fun[c] \in Nat /\ fun[j] \in Nat
         /\ SumFunctionOnSet(fun, (s \ {c}) \ {j}) \in Nat
    <3>1. /\ IsFiniteSet((s \ {c}) \ {j})
          /\ \A x \in (s \ {c}) \ {j} : fun[x] \in Nat
      BY <1>1
    <3> QED
      BY <2>3, <2>5, <3>1, SumOnSetNat
  <2>12. Splits(s, j)
    <3>1. PICK rest \in Nat : rest = SumFunctionOnSet(fun, (s \ {c}) \ {j})
      BY <2>11
    <3>2. SumFunctionOnSet(fun, s) = fun[c] + (fun[j] + rest)
      BY <2>5, <2>8, <3>1
    <3>3. SumFunctionOnSet(fun, s \ {j}) = fun[c] + rest
      BY <2>9, <2>10, <3>1
    <3>4. fun[c] + (fun[j] + rest) = fun[j] + (fun[c] + rest)
      BY <2>11
    <3> QED
      BY <3>2, <3>3, <3>4
  <2> QED
    BY <2>3, <2>12
<1> HIDE DEF Splits
<1>3. Splits(S, i)
  BY <1>1, <1>2
<1> QED
  BY <1>3 DEF Splits

\* A sum is monotone in its terms; in particular it depends on nothing else.
LEMMA SumOnSetMonotone ==
    ASSUME NEW f, NEW g, NEW S, IsFiniteSet(S),
           \A x \in S : f[x] \in Nat /\ g[x] \in Nat /\ f[x] <= g[x]
    PROVE  SumFunctionOnSet(f, S) <= SumFunctionOnSet(g, S)
<1> DEFINE Ok(s) == SumFunctionOnSet(f, s) <= SumFunctionOnSet(g, s)
           Bad == {n \in Nat : \E s \in SUBSET S : Cardinality(s) = n /\ ~Ok(s)}
<1>1. \A s \in SUBSET S : IsFiniteSet(s) /\ Cardinality(s) \in Nat
  BY FS_Subset, FS_CardinalityType
<1>2. Bad = {}
  <2> SUFFICES ASSUME Bad # {} PROVE FALSE
    OBVIOUS
  <2>1. PICK n \in Bad : \A m \in Bad : n <= m
    BY LeastNatural
  <2>2. PICK s \in SUBSET S : Cardinality(s) = n /\ ~Ok(s)
    BY <2>1
  <2>3. s # {}
    <3>1. SumFunctionOnSet(f, {}) = 0 /\ SumFunctionOnSet(g, {}) = 0
      BY FS_EmptySet, SumUnfold
    <3> QED
      BY <2>2, <3>1
  <2>4. PICK c : c = Pick(s)
    OBVIOUS
  <2>5. /\ s \ {c} \in SUBSET S /\ c \in S
        /\ Cardinality(s \ {c}) \in Nat
        /\ n = Cardinality(s \ {c}) + 1
    BY <1>1, <2>2, <2>3, <2>4, PickSmaller
  <2>6. Cardinality(s \ {c}) \notin Bad
    <3>1. ~(n <= Cardinality(s \ {c}))
      BY <2>5
    <3> HIDE DEF Bad
    <3> QED
      BY <2>1, <3>1
  <2>7. SumFunctionOnSet(f, s \ {c}) <= SumFunctionOnSet(g, s \ {c})
    BY <2>5, <2>6
  <2>8. /\ SumFunctionOnSet(f, s) = f[c] + SumFunctionOnSet(f, s \ {c})
        /\ SumFunctionOnSet(g, s) = g[c] + SumFunctionOnSet(g, s \ {c})
    BY <1>1, <2>3, <2>4, SumUnfold
  <2>9. /\ SumFunctionOnSet(f, s \ {c}) \in Nat /\ SumFunctionOnSet(g, s \ {c}) \in Nat
    BY <1>1, <2>5, SumOnSetNat
  <2> QED
    BY <2>2, <2>5, <2>7, <2>8, <2>9
<1> QED
  BY <1>1, <1>2

-----------------------------------------------------------------------------
(* Sums over the whole domain *)

\* The sum of a function with natural values; no term exceeds it.
LEMMA SumNat ==
    ASSUME NEW S, IsFiniteSet(S), NEW f \in [S -> Nat]
    PROVE  /\ SumFunction(f) \in Nat
           /\ \A i \in S : f[i] <= SumFunction(f)
<1>1. SumFunction(f) = SumFunctionOnSet(f, S)
  BY DEF SumFunction
<1>2. SumFunctionOnSet(f, S) \in Nat
  BY SumOnSetNat
<1>3. ASSUME NEW i \in S PROVE f[i] <= SumFunctionOnSet(f, S)
  <2>1. SumFunctionOnSet(f, S) = f[i] + SumFunctionOnSet(f, S \ {i})
    BY SumOnSetSplit
  <2>2. IsFiniteSet(S \ {i})
    BY FS_RemoveElement
  <2>3. SumFunctionOnSet(f, S \ {i}) \in Nat
    BY <2>2, SumOnSetNat
  <2> QED
    BY <1>2, <2>1, <2>3
<1> QED
  BY <1>1, <1>2, <1>3

\* Smaller terms have a smaller sum.
LEMMA SumMonotone ==
    ASSUME NEW S, IsFiniteSet(S), NEW f \in [S -> Nat], NEW g \in [S -> Nat],
           \A i \in S : f[i] <= g[i]
    PROVE  SumFunction(f) <= SumFunction(g)
  BY SumOnSetMonotone DEF SumFunction

\* The sum of zeros.
LEMMA SumZero ==
    ASSUME NEW S, IsFiniteSet(S), NEW f \in [S -> Nat], \A i \in S : f[i] = 0
    PROVE  SumFunction(f) = 0
<1> DEFINE Bad == {n \in Nat : \E s \in SUBSET S : /\ Cardinality(s) = n
                                                   /\ SumFunctionOnSet(f, s) # 0}
<1>1. \A s \in SUBSET S : IsFiniteSet(s) /\ Cardinality(s) \in Nat
  BY FS_Subset, FS_CardinalityType
<1>2. Bad = {}
  <2> SUFFICES ASSUME Bad # {} PROVE FALSE
    OBVIOUS
  <2>1. PICK n \in Bad : \A m \in Bad : n <= m
    BY LeastNatural
  <2>2. PICK s \in SUBSET S : Cardinality(s) = n /\ SumFunctionOnSet(f, s) # 0
    BY <2>1
  <2>3. s # {}
    <3>1. SumFunctionOnSet(f, {}) = 0
      BY FS_EmptySet, SumUnfold
    <3> QED
      BY <2>2, <3>1
  <2>4. /\ s \ {Pick(s)} \in SUBSET S /\ Pick(s) \in S
        /\ Cardinality(s \ {Pick(s)}) \in Nat
        /\ n = Cardinality(s \ {Pick(s)}) + 1
    BY <1>1, <2>2, <2>3, PickSmaller
  <2>5. Cardinality(s \ {Pick(s)}) \notin Bad
    <3>1. ~(n <= Cardinality(s \ {Pick(s)}))
      BY <2>4
    <3> HIDE DEF Bad
    <3> QED
      BY <2>1, <3>1
  <2>6. SumFunctionOnSet(f, s \ {Pick(s)}) = 0
    BY <2>4, <2>5
  <2>7. SumFunctionOnSet(f, s) = f[Pick(s)] + SumFunctionOnSet(f, s \ {Pick(s)})
    BY <1>1, <2>3, SumUnfold
  <2> QED
    BY <2>2, <2>4, <2>6, <2>7
<1>3. SumFunctionOnSet(f, S) = 0
  BY <1>1, <1>2
<1> QED
  BY <1>3 DEF SumFunction

\* Terms that agree on a set have the same sum over it.
LEMMA SumOnSetSame ==
    ASSUME NEW f, NEW g, NEW S, IsFiniteSet(S), \A x \in S : f[x] \in Nat /\ f[x] = g[x]
    PROVE  SumFunctionOnSet(f, S) = SumFunctionOnSet(g, S)
<1>1. /\ \A x \in S : f[x] \in Nat /\ g[x] \in Nat /\ f[x] <= g[x]
      /\ \A x \in S : f[x] \in Nat /\ g[x] \in Nat /\ g[x] <= f[x]
  OBVIOUS
<1>2. SumFunctionOnSet(f, S) <= SumFunctionOnSet(g, S)
  BY <1>1, SumOnSetMonotone
<1>3. SumFunctionOnSet(g, S) <= SumFunctionOnSet(f, S)
  BY <1>1, SumOnSetMonotone
<1>4. SumFunctionOnSet(f, S) \in Nat /\ SumFunctionOnSet(g, S) \in Nat
  BY <1>1, SumOnSetNat
<1> QED
  BY <1>2, <1>3, <1>4

\* When one term changes, the sum changes by as much.
LEMMA SumChange ==
    ASSUME NEW S, IsFiniteSet(S), NEW f \in [S -> Nat], NEW g \in [S -> Nat], NEW i \in S,
           \A j \in S : j # i => g[j] = f[j]
    PROVE  SumFunction(g) = (SumFunction(f) - f[i]) + g[i]
<1>1. IsFiniteSet(S \ {i})
  BY FS_RemoveElement
<1>2. PICK rest \in Nat : rest = SumFunctionOnSet(f, S \ {i})
  BY <1>1, SumOnSetNat
<1>3. SumFunctionOnSet(g, S \ {i}) = rest
  BY <1>1, <1>2, SumOnSetSame
<1>4. SumFunctionOnSet(f, S) = f[i] + rest
  BY <1>2, SumOnSetSplit
<1>5. SumFunctionOnSet(g, S) = g[i] + rest
  BY <1>3, SumOnSetSplit
<1>6. f[i] \in Nat /\ g[i] \in Nat
  OBVIOUS
<1> QED
  BY <1>4, <1>5, <1>6 DEF SumFunction

\* A new index adds its term.
LEMMA SumExtend ==
    ASSUME NEW S, IsFiniteSet(S), NEW f \in [S -> Nat], NEW i, i \notin S,
           NEW g \in [S \cup {i} -> Nat], \A j \in S : g[j] = f[j]
    PROVE  SumFunction(g) = SumFunction(f) + g[i]
<1>1. IsFiniteSet(S \cup {i}) /\ (S \cup {i}) \ {i} = S /\ i \in S \cup {i}
  BY FS_AddElement
<1>2. PICK rest \in Nat : rest = SumFunctionOnSet(f, S)
  BY SumOnSetNat
<1>3. SumFunctionOnSet(g, S) = rest
  BY <1>2, SumOnSetSame
<1>4. SumFunctionOnSet(g, S \cup {i}) = g[i] + rest
  <2>1. SumFunctionOnSet(g, S \cup {i}) = g[i] + SumFunctionOnSet(g, (S \cup {i}) \ {i})
    BY <1>1, SumOnSetSplit
  <2> QED
    BY <1>1, <1>3, <2>1
<1>5. g[i] \in Nat
  BY <1>1
<1> QED
  BY <1>2, <1>4, <1>5 DEF SumFunction

\* Terms moved to other indices, each to one of its own, have the same sum.
LEMMA SumReindex ==
    ASSUME NEW R, IsFiniteSet(R), NEW S, IsFiniteSet(S),
           NEW h \in [R -> Nat], NEW key \in [R -> S], NEW f \in [S -> Nat],
           \A s, t \in R : key[s] = key[t] => s = t,
           \A s \in R : f[key[s]] = h[s],
           \A a \in S : (\A s \in R : key[s] # a) => f[a] = 0
    PROVE  SumFunction(f) = SumFunction(h)
<1> DEFINE Part(r) == [a \in S |-> IF \E s \in r : key[s] = a THEN f[a] ELSE 0]
           Ok(r) == SumFunction(Part(r)) = SumFunctionOnSet(h, r)
           Bad == {n \in Nat : \E r \in SUBSET R : Cardinality(r) = n /\ ~Ok(r)}
<1>1. \A r \in SUBSET R : IsFiniteSet(r) /\ Cardinality(r) \in Nat
  BY FS_Subset, FS_CardinalityType
<1>2. \A r \in SUBSET R : Part(r) \in [S -> Nat]
  OBVIOUS
<1>3. Bad = {}
  <2> SUFFICES ASSUME Bad # {} PROVE FALSE
    OBVIOUS
  <2>1. PICK n \in Bad : \A m \in Bad : n <= m
    BY LeastNatural
  <2>2. PICK r \in SUBSET R : Cardinality(r) = n /\ ~Ok(r)
    BY <2>1
  <2>3. r # {}
    <3>1. SumFunctionOnSet(h, {}) = 0
      BY FS_EmptySet, SumUnfold
    <3>2. SumFunction(Part({})) = 0
      <4>1. Part({}) \in [S -> Nat] /\ \A a \in S : Part({})[a] = 0
        OBVIOUS
      <4> HIDE DEF Part
      <4> QED
        BY <4>1, SumZero
    <3> QED
      BY <2>2, <3>1, <3>2
  <2>4. PICK c : c = Pick(r)
    OBVIOUS
  <2>5. PICK q : q = r \ {c}
    OBVIOUS
  <2>6. /\ q \in SUBSET R /\ c \in R /\ c \in r /\ c \notin q /\ r = q \cup {c}
        /\ Cardinality(q) \in Nat
        /\ n = Cardinality(q) + 1
    BY <1>1, <2>2, <2>3, <2>4, <2>5, PickSmaller
  <2>7. Cardinality(q) \notin Bad
    <3>1. ~(n <= Cardinality(q))
      BY <2>6
    <3> HIDE DEF Bad
    <3> QED
      BY <2>1, <2>6, <3>1
  <2>8. Ok(q)
    <3> HIDE DEF Ok
    <3> QED
      BY <2>6, <2>7
  <2>9. SumFunctionOnSet(h, r) = h[c] + SumFunctionOnSet(h, q)
    BY <1>1, <2>3, <2>4, <2>5, SumUnfold
  <2>10. SumFunction(Part(r)) = (SumFunction(Part(q)) - 0) + h[c]
    <3>1. key[c] \in S /\ Part(q)[key[c]] = 0 /\ Part(r)[key[c]] = h[c]
      <4>1. ~ \E s \in q : key[s] = key[c]
        BY <2>6
      <4> QED
        BY <2>6, <4>1
    <3>2. \A a \in S : a # key[c] => Part(r)[a] = Part(q)[a]
      BY <2>6
    <3>3. Part(r) \in [S -> Nat] /\ Part(q) \in [S -> Nat]
      BY <1>2, <2>6
    <3> HIDE DEF Part
    <3> QED
      BY <3>1, <3>2, <3>3, SumChange
  <2>11. SumFunction(Part(q)) \in Nat /\ h[c] \in Nat
    BY <1>2, <2>6, SumNat
  <2> HIDE DEF Part
  <2> QED
    BY <2>2, <2>8, <2>9, <2>10, <2>11
<1>4. Ok(R)
  <2> HIDE DEF Ok
  <2> QED
    BY <1>1, <1>3
<1>5. Part(R) = f
  <2>1. \A a \in S : Part(R)[a] = f[a]
    OBVIOUS
  <2> QED
    BY <2>1
<1>6. SumFunction(h) = SumFunctionOnSet(h, R)
  BY DEF SumFunction
<1> HIDE DEF Part
<1> QED
  BY <1>4, <1>5, <1>6
=============================================================================
