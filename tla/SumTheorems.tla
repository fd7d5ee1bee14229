----------------------------- MODULE SumTheorems -----------------------------
(***************************************************************************)
(* What a sum over a finite set is, for every set and every function: the   *)
(* ledgers' proofs (PaymentsProofs, EntitlementsProofs) rest on it.         *)
(*                                                                         *)
(* SumFunctionOnSet picks a function that satisfies a recursive equation.   *)
(* That there is one, and what its values are, is shown here by descent: of  *)
(* the subsets that refute a statement one is smallest, and the statement   *)
(* holds for everything smaller.                                           *)
(***************************************************************************)
EXTENDS Functions, FiniteSetTheorems, WellFoundedInduction, TLAPS

\* The equation of SumFunctionOnSet: take some element out, add it to the rest.
IsSum(g, f, S) ==
    g = [s \in SUBSET S |-> IF s = {} THEN 0
                            ELSE LET x == CHOOSE x \in s : TRUE
                                 IN  f[x] + g[s \ {x}]]

\* The same, for one subset.
SumStep(g, f, s) ==
    IF s = {} THEN 0
    ELSE f[CHOOSE x \in s : TRUE] + g[s \ {CHOOSE x \in s : TRUE}]

\* Two functions that a sum over T cannot tell apart.
AgreeOn(f, h, T) == \A x \in T : f[x] = h[x]

-----------------------------------------------------------------------------
(* Descent                                                                   *)

\* A set of natural numbers that is not empty has a least element.
LEMMA LeastNumber ==
    ASSUME NEW T \in SUBSET Nat, T # {}
    PROVE  \E n \in T : \A m \in T : n <= m
<1> DEFINE less == {ss \in Nat \X Nat : ss[1] < ss[2]}
<1>1. \A x, y \in Nat : x < y => <<x, y>> \in less
  OBVIOUS
<1>2. IsWellFoundedOn(less, Nat)
  BY NatLessThanWellFounded DEF OpToRel
<1> HIDE DEF less
<1>3. PICK n \in T : \A m \in T : ~(<<m, n>> \in less)
  BY <1>2, WFMin
<1>4. \A m \in T : ~(m < n)
  BY <1>1, <1>3
<1>5. \A m \in T : m \in Nat /\ n \in Nat
  OBVIOUS
<1>6. \A m \in T : n <= m
  BY <1>4, <1>5
<1> QED BY <1>6

\* Of a family of subsets of a finite set one is smallest: no subset with one
\* element less is in the family.
LEMMA SmallestSubset ==
    ASSUME NEW S, IsFiniteSet(S), NEW Bad \in SUBSET (SUBSET S), Bad # {}
    PROVE  \E s \in Bad : \A x \in s : s \ {x} \notin Bad
<1> DEFINE sizes == {Cardinality(s) : s \in Bad}
<1>1. \A s \in SUBSET S : IsFiniteSet(s) /\ Cardinality(s) \in Nat
  BY FS_Subset, FS_CardinalityType
<1>2. sizes \in SUBSET Nat /\ sizes # {}
  BY <1>1
<1>3. \A s \in Bad : Cardinality(s) \in sizes
  OBVIOUS
<1>4. PICK n \in sizes : \A m \in sizes : n <= m
  <2> HIDE DEF sizes
  <2> QED BY <1>2, LeastNumber
<1>5. PICK s \in Bad : Cardinality(s) = n
  BY <1>4
<1>6. \A x \in s : s \ {x} \notin Bad
  <2> SUFFICES ASSUME NEW x \in s, s \ {x} \in Bad PROVE FALSE
    OBVIOUS
  <2>1. Cardinality(s \ {x}) = Cardinality(s) - 1
    BY <1>1, FS_RemoveElement
  <2>2. Cardinality(s) <= Cardinality(s \ {x})
    BY <1>3, <1>4, <1>5
  <2> HIDE DEF sizes
  <2> QED BY <1>1, <2>1, <2>2
<1> QED BY <1>5, <1>6

-----------------------------------------------------------------------------
(* The equation has a solution                                               *)

\* The library's sum is the value of a chosen solution of its recursive
\* equation.
LEMMA SumUnfolds ==
    ASSUME NEW f, NEW S
    PROVE  SumFunctionOnSet(f, S) = (CHOOSE g : IsSum(g, f, S))[S]
BY DEF SumFunctionOnSet, FoldFunctionOnSet, MapThenFoldSet, IsSum

\* A solution satisfies the recursive equation on every subset.
LEMMA SumEquation ==
    ASSUME NEW f, NEW S, NEW g, IsSum(g, f, S), NEW s \in SUBSET S
    PROVE  g[s] = SumStep(g, f, s)
BY DEF IsSum, SumStep

\* A function that satisfies the equation is a solution.
LEMMA SumIntro ==
    ASSUME NEW f, NEW S, NEW g,
           g = [s \in SUBSET S |-> SumStep(g, f, s)]
    PROVE  IsSum(g, f, S)
BY DEF IsSum, SumStep

\* Solutions up to n elements are extended to n + 1, so there is one for all.
LEMMA SumExists ==
    ASSUME NEW f, NEW S, IsFiniteSet(S)
    PROVE  \E g : IsSum(g, f, S)
<1> DEFINE Upto(n) == {s \in SUBSET S : Cardinality(s) <= n}
           Good(n) == \E g : /\ g = [s \in SUBSET S |-> g[s]]
                             /\ \A s \in Upto(n) : g[s] = SumStep(g, f, s)
           bad == {n \in Nat : ~Good(n)}
<1>1. \A s \in SUBSET S : /\ IsFiniteSet(s)
                          /\ Cardinality(s) \in Nat
                          /\ Cardinality(s) <= Cardinality(S)
                          /\ \A x \in s : Cardinality(s \ {x}) = Cardinality(s) - 1
  BY FS_Subset, FS_CardinalityType, FS_RemoveElement
<1>2. Cardinality(S) \in Nat
  BY FS_CardinalityType
<1>3. Good(0)
  <2> DEFINE g == [s \in SUBSET S |-> 0]
  <2>1. \A s \in Upto(0) : s = {}
    BY <1>1, FS_EmptySet
  <2>2. \A s \in Upto(0) : g[s] = SumStep(g, f, s)
    BY <2>1 DEF SumStep
  <2>3. g = [s \in SUBSET S |-> g[s]]
    OBVIOUS
  <2> HIDE DEF g
  <2> QED BY <2>2, <2>3
<1>4. ASSUME NEW n \in Nat, Good(n) PROVE Good(n + 1)
  <2>1. PICK g : /\ g = [s \in SUBSET S |-> g[s]]
                 /\ \A s \in Upto(n) : g[s] = SumStep(g, f, s)
    BY <1>4
  <2> DEFINE h == [s \in SUBSET S |-> SumStep(g, f, s)]
  <2>2. \A s \in SUBSET S : h[s] = SumStep(g, f, s)
    OBVIOUS
  <2>3. h = [s \in SUBSET S |-> h[s]]
    OBVIOUS
  <2> HIDE DEF h
  <2>4. \A s \in Upto(n) : h[s] = g[s]
    BY <2>1, <2>2
  <2>5. ASSUME NEW s \in Upto(n + 1) PROVE h[s] = SumStep(h, f, s)
    <3>1. CASE s = {}
      BY <2>2, <3>1 DEF SumStep
    <3>2. CASE s # {}
      <4> DEFINE x == CHOOSE x \in s : TRUE
      <4>1. x \in s
        BY <3>2
      <4>2. s \ {x} \in Upto(n)
        <5>1. s \in SUBSET S /\ Cardinality(s) <= n + 1 /\ Cardinality(s) \in Nat
          BY <1>1
        <5>2. Cardinality(s \ {x}) = Cardinality(s) - 1
          BY <1>1, <4>1, <5>1
        <5> HIDE DEF x
        <5> QED BY <5>1, <5>2
      <4>3. h[s \ {x}] = g[s \ {x}]
        BY <2>4, <4>2
      <4>4. h[s] = SumStep(g, f, s)
        BY <2>2
      <4> QED BY <3>2, <4>3, <4>4 DEF SumStep
    <3> QED BY <3>1, <3>2
  <2> HIDE DEF Upto
  <2> QED BY <2>3, <2>5
<1> HIDE DEF Good
<1>5. bad = {}
  <2> SUFFICES ASSUME bad # {} PROVE FALSE
    OBVIOUS
  <2>1. PICK n \in bad : \A m \in bad : n <= m
    <3>1. bad \in SUBSET Nat
      OBVIOUS
    <3> HIDE DEF bad
    <3> QED BY <3>1, LeastNumber
  <2>2. n \in Nat /\ n # 0 /\ ~Good(n)
    BY <1>3
  <2>3. n - 1 \in Nat /\ n - 1 \notin bad
    BY <2>1, <2>2
  <2>4. Good((n - 1) + 1)
    BY <1>4, <2>3
  <2> QED BY <2>2, <2>4
<1>6. Good(Cardinality(S))
  BY <1>2, <1>5
<1>7. PICK g : /\ g = [s \in SUBSET S |-> g[s]]
               /\ \A s \in Upto(Cardinality(S)) : g[s] = SumStep(g, f, s)
  BY <1>6 DEF Good
<1>8. g = [s \in SUBSET S |-> SumStep(g, f, s)]
  <2>1. \A s \in SUBSET S : g[s] = SumStep(g, f, s)
    BY <1>1, <1>7
  <2>2. [s \in SUBSET S |-> g[s]] = [s \in SUBSET S |-> SumStep(g, f, s)]
    BY <2>1
  <2> QED BY <1>7, <2>2
<1> QED BY <1>8, SumIntro

\* On a finite set the library's sum is the value of some solution.
LEMMA SumChosen ==
    ASSUME NEW f, NEW S, IsFiniteSet(S)
    PROVE  \E g : IsSum(g, f, S) /\ SumFunctionOnSet(f, S) = g[S]
<1> DEFINE g == CHOOSE g : IsSum(g, f, S)
<1>1. IsSum(g, f, S)
  BY SumExists
<1>2. SumFunctionOnSet(f, S) = g[S]
  BY SumUnfolds
<1> QED BY <1>1, <1>2

-----------------------------------------------------------------------------
(* Its values                                                                *)

\* Two solutions agree wherever the functions they add up agree.
LEMMA SumsAgree ==
    ASSUME NEW f, NEW h, NEW S, NEW R, NEW T, IsFiniteSet(T),
           T \subseteq S, T \subseteq R,
           AgreeOn(f, h, T),
           NEW a, IsSum(a, f, S), NEW b, IsSum(b, h, R)
    PROVE  a[T] = b[T]
<1> DEFINE bad == {s \in SUBSET T : a[s] # b[s]}
<1>1. \A s \in SUBSET T : a[s] = SumStep(a, f, s) /\ b[s] = SumStep(b, h, s)
  <2> TAKE s \in SUBSET T
  <2>1. s \in SUBSET S /\ s \in SUBSET R
    OBVIOUS
  <2> QED BY <2>1, SumEquation
<1>2. bad = {}
  <2> SUFFICES ASSUME bad # {} PROVE FALSE
    OBVIOUS
  <2>1. PICK s \in bad : \A x \in s : s \ {x} \notin bad
    <3>1. bad \in SUBSET (SUBSET T)
      OBVIOUS
    <3> HIDE DEF bad
    <3> QED BY <3>1, SmallestSubset
  <2>2. s \in SUBSET T /\ a[s] # b[s]
    BY <2>1
  <2>3. s # {}
    BY <1>1, <2>2 DEF SumStep
  <2> DEFINE x == CHOOSE x \in s : TRUE
  <2>4. x \in s /\ f[x] = h[x]
    BY <2>2, <2>3 DEF AgreeOn
  <2>5. a[s \ {x}] = b[s \ {x}]
    BY <2>1, <2>2, <2>4
  <2>6. a[s] = f[x] + a[s \ {x}] /\ b[s] = h[x] + b[s \ {x}]
    BY <1>1, <2>2, <2>3 DEF SumStep
  <2> HIDE DEF x, bad
  <2> QED BY <2>2, <2>4, <2>5, <2>6
<1>3. T \notin bad
  BY <1>2
<1> QED BY <1>3

\* A sum of natural numbers is one.
LEMMA SolutionType ==
    ASSUME NEW f, NEW S, IsFiniteSet(S), \A x \in S : f[x] \in Nat,
           NEW g, IsSum(g, f, S)
    PROVE  \A s \in SUBSET S : g[s] \in Nat
<1> DEFINE bad == {s \in SUBSET S : g[s] \notin Nat}
<1>1. \A s \in SUBSET S : g[s] = SumStep(g, f, s)
  BY SumEquation
<1>2. bad = {}
  <2> SUFFICES ASSUME bad # {} PROVE FALSE
    OBVIOUS
  <2>1. PICK s \in bad : \A x \in s : s \ {x} \notin bad
    <3>1. bad \in SUBSET (SUBSET S)
      OBVIOUS
    <3> HIDE DEF bad
    <3> QED BY <3>1, SmallestSubset
  <2>2. s \in SUBSET S /\ g[s] \notin Nat
    BY <2>1
  <2>3. s # {}
    BY <1>1, <2>2 DEF SumStep
  <2> DEFINE x == CHOOSE x \in s : TRUE
  <2>4. x \in s /\ f[x] \in Nat
    BY <2>2, <2>3
  <2>5. g[s \ {x}] \in Nat
    BY <2>1, <2>2, <2>4
  <2>6. g[s] = f[x] + g[s \ {x}]
    BY <1>1, <2>2, <2>3 DEF SumStep
  <2> HIDE DEF x, bad
  <2> QED BY <2>2, <2>4, <2>5, <2>6
<1> QED BY <1>2

\* Any element may be taken out first, not only the one that CHOOSE picks.
LEMMA SolutionRemove ==
    ASSUME NEW f, NEW S, IsFiniteSet(S), \A x \in S : f[x] \in Nat,
           NEW g, IsSum(g, f, S)
    PROVE  \A s \in SUBSET S : \A y \in s : g[s] = f[y] + g[s \ {y}]
<1> DEFINE bad == {s \in SUBSET S : \E y \in s : g[s] # f[y] + g[s \ {y}]}
<1>1. \A s \in SUBSET S : g[s] = SumStep(g, f, s) /\ g[s] \in Nat
  BY SumEquation, SolutionType
<1>2. bad = {}
  <2> SUFFICES ASSUME bad # {} PROVE FALSE
    OBVIOUS
  <2>1. PICK s \in bad : \A x \in s : s \ {x} \notin bad
    <3>1. bad \in SUBSET (SUBSET S)
      OBVIOUS
    <3> HIDE DEF bad
    <3> QED BY <3>1, SmallestSubset
  <2>2. PICK y \in s : g[s] # f[y] + g[s \ {y}]
    BY <2>1
  <2> DEFINE x == CHOOSE x \in s : TRUE
  <2>3. s \in SUBSET S /\ x \in s
    BY <2>1, <2>2
  <2>4. g[s] = f[x] + g[s \ {x}]
    BY <1>1, <2>2, <2>3 DEF SumStep
  <2>5. x # y
    BY <2>2, <2>4
  <2>6. /\ s \ {x} \in SUBSET S /\ y \in s \ {x}
        /\ s \ {y} \in SUBSET S /\ x \in s \ {y}
        /\ (s \ {x}) \ {y} = (s \ {y}) \ {x}
        /\ (s \ {x}) \ {y} \in SUBSET S
    BY <2>2, <2>3, <2>5
  <2>7. s \ {x} \notin bad /\ s \ {y} \notin bad
    BY <2>1, <2>2, <2>3
  <2>8. /\ g[s \ {x}] = f[y] + g[(s \ {x}) \ {y}]
        /\ g[s \ {y}] = f[x] + g[(s \ {y}) \ {x}]
    BY <2>6, <2>7
  <2>9. f[x] \in Nat /\ f[y] \in Nat /\ g[(s \ {x}) \ {y}] \in Nat
    BY <1>1, <2>2, <2>3, <2>6
  <2>10. g[s] = f[y] + g[s \ {y}]
    <3> HIDE DEF x, bad
    <3> DEFINE p == f[x]
               q == f[y]
               rest == g[(s \ {x}) \ {y}]
    <3>1. g[s] = p + (q + rest) /\ g[s \ {y}] = p + rest
      BY <2>4, <2>6, <2>8
    <3>2. p \in Nat /\ q \in Nat /\ rest \in Nat
      BY <2>9
    <3> HIDE DEF p, rest
    <3>3. p + (q + rest) = q + (p + rest)
      BY <3>2
    <3> QED BY <3>1, <3>3
  <2> QED BY <2>2, <2>10
<1> QED BY <1>2

-----------------------------------------------------------------------------
(* SumFunctionOnSet                                                          *)

\* Nothing adds up to nothing.
THEOREM SumEmpty == ASSUME NEW f PROVE SumFunctionOnSet(f, {}) = 0
<1>1. PICK g : IsSum(g, f, {}) /\ SumFunctionOnSet(f, {}) = g[{}]
  BY SumChosen, FS_EmptySet
<1>2. g[{}] = SumStep(g, f, {})
  BY <1>1, SumEquation
<1> QED BY <1>1, <1>2 DEF SumStep

\* A sum of natural numbers is a natural number.
THEOREM SumType ==
    ASSUME NEW S, IsFiniteSet(S), NEW f, \A x \in S : f[x] \in Nat
    PROVE  SumFunctionOnSet(f, S) \in Nat
<1>1. PICK g : IsSum(g, f, S) /\ SumFunctionOnSet(f, S) = g[S]
  BY SumChosen
<1>2. \A s \in SUBSET S : g[s] \in Nat
  BY <1>1, SolutionType
<1> QED BY <1>1, <1>2

\* A sum depends only on what is added up.
THEOREM SumCongruent ==
    ASSUME NEW S, IsFiniteSet(S), NEW f, NEW h, \A x \in S : f[x] = h[x]
    PROVE  SumFunctionOnSet(f, S) = SumFunctionOnSet(h, S)
<1>1. PICK a : IsSum(a, f, S) /\ SumFunctionOnSet(f, S) = a[S]
  BY SumChosen
<1>2. PICK b : IsSum(b, h, S) /\ SumFunctionOnSet(h, S) = b[S]
  BY SumChosen
<1>3. AgreeOn(f, h, S)
  BY DEF AgreeOn
<1>4. a[S] = b[S]
  BY <1>1, <1>2, <1>3, SumsAgree
<1> QED BY <1>1, <1>2, <1>4

\* Whichever element is taken out, it and the rest make the whole.
THEOREM SumRemove ==
    ASSUME NEW S, IsFiniteSet(S), NEW f, \A x \in S : f[x] \in Nat, NEW y \in S
    PROVE  SumFunctionOnSet(f, S) = f[y] + SumFunctionOnSet(f, S \ {y})
<1>1. PICK a : IsSum(a, f, S) /\ SumFunctionOnSet(f, S) = a[S]
  BY SumChosen
<1>2. IsFiniteSet(S \ {y})
  BY FS_RemoveElement
<1>3. PICK b : /\ IsSum(b, f, S \ {y})
               /\ SumFunctionOnSet(f, S \ {y}) = b[S \ {y}]
  BY <1>2, SumChosen
<1>4. a[S \ {y}] = b[S \ {y}]
  <2>1. AgreeOn(f, f, S \ {y})
    BY DEF AgreeOn
  <2> QED BY <1>1, <1>2, <1>3, <2>1, SumsAgree
<1>5. a[S] = f[y] + a[S \ {y}]
  BY <1>1, SolutionRemove
<1> QED BY <1>1, <1>3, <1>4, <1>5

\* A new element adds its own value.
THEOREM SumAdd ==
    ASSUME NEW S, IsFiniteSet(S), NEW y, y \notin S,
           NEW f, \A x \in S \cup {y} : f[x] \in Nat
    PROVE  SumFunctionOnSet(f, S \cup {y}) = f[y] + SumFunctionOnSet(f, S)
<1>1. IsFiniteSet(S \cup {y}) /\ (S \cup {y}) \ {y} = S
  BY FS_AddElement
<1> QED BY <1>1, SumRemove
=============================================================================
