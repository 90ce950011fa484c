------------------------------ MODULE DataLemmas ------------------------------
(***************************************************************************)
(* Inductions over data that the proofs about the components share: least  *)
(* elements, loops, sums over finite sets, sorted enumerations, and tables *)
(* that are defined by what stands in them already.                        *)
(*                                                                         *)
(* An induction is written as the choice of a minimal counterexample: the  *)
(* set of counterexamples is a set like any other, and the strict subsets  *)
(* of a finite set are well founded (FS_StrictSubsetOrderingWellFounded).  *)
(***************************************************************************)
EXTENDS Integers, Sequences, Functions, FiniteSetsExt, FiniteSetTheorems, TLAPS

\* Of any sets of elements of a finite set one is minimal.
LEMMA MinimalSet ==
  ASSUME NEW S, IsFiniteSet(S), NEW T, T \subseteq SUBSET S, T # {}
  PROVE  \E x \in T : \A y \in T : y \subseteq x => y = x
<1> DEFINE R == StrictSubsetOrdering(S)
           W == FiniteSubsetsOf(S)
<1>1. IsWellFoundedOn(R, W)
  BY FS_StrictSubsetOrderingWellFounded
<1>2. T \subseteq W
  BY FS_FiniteSubsetsOfFinite
<1>3. \E x \in T : \A y \in T : ~ (<<y, x>> \in R)
  <2> HIDE DEF R, W
  <2> QED BY ONLY <1>1, <1>2, T # {}, WFMin
<1> QED
  BY <1>3 DEF StrictSubsetOrdering

\* A set of naturals has a least element.
LEMMA LeastNatural ==
  ASSUME NEW T \in SUBSET Nat, T # {}
  PROVE  \E m \in T : \A k \in T : m <= k
<1>1. PICK n \in T : TRUE
  OBVIOUS
<1> DEFINE ups == {0..m : m \in {k \in T : k <= n}}
<1>2. IsFiniteSet(0..n)
  BY FS_Interval
<1>3. ups \subseteq SUBSET (0..n) /\ ups # {}
  BY <1>1
<1>4. PICK x \in ups : \A y \in ups : y \subseteq x => y = x
  <2> DEFINE S == 0..n
  <2>1. IsFiniteSet(S) /\ ups \subseteq SUBSET S /\ ups # {}
    BY <1>2, <1>3
  <2> HIDE DEF ups, S
  <2> QED BY ONLY <2>1, MinimalSet
<1>5. PICK m \in T : m <= n /\ x = 0..m
  BY <1>4
<1>6. ASSUME NEW k \in T, k < m PROVE FALSE
  <2>1. 0..k \in ups
    BY <1>5, <1>6
  <2>2. 0..k \subseteq 0..m /\ 0..k # 0..m
    BY <1>6
  <2> QED BY <2>1, <2>2, <1>4, <1>5
<1> QED BY <1>5, <1>6

\* What holds at 0 and goes on holding from each number to the next holds up to the last;
\* the numbers it holds for are a set.
LEMMA Upwards ==
  ASSUME NEW n \in Nat, NEW T, 0 \in T, \A i \in 1..n : i - 1 \in T => i \in T
  PROVE  0..n \subseteq T
<1> DEFINE rest == (0..n) \ T
<1> SUFFICES ASSUME rest # {} PROVE FALSE
  OBVIOUS
<1>1. PICK m \in rest : \A k \in rest : m <= k
  <2>1. rest \in SUBSET Nat
    OBVIOUS
  <2> HIDE DEF rest
  <2> QED BY <2>1, LeastNatural
<1>2. m \in 1..n /\ m - 1 \in 0..n
  BY <1>1
<1>3. m - 1 \in T
  BY <1>1, <1>2
<1> QED BY <1>1, <1>2, <1>3

\* A loop over 1..n that takes a step at each number: the value after each of them.
IsLoop(g, first, step, n) == g[0] = first /\ \A i \in 1..n : g[i] = step[<<i, g[i - 1]>>]

LEMMA LoopExists ==
  ASSUME NEW n \in Nat, NEW D, NEW first \in D, NEW step \in [(1..n) \X D -> D]
  PROVE  \E g \in [0..n -> D] : IsLoop(g, first, step, n)
<1> DEFINE Loop(g, m) == g = [i \in 0..m |-> IF i = 0 THEN first ELSE step[<<i, g[i - 1]>>]]
           T == {m \in 0..n : \E g \in [0..m -> D] : Loop(g, m)}
<1>1. 0 \in T
  <2> DEFINE g == [i \in 0..0 |-> first]
  <2>1. g \in [0..0 -> D] /\ Loop(g, 0)
    OBVIOUS
  <2> HIDE DEF g, Loop
  <2> QED BY <2>1
<1>2. ASSUME NEW i \in 1..n, i - 1 \in T PROVE i \in T
  <2>1. PICK g \in [0..(i - 1) -> D] : Loop(g, i - 1)
    BY <1>2
  <2> DEFINE h == [j \in 0..i |-> IF j = i THEN step[<<i, g[i - 1]>>] ELSE g[j]]
  <2>2. g[i - 1] \in D
    BY <2>1
  <2>3. h \in [0..i -> D]
    BY <2>1, <2>2
  <2>4. \A j \in 0..i : h[j] = IF j = 0 THEN first ELSE step[<<j, h[j - 1]>>]
    <3> SUFFICES ASSUME NEW j \in 0..i PROVE h[j] = IF j = 0 THEN first ELSE step[<<j, h[j - 1]>>]
      OBVIOUS
    <3>1. CASE j = i
      <4>1. j # 0 /\ i - 1 \in 0..i /\ i - 1 # i
        BY <3>1
      <4>2. h[j - 1] = g[i - 1] /\ h[j] = step[<<i, g[i - 1]>>]
        BY <3>1, <4>1
      <4> QED BY ONLY <3>1, <4>1, <4>2
    <3>2. CASE j # i
      <4>1. j \in 0..(i - 1)
        BY <3>2
      <4>2. h[j] = g[j]
        BY <3>2
      <4>3. g[j] = IF j = 0 THEN first ELSE step[<<j, g[j - 1]>>]
        BY <2>1, <4>1
      <4>4. CASE j = 0
        BY ONLY <4>2, <4>3, <4>4
      <4>5. CASE j # 0
        <5>1. j - 1 \in 0..i /\ j - 1 # i
          BY <4>1, <4>5
        <5>2. h[j - 1] = g[j - 1]
          BY <5>1
        <5> QED BY ONLY <4>2, <4>3, <4>5, <5>2
      <4> QED BY <4>4, <4>5
    <3> QED BY <3>1, <3>2
  <2>5. Loop(h, i)
    <3>1. h \in [0..i -> D]
      BY <2>3
    <3> HIDE DEF h
    <3> QED BY <2>4, <3>1
  <2> HIDE DEF Loop, h
  <2> QED BY <2>3, <2>5
<1>3. 0..n \subseteq T
  <2> HIDE DEF T
  <2> QED BY ONLY <1>1, <1>2, n \in Nat, Upwards
<1>4. PICK g \in [0..n -> D] : Loop(g, n)
  BY <1>3
<1>5. \A i \in 0..n : g[i] = IF i = 0 THEN first ELSE step[<<i, g[i - 1]>>]
  BY ONLY <1>4
<1>6. 0 \in 0..n /\ \A i \in 1..n : i \in 0..n /\ i # 0
  OBVIOUS
<1>7. g[0] = first /\ \A i \in 1..n : g[i] = step[<<i, g[i - 1]>>]
  BY ONLY <1>5, <1>6
<1> QED BY <1>4, <1>7 DEF IsLoop

\* A set of integers that is bounded has a least and a greatest element.
LEMMA MinOfBounded ==
  ASSUME NEW T \in SUBSET Int, T # {}, NEW low \in Int, \A t \in T : low <= t
  PROVE  Min(T) \in T /\ \A t \in T : Min(T) <= t
<1> DEFINE above == {t - low : t \in T}
<1>1. above \in SUBSET Nat /\ above # {}
  <2>1. \A t \in T : t - low \in Nat
    OBVIOUS
  <2> QED BY <2>1
<1>2. PICK m \in above : \A k \in above : m <= k
  <2> HIDE DEF above
  <2> QED BY ONLY <1>1, LeastNatural
<1>3. PICK x \in T : m = x - low
  BY <1>2
<1>4. \A t \in T : x <= t
  <2> TAKE t \in T
  <2>1. t - low \in above
    OBVIOUS
  <2>2. m <= t - low
    BY <1>2, <2>1
  <2> HIDE DEF above
  <2> QED BY <1>3, <2>2
<1> QED BY <1>4 DEF Min

LEMMA MaxOfBounded ==
  ASSUME NEW T \in SUBSET Int, T # {}, NEW high \in Int, \A t \in T : t <= high
  PROVE  Max(T) \in T /\ \A t \in T : t <= Max(T)
<1> DEFINE below == {high - t : t \in T}
<1>1. below \in SUBSET Nat /\ below # {}
  <2>1. \A t \in T : high - t \in Nat
    OBVIOUS
  <2> QED BY <2>1
<1>2. PICK m \in below : \A k \in below : m <= k
  <2> HIDE DEF below
  <2> QED BY ONLY <1>1, LeastNatural
<1>3. PICK x \in T : m = high - x
  BY <1>2
<1>4. \A t \in T : t <= x
  <2> TAKE t \in T
  <2>1. high - t \in below
    OBVIOUS
  <2>2. m <= high - t
    BY <1>2, <2>1
  <2> HIDE DEF below
  <2> QED BY <1>3, <2>2
<1> QED BY <1>4 DEF Max

-----------------------------------------------------------------------------
\* SumFunctionOnSet is defined by a recursive function on the subsets: one step of it,
\* and what it means that a function takes this step everywhere.
SumStep(f, g, s) ==
  IF s = {} THEN 0 ELSE f[CHOOSE x \in s : TRUE] + g[s \ {CHOOSE x \in s : TRUE}]

Sums(f, g, S) == g = [s \in SUBSET S |-> SumStep(f, g, s)]

\* There is at most one such function: two agree wherever both are defined.
LEMMA SumsUnique ==
  ASSUME NEW f, NEW S, IsFiniteSet(S), NEW T, NEW g, Sums(f, g, S), NEW h, Sums(f, h, T),
         NEW s, s \subseteq S, s \subseteq T
  PROVE  g[s] = h[s]
<1> DEFINE bad == {u \in SUBSET s : g[u] # h[u]}
<1> SUFFICES ASSUME bad # {} PROVE FALSE
  OBVIOUS
<1>1. IsFiniteSet(s)
  BY FS_Subset
<1>2. PICK u \in bad : \A v \in bad : v \subseteq u => v = u
  <2>1. bad \subseteq SUBSET s
    OBVIOUS
  <2> HIDE DEF bad
  <2> QED BY ONLY <1>1, <2>1, bad # {}, MinimalSet
<1>3. g[u] = SumStep(f, g, u) /\ h[u] = SumStep(f, h, u)
  BY DEF Sums
<1>4. CASE u = {}
  BY <1>3, <1>4 DEF SumStep
<1>5. CASE u # {}
  <2> DEFINE x == CHOOSE x \in u : TRUE
  <2>1. x \in u
    BY <1>5
  <2>2. u \ {x} \notin bad
    BY <1>2, <2>1
  <2>3. g[u \ {x}] = h[u \ {x}]
    BY <2>2
  <2> QED BY <1>3, <1>5, <2>3 DEF SumStep
<1> QED BY <1>4, <1>5

\* There is one.
LEMMA SumsExist ==
  ASSUME NEW f, NEW S, IsFiniteSet(S)
  PROVE  \E g : Sums(f, g, S)
<1> DEFINE bad == {T \in SUBSET S : ~ \E g : Sums(f, g, T)}
<1> SUFFICES ASSUME bad # {} PROVE FALSE
  OBVIOUS
<1>1. PICK T \in bad : \A U \in bad : U \subseteq T => U = T
  <2>1. bad \subseteq SUBSET S
    OBVIOUS
  <2> HIDE DEF bad
  <2> QED BY ONLY IsFiniteSet(S), <2>1, bad # {}, MinimalSet
<1> DEFINE G(U) == CHOOSE g : Sums(f, g, U)
           Rest(s) == s \ {CHOOSE x \in s : TRUE}
           g == [s \in SUBSET T |-> SumStep(f, [u \in {Rest(s)} |-> G(u)[u]], s)]
<1>2. ASSUME NEW U \in SUBSET T, U # T PROVE Sums(f, G(U), U)
  BY <1>1, <1>2
<1>3. ASSUME NEW s \in SUBSET T, s # {} PROVE Rest(s) \in SUBSET T /\ Rest(s) # T /\ Rest(s) \subseteq s
  BY <1>3
<1>4. ASSUME NEW s \in SUBSET T PROVE g[s] = SumStep(f, g, s)
  <2>1. CASE s = {}
    BY <2>1 DEF SumStep
  <2>2. CASE s # {}
    <3> DEFINE r == Rest(s)
    <3>1. r \in SUBSET T /\ r # T
      BY <1>3, <2>2
    <3>2. g[s] = f[CHOOSE x \in s : TRUE] + G(r)[r]
      BY <2>2 DEF SumStep
    <3>3. g[r] = G(r)[r]
      <4>1. Sums(f, G(r), r)
        BY <1>2, <3>1
      <4>2. G(r)[r] = SumStep(f, G(r), r)
        <5> HIDE DEF G, r
        <5> QED BY ONLY <4>1 DEF Sums
      <4>3. g[r] = SumStep(f, [u \in {Rest(r)} |-> G(u)[u]], r)
        BY <3>1
      <4>4. CASE r = {}
        BY <4>2, <4>3, <4>4 DEF SumStep
      <4>5. CASE r # {}
        <5> DEFINE q == Rest(r)
        <5>1. q \in SUBSET T /\ q # T /\ q \subseteq r
          BY <1>3, <3>1, <4>5
        <5>2. Sums(f, G(q), q)
          BY <1>2, <5>1
        <5>3. IsFiniteSet(r)
          BY <3>1, FS_Subset
        <5>4. G(r)[q] = G(q)[q]
          <6> HIDE DEF G, q, r, g
          <6> QED BY ONLY <4>1, <5>1, <5>2, <5>3, SumsUnique
        <5>5. SumStep(f, [u \in {Rest(r)} |-> G(u)[u]], r) = f[CHOOSE x \in r : TRUE] + G(q)[q]
          BY <4>5 DEF SumStep
        <5>6. SumStep(f, G(r), r) = f[CHOOSE x \in r : TRUE] + G(r)[q]
          BY <4>5 DEF SumStep
        <5> QED BY <4>2, <4>3, <5>4, <5>5, <5>6
      <4> QED BY <4>4, <4>5
    <3>4. SumStep(f, g, s) = f[CHOOSE x \in s : TRUE] + g[r]
      BY <2>2 DEF SumStep
    <3> QED BY <3>2, <3>3, <3>4
  <2> QED BY <2>1, <2>2
<1>5. Sums(f, g, T)
  <2>1. g = [s \in SUBSET T |-> g[s]]
    OBVIOUS
  <2> HIDE DEF g
  <2> QED BY <1>4, <2>1 DEF Sums
<1> QED BY <1>1, <1>5

\* The sum over a set is the value there of any function that takes the step on a
\* larger set.
LEMMA SumValue ==
  ASSUME NEW f, NEW T, IsFiniteSet(T), NEW S, S \subseteq T, NEW g, Sums(f, g, T)
  PROVE  SumFunctionOnSet(f, S) = g[S]
<1>1. IsFiniteSet(S)
  BY FS_Subset
<1> DEFINE h == CHOOSE h : Sums(f, h, S)
<1>2. SumFunctionOnSet(f, S) = h[S]
  BY DEF SumFunctionOnSet, FoldFunctionOnSet, MapThenFoldSet, Sums, SumStep
<1>3. Sums(f, h, S)
  BY <1>1, SumsExist
<1> HIDE DEF h
<1>4. h[S] = g[S]
  BY ONLY <1>1, <1>3, IsFiniteSet(T), S \subseteq T, Sums(f, g, T), SumsUnique
<1> QED BY <1>2, <1>4

\* The sum over nothing, and over one element more.
LEMMA SumOfNothing ==
  ASSUME NEW f
  PROVE  SumFunctionOnSet(f, {}) = 0
<1>1. IsFiniteSet({})
  BY FS_EmptySet
<1>2. PICK g : Sums(f, g, {})
  BY <1>1, SumsExist
<1>3. SumFunctionOnSet(f, {}) = g[{}]
  BY <1>1, <1>2, SumValue
<1> QED BY <1>2, <1>3 DEF Sums, SumStep

LEMMA SumOfChosen ==
  ASSUME NEW f, NEW S, IsFiniteSet(S), S # {}
  PROVE  \E x \in S : SumFunctionOnSet(f, S) = f[x] + SumFunctionOnSet(f, S \ {x})
<1>1. PICK g : Sums(f, g, S)
  BY SumsExist
<1> DEFINE x == CHOOSE x \in S : TRUE
<1>2. SumFunctionOnSet(f, S) = g[S] /\ SumFunctionOnSet(f, S \ {x}) = g[S \ {x}]
  BY <1>1, SumValue
<1>3. g[S] = f[x] + g[S \ {x}]
  BY <1>1 DEF Sums, SumStep
<1> QED BY <1>2, <1>3

\* A sum of integers is one, whichever element is taken off first.
LEMMA SumIsInt ==
  ASSUME NEW f, NEW S, IsFiniteSet(S), \A x \in S : f[x] \in Int
  PROVE  SumFunctionOnSet(f, S) \in Int
<1> DEFINE bad == {T \in SUBSET S : SumFunctionOnSet(f, T) \notin Int}
<1> SUFFICES ASSUME bad # {} PROVE FALSE
  OBVIOUS
<1>1. PICK T \in bad : \A U \in bad : U \subseteq T => U = T
  <2>1. bad \subseteq SUBSET S
    OBVIOUS
  <2> HIDE DEF bad
  <2> QED BY ONLY IsFiniteSet(S), <2>1, bad # {}, MinimalSet
<1>2. T # {}
  <2>1. SumFunctionOnSet(f, {}) = 0
    BY SumOfNothing
  <2>2. {} \notin bad
    BY <2>1
  <2> QED BY ONLY <2>2
<1>3. IsFiniteSet(T)
  BY FS_Subset
<1>4. PICK x \in T : SumFunctionOnSet(f, T) = f[x] + SumFunctionOnSet(f, T \ {x})
  BY <1>2, <1>3, SumOfChosen
<1>5. SumFunctionOnSet(f, T \ {x}) \in Int
  BY <1>1
<1> QED BY <1>4, <1>5

LEMMA SumRemove ==
  ASSUME NEW f, NEW S, IsFiniteSet(S), \A x \in S : f[x] \in Int, NEW x \in S
  PROVE  SumFunctionOnSet(f, S) = f[x] + SumFunctionOnSet(f, S \ {x})
<1> DEFINE Splits(T) == \A y \in T : SumFunctionOnSet(f, T) = f[y] + SumFunctionOnSet(f, T \ {y})
           bad == {T \in SUBSET S : ~Splits(T)}
<1> SUFFICES ASSUME bad # {} PROVE FALSE
  OBVIOUS
<1>1. PICK T \in bad : \A U \in bad : U \subseteq T => U = T
  <2>1. bad \subseteq SUBSET S
    OBVIOUS
  <2> HIDE DEF bad
  <2> QED BY ONLY IsFiniteSet(S), <2>1, bad # {}, MinimalSet
<1>2. PICK y \in T : SumFunctionOnSet(f, T) # f[y] + SumFunctionOnSet(f, T \ {y})
  BY <1>1
<1>3. IsFiniteSet(T)
  BY FS_Subset
<1>4. PICK z \in T : SumFunctionOnSet(f, T) = f[z] + SumFunctionOnSet(f, T \ {z})
  BY <1>2, <1>3, SumOfChosen
<1>5. Splits(T \ {z}) /\ Splits(T \ {y})
  BY <1>1
<1>6. y \in T \ {z} /\ z \in T \ {y} /\ (T \ {z}) \ {y} = (T \ {y}) \ {z}
  BY <1>2, <1>4
<1>7. SumFunctionOnSet(f, T \ {z}) = f[y] + SumFunctionOnSet(f, (T \ {y}) \ {z})
  BY <1>5, <1>6
<1>8. SumFunctionOnSet(f, T \ {y}) = f[z] + SumFunctionOnSet(f, (T \ {y}) \ {z})
  BY <1>5, <1>6
<1>9. SumFunctionOnSet(f, (T \ {y}) \ {z}) \in Int /\ f[y] \in Int /\ f[z] \in Int
  <2>1. IsFiniteSet((T \ {y}) \ {z})
    BY <1>3, FS_Subset
  <2> QED BY <2>1, SumIsInt
<1> HIDE DEF Splits, bad
<1> QED BY ONLY <1>2, <1>4, <1>7, <1>8, <1>9

\* What is as large everywhere has as large a sum.
LEMMA SumMonotone ==
  ASSUME NEW f, NEW g, NEW S, IsFiniteSet(S),
         \A x \in S : f[x] \in Int /\ g[x] \in Int /\ f[x] <= g[x]
  PROVE  SumFunctionOnSet(f, S) <= SumFunctionOnSet(g, S)
<1> DEFINE bad == {T \in SUBSET S : ~ SumFunctionOnSet(f, T) <= SumFunctionOnSet(g, T)}
<1> SUFFICES ASSUME bad # {} PROVE FALSE
  OBVIOUS
<1>1. PICK T \in bad : \A U \in bad : U \subseteq T => U = T
  <2>1. bad \subseteq SUBSET S
    OBVIOUS
  <2> HIDE DEF bad
  <2> QED BY ONLY IsFiniteSet(S), <2>1, bad # {}, MinimalSet
<1>2. T # {}
  <2>1. SumFunctionOnSet(f, {}) = 0 /\ SumFunctionOnSet(g, {}) = 0
    BY SumOfNothing
  <2>2. {} \notin bad
    BY <2>1
  <2> QED BY ONLY <2>2
<1>3. IsFiniteSet(T)
  BY FS_Subset
<1>4. PICK x \in T : TRUE
  BY <1>2
<1>5. /\ SumFunctionOnSet(f, T) = f[x] + SumFunctionOnSet(f, T \ {x})
      /\ SumFunctionOnSet(g, T) = g[x] + SumFunctionOnSet(g, T \ {x})
  BY <1>3, SumRemove
<1>6. IsFiniteSet(T \ {x})
  BY <1>3, FS_Subset
<1>7. SumFunctionOnSet(f, T \ {x}) \in Int /\ SumFunctionOnSet(g, T \ {x}) \in Int
  BY <1>6, SumIsInt
<1>8. SumFunctionOnSet(f, T \ {x}) <= SumFunctionOnSet(g, T \ {x})
  BY <1>1
<1> QED BY <1>1, <1>5, <1>7, <1>8

\* A sum depends on the summands only.
LEMMA SumSame ==
  ASSUME NEW f, NEW g, NEW S, IsFiniteSet(S), \A x \in S : f[x] \in Int /\ f[x] = g[x]
  PROVE  SumFunctionOnSet(f, S) = SumFunctionOnSet(g, S)
<1>1. SumFunctionOnSet(f, S) <= SumFunctionOnSet(g, S) /\ SumFunctionOnSet(g, S) <= SumFunctionOnSet(f, S)
  BY SumMonotone
<1>2. SumFunctionOnSet(f, S) \in Int /\ SumFunctionOnSet(g, S) \in Int
  BY SumIsInt
<1> QED BY <1>1, <1>2

\* One more summand.
LEMMA SumAdd ==
  ASSUME NEW f, NEW S, IsFiniteSet(S), NEW x, x \notin S, \A y \in S \cup {x} : f[y] \in Int
  PROVE  SumFunctionOnSet(f, S \cup {x}) = SumFunctionOnSet(f, S) + f[x]
<1> DEFINE T == S \cup {x}
<1>1. IsFiniteSet(T) /\ x \in T /\ T \ {x} = S
  BY FS_AddElement
<1>2. SumFunctionOnSet(f, T) = f[x] + SumFunctionOnSet(f, T \ {x})
  <2> HIDE DEF T
  <2>1. \A y \in T : f[y] \in Int
    BY DEF T
  <2> QED BY ONLY <1>1, <2>1, SumRemove
<1>3. SumFunctionOnSet(f, S) \in Int /\ f[x] \in Int
  BY SumIsInt
<1> HIDE DEF T
<1>4. SumFunctionOnSet(f, T \ {x}) = SumFunctionOnSet(f, S)
  BY ONLY <1>1, Zenon
<1>5. SumFunctionOnSet(f, T) = SumFunctionOnSet(f, S) + f[x]
  BY ONLY <1>2, <1>3, <1>4
<1> QED BY <1>5 DEF T

\* Zeros add nothing.
LEMMA SumZeros ==
  ASSUME NEW f, NEW T, IsFiniteSet(T), NEW S, S \subseteq T,
         \A x \in T : f[x] \in Int, \A x \in T \ S : f[x] = 0
  PROVE  SumFunctionOnSet(f, T) = SumFunctionOnSet(f, S)
<1> DEFINE bad == {U \in SUBSET T : S \subseteq U /\ SumFunctionOnSet(f, U) # SumFunctionOnSet(f, S)}
<1> SUFFICES ASSUME bad # {} PROVE FALSE
  OBVIOUS
<1>1. PICK U \in bad : \A V \in bad : V \subseteq U => V = U
  <2>1. bad \subseteq SUBSET T
    OBVIOUS
  <2> HIDE DEF bad
  <2> QED BY ONLY IsFiniteSet(T), <2>1, bad # {}, MinimalSet
<1>2. PICK x \in U : x \notin S
  OBVIOUS
<1>3. IsFiniteSet(U) /\ \A y \in U : f[y] \in Int
  BY FS_Subset
<1>4. SumFunctionOnSet(f, U) = f[x] + SumFunctionOnSet(f, U \ {x})
  <2> HIDE DEF bad
  <2> QED BY ONLY <1>2, <1>3, SumRemove
<1>5. f[x] = 0
  BY <1>2
<1>6. SumFunctionOnSet(f, U \ {x}) \in Int
  <2>1. IsFiniteSet(U \ {x}) /\ \A y \in U \ {x} : f[y] \in Int
    BY <1>3, FS_Subset
  <2> HIDE DEF bad
  <2> QED BY ONLY <2>1, SumIsInt
<1>7. SumFunctionOnSet(f, U \ {x}) = SumFunctionOnSet(f, U)
  BY ONLY <1>4, <1>5, <1>6
<1> QED BY <1>1, <1>2, <1>7

-----------------------------------------------------------------------------
\* The values of a function on a finite set, and what a finite family has together.
LEMMA FiniteImage ==
  ASSUME NEW f, NEW S, IsFiniteSet(S)
  PROVE  IsFiniteSet({f[x] : x \in S})
<1> DEFINE T == {f[x] : x \in S}
           g == [x \in S |-> f[x]]
<1>1. g \in Surjection(S, T)
  BY DEF Surjection
<1> QED BY <1>1, FS_Surjection

LEMMA FiniteFamily ==
  ASSUME NEW f, NEW S, IsFiniteSet(S), \A x \in S : IsFiniteSet(f[x])
  PROVE  IsFiniteSet(UNION {f[x] : x \in S})
<1> DEFINE T == {f[x] : x \in S}
<1>1. IsFiniteSet(T)
  BY FiniteImage
<1>2. \A U \in T : IsFiniteSet(U)
  OBVIOUS
<1> HIDE DEF T
<1>3. IsFiniteSet(UNION T)
  BY <1>1, <1>2, FS_UNION
<1> QED BY <1>3 DEF T

LEMMA FiniteBounds ==
  ASSUME NEW T, IsFiniteSet(T), T \subseteq Int, T # {}
  PROVE  /\ Min(T) \in T /\ \A t \in T : Min(T) <= t
         /\ Max(T) \in T /\ \A t \in T : t <= Max(T)
<1> DEFINE up == [x \in T |-> {y \in T : x <= y}]
           down == [x \in T |-> {y \in T : y <= x}]
<1>1. ASSUME NEW f, \A x \in T : f[x] \subseteq T
      PROVE  \E m \in T : \A x \in T : f[x] \subseteq f[m] => f[x] = f[m]
  <2> DEFINE all == {f[x] : x \in T}
  <2>1. all \subseteq SUBSET T /\ all # {}
    BY <1>1
  <2>2. PICK U \in all : \A V \in all : V \subseteq U => V = U
    <3> HIDE DEF all
    <3> QED BY ONLY IsFiniteSet(T), <2>1, MinimalSet
  <2> QED BY <2>2
<1>2. \E m \in T : \A t \in T : t <= m
  <2>1. PICK m \in T : \A x \in T : up[x] \subseteq up[m] => up[x] = up[m]
    <3>1. \A x \in T : up[x] \subseteq T
      OBVIOUS
    <3> HIDE DEF up
    <3> QED BY ONLY <1>1, <3>1
  <2>2. ASSUME NEW t \in T, m < t PROVE FALSE
    <3>0. t \in T /\ m \in T /\ t \in Int /\ m \in Int /\ \A y \in T : y \in Int
      OBVIOUS
    <3>1. \A x, y \in T : y \in up[x] <=> x <= y
      OBVIOUS
    <3>2. up[t] \subseteq T
      OBVIOUS
    <3> HIDE DEF up, down
    <3>4. m \in up[m] /\ m \notin up[t]
      BY ONLY <2>2, <3>0, <3>1
    <3>5. \A y \in T : t <= y => m <= y
      BY ONLY <2>2, <3>0
    <3>3. up[t] \subseteq up[m]
      BY ONLY <3>0, <3>1, <3>2, <3>5
    <3> QED BY ONLY <2>1, <3>0, <3>3, <3>4
  <2> QED BY <2>2
<1>3. \E m \in T : \A t \in T : m <= t
  <2>1. PICK m \in T : \A x \in T : down[x] \subseteq down[m] => down[x] = down[m]
    <3>1. \A x \in T : down[x] \subseteq T
      OBVIOUS
    <3> HIDE DEF down
    <3> QED BY ONLY <1>1, <3>1
  <2>2. ASSUME NEW t \in T, t < m PROVE FALSE
    <3>0. t \in T /\ m \in T /\ t \in Int /\ m \in Int /\ \A y \in T : y \in Int
      OBVIOUS
    <3>1. \A x, y \in T : y \in down[x] <=> y <= x
      OBVIOUS
    <3>2. down[t] \subseteq T
      OBVIOUS
    <3> HIDE DEF up, down
    <3>4. m \in down[m] /\ m \notin down[t]
      BY ONLY <2>2, <3>0, <3>1
    <3>5. \A y \in T : y <= t => y <= m
      BY ONLY <2>2, <3>0
    <3>3. down[t] \subseteq down[m]
      BY ONLY <3>0, <3>1, <3>2, <3>5
    <3> QED BY ONLY <2>1, <3>0, <3>3, <3>4
  <2> QED BY <2>2
<1> QED BY <1>2, <1>3 DEF Min, Max

\* The least and the greatest element are known by what they are.
LEMMA MinIs ==
  ASSUME NEW T \in SUBSET Int, NEW m \in T, \A t \in T : m <= t
  PROVE  Min(T) = m
<1>1. Min(T) \in T /\ \A t \in T : Min(T) <= t
  BY MinOfBounded
<1>2. Min(T) \in Int /\ m \in Int /\ Min(T) <= m /\ m <= Min(T)
  BY <1>1
<1> QED BY ONLY <1>2

LEMMA MaxIs ==
  ASSUME NEW T \in SUBSET Int, NEW m \in T, \A t \in T : t <= m
  PROVE  Max(T) = m
<1>1. Max(T) \in T /\ \A t \in T : t <= Max(T)
  BY MaxOfBounded
<1>2. Max(T) \in Int /\ m \in Int /\ Max(T) <= m /\ m <= Max(T)
  BY <1>1
<1> QED BY ONLY <1>2

\* Of two numbers the second is the greater one.
LEMMA MaxOfTwo ==
  ASSUME NEW a \in Int, NEW b \in Int, a <= b
  PROVE  Max({a, b}) = b
<1>1. \A t \in {a, b} : t <= b
  OBVIOUS
<1>2. Max({a, b}) \in {a, b} /\ \A t \in {a, b} : t <= Max({a, b})
  BY <1>1, MaxOfBounded
<1> QED BY <1>2

\* The sum of a table is the sum of its values.
LEMMA SumOfTable ==
  ASSUME NEW f, NEW S, NEW g, IsFiniteSet(S), DOMAIN f = S, \A x \in S : f[x] \in Int /\ f[x] = g[x]
  PROVE  SumFunction(f) = SumFunctionOnSet(g, S)
<1>1. SumFunctionOnSet(f, S) = SumFunctionOnSet(g, S)
  BY SumSame
<1> QED BY <1>1 DEF SumFunction

\* n integers in a row
IsRow(f, n) == f \in [1..n -> Int]

\* The sum of a row is that of its beginning, and its last value.
LEMMA SumExtend ==
  ASSUME NEW n \in Nat, NEW f, NEW g, DOMAIN f = 1..n, DOMAIN g = 1..(n + 1),
         \A i \in 1..n : f[i] \in Int /\ g[i] = f[i], g[n + 1] \in Int
  PROVE  SumFunction(g) = SumFunction(f) + g[n + 1]
<1> DEFINE S == 1..n
           x == n + 1
<1>1. IsFiniteSet(S)
  BY FS_Interval
<1>2. x \notin S /\ \A y \in S \cup {x} : g[y] \in Int
  OBVIOUS
<1>3. 1..(n + 1) = S \cup {x}
  OBVIOUS
<1>4. \A y \in S : f[y] \in Int /\ f[y] = g[y]
  OBVIOUS
<1>5. DOMAIN f = S /\ DOMAIN g = S \cup {x}
  BY <1>3
<1> HIDE DEF S, x
<1>6. SumFunctionOnSet(g, S \cup {x}) = SumFunctionOnSet(g, S) + g[x]
  BY ONLY <1>1, <1>2, SumAdd
<1>7. SumFunctionOnSet(f, S) = SumFunctionOnSet(g, S)
  BY ONLY <1>1, <1>4, SumSame
<1> QED BY ONLY <1>5, <1>6, <1>7 DEF SumFunction, x

\* The sum of two rows, one behind the other
LEMMA SumJoin ==
  ASSUME NEW a \in Nat, NEW b \in Nat, NEW f, NEW g, NEW h,
         IsRow(f, a), IsRow(g, b), IsRow(h, a + b),
         \A i \in 1..a : h[i] = f[i], \A i \in 1..b : h[a + i] = g[i]
  PROVE  SumFunction(h) = SumFunction(f) + SumFunction(g)
<1> USE DEF IsRow
<1> DEFINE left(k) == [i \in 1..(a + k) |-> h[i]]
           right(k) == [i \in 1..k |-> g[i]]
           T == {k \in 0..b : SumFunction(left(k)) = SumFunction(f) + SumFunction(right(k))}
<1>1. \A i \in 1..(a + b) : h[i] \in Int
  OBVIOUS
<1>2. 0 \in T
  <2>1. left(0) = f
    OBVIOUS
  <2>2. SumFunction(right(0)) = 0
    <3>1. DOMAIN right(0) = {}
      OBVIOUS
    <3> HIDE DEF right
    <3> QED BY <3>1, SumOfNothing DEF SumFunction
  <2>3. SumFunction(f) \in Int
    <3>1. IsFiniteSet(1..a)
      BY FS_Interval
    <3>2. \A x \in 1..a : f[x] \in Int
      OBVIOUS
    <3> DEFINE S == 1..a
    <3> HIDE DEF S
    <3> QED BY <3>1, <3>2, SumIsInt DEF SumFunction, S
  <2> HIDE DEF left, right
  <2> QED BY <2>1, <2>2, <2>3
<1>3. ASSUME NEW k \in 1..b, k - 1 \in T PROVE k \in T
  <2> DEFINE n == k - 1
             l == left(n)
             r == right(n)
             l2 == left(n + 1)
             r2 == right(n + 1)
             m == a + n
  <2>1. n \in Nat /\ m \in Nat /\ m + 1 = a + k /\ n + 1 = k /\ k \in 0..b
    OBVIOUS
  <2>2. SumFunction(r2) = SumFunction(r) + r2[n + 1]
    <3>1. DOMAIN r = 1..n /\ DOMAIN r2 = 1..(n + 1) /\ r2[n + 1] \in Int
          /\ \A i \in 1..n : r[i] \in Int /\ r2[i] = r[i]
      BY <2>1
    <3> HIDE DEF n, r, r2
    <3> QED BY ONLY <2>1, <3>1, SumExtend
  <2>3. SumFunction(l2) = SumFunction(l) + l2[m + 1]
    <3>1. DOMAIN l = 1..m /\ DOMAIN l2 = 1..(m + 1) /\ l2[m + 1] \in Int
          /\ \A i \in 1..m : l[i] \in Int /\ l2[i] = l[i]
      BY <1>1, <2>1
    <3> HIDE DEF m, l, l2
    <3> QED BY ONLY <2>1, <3>1, SumExtend
  <2>4. l2[m + 1] = r2[n + 1] /\ r2[n + 1] \in Int
    BY <2>1
  <2>5. SumFunction(l) = SumFunction(f) + SumFunction(r)
    BY <1>3
  <2>6. /\ SumFunction(f) \in Int /\ SumFunction(r) \in Int
    <3>1. IsFiniteSet(1..a) /\ IsFiniteSet(1..n)
      BY <2>1, FS_Interval
    <3> DEFINE S == 1..a
               R == 1..n
    <3>2. \A x \in S : f[x] \in Int
      OBVIOUS
    <3>3. \A x \in R : r[x] \in Int
      BY <2>1
    <3>4. DOMAIN f = S /\ DOMAIN r = R
      OBVIOUS
    <3> HIDE DEF S, R, r
    <3> QED BY <3>1, <3>2, <3>3, <3>4, SumIsInt DEF SumFunction, S, R
  <2>7. SumFunction(l2) = SumFunction(f) + SumFunction(r2)
    <3> HIDE DEF l, r, l2, r2
    <3> QED BY ONLY <2>2, <2>3, <2>4, <2>5, <2>6
  <2>8. l2 = left(k) /\ r2 = right(k)
    BY <2>1
  <2> HIDE DEF left, right, l, r, l2, r2
  <2> QED BY <2>1, <2>7, <2>8
<1>4. b \in T
  <2>1. 0..b \subseteq T
    <3> HIDE DEF T
    <3> QED BY ONLY <1>2, <1>3, b \in Nat, Upwards
  <2> HIDE DEF T
  <2> QED BY <2>1
<1>5. left(b) = h /\ right(b) = g
  OBVIOUS
<1> HIDE DEF left, right
<1> QED BY <1>4, <1>5

-----------------------------------------------------------------------------
\* R is a strict total order on S.
StrictOrder(R, S) ==
  /\ \A x, y \in S : x = y \/ <<x, y>> \in R \/ <<y, x>> \in R
  /\ \A x, y \in S : ~(<<x, y>> \in R /\ <<y, x>> \in R)
  /\ \A x, y, z \in S : <<x, y>> \in R /\ <<y, z>> \in R => <<x, z>> \in R

\* The elements of S in this order.
Enumerates(s, R, S) ==
  /\ s \in [1..Cardinality(S) -> S]
  /\ \A i, j \in 1..Cardinality(S) : i < j => <<s[i], s[j]>> \in R

\* A finite set that is ordered has a last element.
LEMMA LastOfOrder ==
  ASSUME NEW S, IsFiniteSet(S), S # {}, NEW R, StrictOrder(R, S)
  PROVE  \E m \in S : \A x \in S : x = m \/ <<x, m>> \in R
<1> DEFINE After(x) == {y \in S : <<x, y>> \in R}
           all == {After(x) : x \in S}
<1>1. PICK T \in all : \A U \in all : U \subseteq T => U = T
  <2>1. all \subseteq SUBSET S /\ all # {}
    OBVIOUS
  <2> HIDE DEF all
  <2> QED BY ONLY IsFiniteSet(S), <2>1, MinimalSet
<1>2. PICK m \in S : T = After(m)
  OBVIOUS
<1>3. ASSUME NEW x \in S, x # m, <<x, m>> \notin R PROVE FALSE
  <2>1. <<m, x>> \in R
    BY <1>3 DEF StrictOrder
  <2>2. After(x) \subseteq After(m)
    BY <2>1 DEF StrictOrder
  <2>3. x \in After(m) /\ x \notin After(x)
    BY <2>1 DEF StrictOrder
  <2> QED BY <1>1, <1>2, <2>2, <2>3
<1> QED BY <1>3

\* Every ordered finite set can be enumerated.
LEMMA Enumerable ==
  ASSUME NEW S, IsFiniteSet(S), NEW R, StrictOrder(R, S)
  PROVE  \E s : Enumerates(s, R, S)
<1> DEFINE bad == {T \in SUBSET S : ~ \E s : Enumerates(s, R, T)}
<1> SUFFICES ASSUME bad # {} PROVE FALSE
  OBVIOUS
<1>1. PICK T \in bad : \A U \in bad : U \subseteq T => U = T
  <2>1. bad \subseteq SUBSET S
    OBVIOUS
  <2> HIDE DEF bad
  <2> QED BY ONLY IsFiniteSet(S), <2>1, bad # {}, MinimalSet
<1>2. IsFiniteSet(T) /\ Cardinality(T) \in Nat
  BY FS_Subset, FS_CardinalityType
<1>3. CASE T = {}
  <2>1. Cardinality(T) = 0
    BY <1>3, FS_EmptySet
  <2>2. Enumerates([i \in 1..0 |-> i], R, T)
    BY <2>1 DEF Enumerates
  <2> QED BY <1>1, <2>2
<1>4. CASE T # {}
  <2>1. StrictOrder(R, T)
    BY DEF StrictOrder
  <2>2. PICK m \in T : \A x \in T : x = m \/ <<x, m>> \in R
    BY <1>2, <1>4, <2>1, LastOfOrder
  <2> DEFINE U == T \ {m}
  <2>3. PICK s : Enumerates(s, R, U)
    BY <1>1, <2>2
  <2>4. Cardinality(T) = Cardinality(U) + 1 /\ Cardinality(U) \in Nat
    <3>1. IsFiniteSet(U) /\ Cardinality(U) = Cardinality(T) - 1
      BY <1>2, <2>2, FS_RemoveElement
    <3>2. Cardinality(U) \in Nat
      BY <3>1, FS_CardinalityType
    <3> HIDE DEF U
    <3> QED BY ONLY <1>2, <3>1, <3>2
  <2> DEFINE n == Cardinality(U)
             t == [i \in 1..n + 1 |-> IF i = n + 1 THEN m ELSE s[i]]
  <2>5. n \in Nat /\ s \in [1..n -> U] /\ \A i, j \in 1..n : i < j => <<s[i], s[j]>> \in R
    BY <2>3, <2>4 DEF Enumerates
  <2> HIDE DEF n
  <2>6. t \in [1..n + 1 -> T]
    BY <2>5
  <2>7. ASSUME NEW i \in 1..n + 1, NEW j \in 1..n + 1, i < j PROVE <<t[i], t[j]>> \in R
    <3>1. i \in 1..n /\ t[i] = s[i] /\ s[i] \in U
      BY <2>5, <2>7
    <3>2. CASE j = n + 1
      BY <2>2, <3>1, <3>2
    <3>3. CASE j # n + 1
      BY <2>5, <2>7, <3>1, <3>3
    <3> QED BY <3>2, <3>3
  <2>8. Enumerates(t, R, T)
    <3>1. Cardinality(T) = n + 1
      BY <2>4 DEF n
    <3> HIDE DEF t
    <3> QED BY <3>1, <2>6, <2>7 DEF Enumerates
  <2> QED BY <1>1, <2>8
<1> QED BY <1>3, <1>4

\* An enumeration reaches every element, once.
LEMMA EnumerationCovers ==
  ASSUME NEW S, IsFiniteSet(S), NEW R, StrictOrder(R, S), NEW s, Enumerates(s, R, S)
  PROVE  /\ \A i, j \in 1..Cardinality(S) : s[i] = s[j] => i = j
         /\ \A x \in S : \E i \in 1..Cardinality(S) : s[i] = x
<1> DEFINE n == Cardinality(S)
<1>1. n \in Nat
  BY FS_CardinalityType
<1>2. ASSUME NEW i \in 1..n, NEW j \in 1..n, s[i] = s[j] PROVE i = j
  <2>1. s[i] \in S /\ s[j] \in S
    BY DEF Enumerates
  <2>2. CASE i < j
    BY <1>2, <2>1, <2>2 DEF Enumerates, StrictOrder
  <2>3. CASE j < i
    BY <1>2, <2>1, <2>3 DEF Enumerates, StrictOrder
  <2> QED BY <1>1, <2>2, <2>3
<1>3. s \in Injection(1..n, S)
  BY <1>2 DEF Enumerates, Injection, IsInjective
<1>4. IsFiniteSet(1..n) /\ Cardinality(1..n) = n
  BY <1>1, FS_Interval
<1>5. s \in Surjection(1..n, S)
  BY <1>3, <1>4, FS_Injection
<1>6. \A x \in S : \E i \in 1..n : s[i] = x
  BY <1>5 DEF Surjection
<1> QED BY <1>2, <1>6

\* The rank of an element is the number of those before it.
LEMMA EnumerationRank ==
  ASSUME NEW S, IsFiniteSet(S), NEW R, StrictOrder(R, S), NEW s, Enumerates(s, R, S),
         NEW i \in 1..Cardinality(S)
  PROVE  Cardinality({x \in S : <<x, s[i]>> \in R}) = i - 1
<1> DEFINE n == Cardinality(S)
           before == {x \in S : <<x, s[i]>> \in R}
<1>1. n \in Nat
  BY FS_CardinalityType
<1>2. /\ \A j, k \in 1..n : s[j] = s[k] => j = k
      /\ \A x \in S : \E j \in 1..n : s[j] = x
  BY EnumerationCovers
<1>3. s \in [1..n -> S] /\ \A j, k \in 1..n : j < k => <<s[j], s[k]>> \in R
  BY DEF Enumerates
<1> DEFINE t == [j \in 1..i - 1 |-> s[j]]
<1>4. \A j \in 1..i - 1 : j \in 1..n /\ j < i
  BY <1>1
<1>5. t \in [1..i - 1 -> before]
  BY <1>3, <1>4
<1>6. \A j, k \in 1..i - 1 : t[j] = t[k] => j = k
  BY <1>2, <1>4
<1>7. ASSUME NEW x \in before PROVE \E j \in 1..i - 1 : t[j] = x
  <2>1. PICK j \in 1..n : s[j] = x
    BY <1>2
  <2>2. ~(i < j) /\ i # j
    BY <1>3, <2>1 DEF StrictOrder
  <2>3. j \in 1..i - 1
    BY <1>1, <2>2
  <2> QED BY <2>1, <2>3
<1> HIDE DEF t, before
<1>8. t \in Injection(1..i - 1, before) /\ t \in Surjection(1..i - 1, before)
  BY <1>5, <1>6, <1>7 DEF Injection, IsInjective, Surjection
<1>9. ExistsBijection(1..i - 1, before)
  BY <1>8 DEF ExistsBijection, Bijection
<1>10. i - 1 \in Nat
  BY <1>1
<1> QED BY <1>9, <1>10, FS_CountingElements DEF before

-----------------------------------------------------------------------------
(* Tables that are defined by what stands in them already                   *)

\* What step makes of a table depends, at each t, only on what the table has at those that are
\* of a lower rank.
Ranked(step, T, D, rank) ==
  /\ rank \in [T -> Nat] /\ step \in [[T -> D] -> [T -> D]]
  /\ \A g, h \in [T -> D] : \A t \in T :
       (\A u \in T : rank[u] < rank[t] => g[u] = h[u]) => step[g][t] = step[h][t]
\* g is what step makes of it, at those of rank less than n.
Solves(g, step, T, rank, n) == \A t \in T : rank[t] < n => g[t] = step[g][t]

\* Two tables that solve it up to a rank agree up to it ...
LEMMA SolutionsAgree ==
  ASSUME NEW T, NEW D, NEW rank, NEW step, Ranked(step, T, D, rank),
         NEW g \in [T -> D], NEW h \in [T -> D], NEW n \in Nat,
         Solves(g, step, T, rank, n), Solves(h, step, T, rank, n)
  PROVE  \A t \in T : rank[t] < n => g[t] = h[t]
<1>0. rank \in [T -> Nat] /\ step \in [[T -> D] -> [T -> D]]
  BY DEF Ranked
<1> DEFINE bad == {rank[t] : t \in {u \in T : rank[u] < n /\ g[u] # h[u]}}
<1> SUFFICES ASSUME NEW x \in T, rank[x] < n, g[x] # h[x] PROVE FALSE
  BY <1>0
<1>1. bad \in SUBSET Nat /\ rank[x] \in bad
  BY <1>0
<1> HIDE DEF bad
<1>2. PICK m \in bad : \A k \in bad : m <= k
  BY <1>1, LeastNatural
<1>3. PICK t \in T : rank[t] = m /\ rank[t] < n /\ g[t] # h[t]
  BY <1>2 DEF bad
<1>4. ASSUME NEW u \in T, rank[u] < rank[t] PROVE g[u] = h[u]
  <2>1. rank[u] \in Nat /\ rank[t] \in Nat
    BY <1>0
  <2>2. rank[u] < n /\ ~(m <= rank[u])
    BY <1>3, <1>4, <2>1
  <2> QED BY <1>2, <2>2 DEF bad
<1>5. step[g][t] = step[h][t]
  BY <1>4 DEF Ranked
<1> QED BY <1>3, <1>5 DEF Solves

\* ... and for every rank there is one.
LEMMA SolutionsExist ==
  ASSUME NEW T, NEW D, D # {}, NEW rank, NEW step, Ranked(step, T, D, rank), NEW n \in Nat
  PROVE  \E g \in [T -> D] : Solves(g, step, T, rank, n)
<1>0. rank \in [T -> Nat] /\ step \in [[T -> D] -> [T -> D]]
  BY DEF Ranked
<1> DEFINE S == {k \in 0..n : \E g \in [T -> D] : Solves(g, step, T, rank, k)}
<1>1. 0 \in S
  <2>1. PICK d \in D : TRUE
    BY <1>0
  <2>2. [t \in T |-> d] \in [T -> D]
    BY <1>0
  <2> DEFINE g == [t \in T |-> d]
  <2>3. Solves(g, step, T, rank, 0)
    BY <1>0 DEF Solves
  <2> HIDE DEF g
  <2>4. \E f \in [T -> D] : Solves(f, step, T, rank, 0)
    BY <2>2, <2>3 DEF g
  <2> QED BY <2>4
<1>2. ASSUME NEW k \in 1..n, k - 1 \in S PROVE k \in S
  <2>1. PICK g \in [T -> D] : Solves(g, step, T, rank, k - 1)
    BY <1>2
  <2> DEFINE h == [t \in T |-> IF rank[t] < k - 1 THEN g[t] ELSE step[g][t]]
  <2>2. h \in [T -> D]
    BY <1>0
  <2>3. \A t \in T : h[t] = step[g][t]
    BY <2>1 DEF Solves
  <2>4. \A t \in T : rank[t] < k - 1 => h[t] = g[t]
    BY <1>0
  <2> HIDE DEF h
  <2>5. ASSUME NEW t \in T, rank[t] < k PROVE h[t] = step[h][t]
    <3>1. \A u \in T : rank[u] < rank[t] => g[u] = h[u]
      <4>1. \A u \in T : rank[u] \in Nat
        BY <1>0
      <4> QED BY <2>4, <2>5, <4>1
    <3>2. step[g][t] = step[h][t]
      BY <2>2, <3>1 DEF Ranked
    <3> QED BY <2>3, <3>2
  <2>6. Solves(h, step, T, rank, k)
    BY <2>5 DEF Solves
  <2> QED BY <2>2, <2>6
<1>3. 0..n \subseteq S
  <2> HIDE DEF S
  <2> QED BY ONLY <1>1, <1>2, n \in Nat, Upwards
<1> QED BY <1>3

\* There is such a table.
LEMMA TableExists ==
  ASSUME NEW T, NEW D, D # {}, NEW rank, NEW step, Ranked(step, T, D, rank)
  PROVE  \E g \in [T -> D] : g = step[g]
<1>0. rank \in [T -> Nat] /\ step \in [[T -> D] -> [T -> D]]
  BY DEF Ranked
<1> DEFINE upTo == [n \in Nat |-> CHOOSE g \in [T -> D] : Solves(g, step, T, rank, n)]
           h == [t \in T |-> upTo[rank[t] + 1][t]]
<1>1. ASSUME NEW n \in Nat PROVE upTo[n] \in [T -> D] /\ Solves(upTo[n], step, T, rank, n)
  <2>1. \E g \in [T -> D] : Solves(g, step, T, rank, n)
    BY SolutionsExist
  <2> QED BY <2>1
<1>2. h = [t \in T |-> upTo[rank[t] + 1][t]]
  BY <1>0
<1> HIDE DEF upTo, h
<1>3. h \in [T -> D]
  <2>1. \A t \in T : rank[t] + 1 \in Nat
    BY <1>0
  <2>2. \A t \in T : upTo[rank[t] + 1][t] \in D
    BY <1>1, <2>1
  <2> QED BY <1>2, <2>2
<1>4. ASSUME NEW t \in T PROVE h[t] = step[h][t]
  <2> DEFINE g == upTo[rank[t] + 1]
             n == rank[t] + 1
  <2>1. n \in Nat /\ rank[t] \in Nat /\ g \in [T -> D] /\ Solves(g, step, T, rank, n)
    BY <1>0, <1>1
  <2>2. h[t] = g[t]
    BY <1>2
  <2> HIDE DEF g
  <2>3. g[t] = step[g][t]
    BY <2>1 DEF Solves
  <2>4. ASSUME NEW u \in T, rank[u] < rank[t] PROVE g[u] = h[u]
    <3> DEFINE k == rank[u] + 1
    <3>1. k \in Nat /\ rank[u] < k /\ \A v \in T : rank[v] < k => rank[v] < n
      BY <1>0, <2>1, <2>4
    <3>2. upTo[k] \in [T -> D] /\ Solves(upTo[k], step, T, rank, k)
      BY <1>1, <3>1
    <3>3. Solves(g, step, T, rank, k)
      BY <2>1, <3>1 DEF Solves
    <3>4. h[u] = upTo[k][u]
      BY <1>2
    <3> HIDE DEF k
    <3>5. \A v \in T : rank[v] < k => g[v] = upTo[k][v]
      <4> HIDE DEF Solves
      <4>1. PICK f \in [T -> D] : f = upTo[k]
        BY <3>2
      <4>2. Solves(f, step, T, rank, k)
        BY <3>2, <4>1
      <4>3. \A v \in T : rank[v] < k => g[v] = f[v]
        BY ONLY <2>1, <3>1, <3>3, <4>2, SolutionsAgree, Ranked(step, T, D, rank), f \in [T -> D]
      <4> QED BY ONLY <4>1, <4>3
    <3>6. g[u] = upTo[k][u]
      BY ONLY <3>1, <3>5, u \in T
    <3> QED BY <3>4, <3>6
  <2>5. step[g][t] = step[h][t]
    BY <1>3, <2>1, <2>4 DEF Ranked
  <2> QED BY <2>2, <2>3, <2>5
<1>5. step[h] \in [T -> D]
  BY <1>0, <1>3
<1> QED BY <1>3, <1>4, <1>5

-----------------------------------------------------------------------------
\* n elements fit if n is no more than the quotient, and do not if it is more.
LEMMA Quotient ==
  ASSUME NEW m \in Nat, NEW s \in Nat, s > 0, NEW n \in Nat
  PROVE  n <= m \div s <=> n * s <= m
<1> DEFINE q == m \div s
           r == m % s
<1>1. q \in Nat /\ r \in 0..(s - 1) /\ m = q * s + r
  OBVIOUS
<1> HIDE DEF q, r
<1>2. ASSUME n <= q PROVE n * s <= m
  <2>1. PICK d \in Nat : q = n + d
    <3>1. q - n \in Nat /\ q = n + (q - n)
      BY <1>1, <1>2
    <3> QED BY <3>1
  <2>2. q * s = n * s + d * s /\ n * s \in Nat /\ d * s \in Nat
    BY <2>1
  <2> QED BY <1>1, <2>2
<1>3. ASSUME n > q PROVE n * s > m
  <2>1. PICK d \in Nat : n = q + 1 + d
    <3>1. n - q - 1 \in Nat /\ n = q + 1 + (n - q - 1)
      BY <1>1, <1>3
    <3> QED BY <3>1
  <2>2. n * s = q * s + s + d * s /\ q * s \in Nat /\ d * s \in Nat
    BY <1>1, <2>1
  <2> QED BY <1>1, <2>2
<1>4. n <= q => n * s <= m
  BY <1>2
<1>5. n > q => ~(n * s <= m)
  BY <1>1, <1>3
<1>6. n <= q \/ n > q
  BY <1>1
<1>7. ~(n <= q) \/ ~(n > q)
  BY <1>1
<1> QED BY <1>4, <1>5, <1>6 DEF q
====
