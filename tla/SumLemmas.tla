----------------------------- MODULE SumLemmas -------------------------------
(***************************************************************************)
(* Sums of a function over a finite set, as the library defines them by a  *)
(* fold: that they exist, that any element may be taken out first, and how *)
(* they are added and compared.  Quotas and sizes are such sums.           *)
(***************************************************************************)
EXTENDS Integers, FiniteSets, Functions, FiniteSetTheorems, WellFoundedInduction, TLAPS

\* A set of naturals that is not empty has a least element.
LEMMA Least ==
  ASSUME NEW S \in SUBSET Nat, S # {}
  PROVE  \E x \in S : \A y \in S : x =< y
<1>1. PICK x \in S : \A y \in S : ~ (<<y, x>> \in OpToRel(<, Nat))
  BY WFMin, NatLessThanWellFounded
<1>2. \A y \in S : ~ (y < x)
  BY <1>1, Zenon DEF OpToRel
<1> QED
  BY <1>2

\* Induction over a finite set: among its subsets of some kind, one of the
\* smallest has no element that can be taken out.
LEMMA Smallest ==
  ASSUME NEW S, IsFiniteSet(S), NEW B, B \subseteq SUBSET S, B # {}
  PROVE  \E s \in B : IsFiniteSet(s) /\ \A x \in s : s \ {x} \notin B
<1> DEFINE Sizes == {Cardinality(s) : s \in B}
<1>1. \A s \in B : IsFiniteSet(s) /\ Cardinality(s) \in Nat
  BY FS_Subset, FS_CardinalityType
<1>2. Sizes \in SUBSET Nat /\ Sizes # {}
  BY <1>1
<1>3. PICK n \in Sizes : \A m \in Sizes : n =< m
  BY <1>2, Least
<1>4. PICK s \in B : n = Cardinality(s)
  BY <1>3
<1>5. ASSUME NEW x \in s, s \ {x} \in B PROVE FALSE
  <2>1. Cardinality(s \ {x}) = Cardinality(s) - 1
    BY <1>1, <1>4, FS_RemoveElement
  <2>2. n =< Cardinality(s \ {x})
    BY <1>3, <1>5
  <2> QED
    BY <1>1, <1>4, <2>1, <2>2
<1> QED
  BY <1>1, <1>5

\* The element the folds of the library take out first, and the equation that
\* defines the sum.
OneOf(s) == CHOOSE x \in s : TRUE

Adds(f, g, s) == g[s] = IF s = {} THEN 0 ELSE f[OneOf(s)] + g[s \ {OneOf(s)}]

IsSum(f, S, g) ==
  g = [s \in SUBSET S |-> IF s = {} THEN 0 ELSE f[OneOf(s)] + g[s \ {OneOf(s)}]]

LEMMA OneOfIn == \A s : s # {} => OneOf(s) \in s
BY DEF OneOf

LEMMA SumIs ==
  ASSUME NEW f, NEW S
  PROVE  SumFunctionOnSet(f, S) = (CHOOSE g : IsSum(f, S, g))[S]
BY Zenon DEF SumFunctionOnSet, FoldFunctionOnSet, MapThenFoldSet, IsSum, OneOf

LEMMA SumExists ==
  ASSUME NEW S, IsFiniteSet(S), NEW f, \A x \in S : f[x] \in Int
  PROVE  \E g \in [SUBSET S -> Int] : IsSum(f, S, g)
<1> DEFINE Upto(g, n) == \A s \in SUBSET S : Cardinality(s) =< n => Adds(f, g, s)
           Good(n) == \E g \in [SUBSET S -> Int] : Upto(g, n)
           Bad == {n \in Nat : ~Good(n)}
<1>0. \A s \in SUBSET S : /\ IsFiniteSet(s) /\ Cardinality(s) \in Nat
                          /\ s = {} <=> Cardinality(s) = 0
                          /\ s # {} => /\ OneOf(s) \in s /\ s \ {OneOf(s)} \in SUBSET S
                                       /\ Cardinality(s \ {OneOf(s)}) = Cardinality(s) - 1
  BY FS_Subset, FS_CardinalityType, FS_EmptySet, FS_RemoveElement, OneOfIn
<1>1. Good(0)
  <2> DEFINE z == [s \in SUBSET S |-> 0]
  <2>1. z \in [SUBSET S -> Int]
    OBVIOUS
  <2>2. ASSUME NEW s \in SUBSET S, Cardinality(s) =< 0 PROVE Adds(f, z, s)
    <3>1. Cardinality(s) \in Nat /\ (s = {} <=> Cardinality(s) = 0)
      BY <1>0, Zenon
    <3>2. s = {}
      BY <2>2, <3>1
    <3> QED
      BY <3>2 DEF Adds
  <2> QED
    BY <2>1, <2>2
<1>2. ASSUME NEW n \in Nat, Good(n) PROVE Good(n + 1)
  <2>1. PICK g \in [SUBSET S -> Int] : Upto(g, n)
    BY <1>2
  <2> DEFINE h == [s \in SUBSET S |-> IF s = {} THEN 0 ELSE f[OneOf(s)] + g[s \ {OneOf(s)}]]
  <2>2. h \in [SUBSET S -> Int]
    <3>1. ASSUME NEW s \in SUBSET S, s # {} PROVE f[OneOf(s)] + g[s \ {OneOf(s)}] \in Int
      <4>1. OneOf(s) \in s /\ s \ {OneOf(s)} \in SUBSET S
        BY <1>0, <3>1, Zenon
      <4>2. OneOf(s) \in S
        BY <4>1
      <4> QED
        BY <4>1, <4>2
    <3> QED
      BY <3>1
  <2>3. \A s \in SUBSET S : Cardinality(s) =< n => h[s] = g[s]
    BY <2>1 DEF Adds
  <2>4. ASSUME NEW s \in SUBSET S, Cardinality(s) =< n + 1, s # {}
        PROVE  h[s] = f[OneOf(s)] + h[s \ {OneOf(s)}]
    <3>1. s \ {OneOf(s)} \in SUBSET S /\ Cardinality(s \ {OneOf(s)}) =< n
      BY <1>0, <2>4
    <3> QED
      BY <2>3, <2>4, <3>1
  <2>5. Upto(h, n + 1)
    BY <2>4 DEF Adds
  <2> QED
    BY <2>2, <2>5
<1>3. Bad = {}
  <2> SUFFICES ASSUME Bad # {} PROVE FALSE
    OBVIOUS
  <2>1. PICK n \in Bad : \A m \in Bad : n =< m
    BY Least
  <2>2. n # 0
    BY <1>1, <2>1
  <2> HIDE DEF Good
  <2>3. n - 1 \in Nat /\ Good(n - 1)
    BY <2>1, <2>2
  <2>4. Good((n - 1) + 1)
    BY <1>2, <2>3
  <2> QED
    BY <2>1, <2>4
<1>4. Good(Cardinality(S))
  BY <1>0, <1>3
<1>5. PICK g \in [SUBSET S -> Int] : Upto(g, Cardinality(S))
  BY <1>4
<1>6. \A s \in SUBSET S : Cardinality(s) =< Cardinality(S)
  BY FS_Subset
<1>7. \A s \in SUBSET S : Adds(f, g, s)
  BY <1>5, <1>6
<1> QED
  BY <1>7 DEF IsSum, Adds

\* Functions that satisfy the equation agree.
LEMMA SumUnique ==
  ASSUME NEW S, IsFiniteSet(S), NEW f, NEW T, S \subseteq T,
         NEW g, IsSum(f, S, g), NEW h, IsSum(f, T, h)
  PROVE  g[S] = h[S]
<1> DEFINE Bad == {s \in SUBSET S : g[s] # h[s]}
<1> SUFFICES ASSUME Bad # {} PROVE FALSE
  BY DEF Bad
<1>1. PICK s \in Bad : \A x \in s : s \ {x} \notin Bad
  BY Smallest
<1>2. s \in SUBSET S /\ s \in SUBSET T /\ g[s] # h[s]
  BY <1>1
<1>3. s # {}
  BY <1>2 DEF IsSum
<1> DEFINE t == s \ {OneOf(s)}
<1>4. t \in SUBSET S /\ t \notin Bad
  BY <1>1, <1>2, <1>3, OneOfIn
<1>5. g[s] = f[OneOf(s)] + g[t] /\ h[s] = f[OneOf(s)] + h[t]
  BY <1>2, <1>3 DEF IsSum
<1> QED
  BY <1>2, <1>4, <1>5

\* What a sum is: an integer; 0 for no element.
LEMMA SumUnfold ==
  ASSUME NEW S, IsFiniteSet(S), NEW f, \A x \in S : f[x] \in Int
  PROVE  /\ SumFunctionOnSet(f, S) \in Int
         /\ S = {} => SumFunctionOnSet(f, S) = 0
         /\ S # {} => SumFunctionOnSet(f, S) = f[OneOf(S)] + SumFunctionOnSet(f, S \ {OneOf(S)})
<1> DEFINE R == S \ {OneOf(S)}
<1>1. ASSUME NEW T \in SUBSET S
      PROVE  /\ IsFiniteSet(T)
             /\ \E h : IsSum(f, T, h) /\ SumFunctionOnSet(f, T) = h[T]
  <2>1. \E h : IsSum(f, T, h)
    BY SumExists, FS_Subset
  <2>2. IsSum(f, T, CHOOSE h : IsSum(f, T, h))
    BY <2>1
  <2> QED
    BY <2>2, FS_Subset, SumIs
<1>2. PICK g : IsSum(f, S, g) /\ SumFunctionOnSet(f, S) = g[S]
  BY <1>1
<1>3. PICK k : IsSum(f, R, k) /\ SumFunctionOnSet(f, R) = k[R]
  BY <1>1
<1>4. g[S] \in Int
  <2>1. PICK h \in [SUBSET S -> Int] : IsSum(f, S, h)
    BY SumExists
  <2>2. g[S] = h[S]
    BY <1>2, <2>1, SumUnique
  <2> QED
    BY <2>2
<1>5. k[R] = g[R]
  <2>1. IsFiniteSet(R)
    BY <1>1
  <2> QED
    BY <1>2, <1>3, <2>1, SumUnique
<1>6. g[S] = IF S = {} THEN 0 ELSE f[OneOf(S)] + g[R]
  BY <1>2 DEF IsSum
<1> QED
  BY <1>2, <1>3, <1>4, <1>5, <1>6

\* Any element may be taken out.
LEMMA SumRemove ==
  ASSUME NEW S, IsFiniteSet(S), NEW f, \A x \in S : f[x] \in Int, NEW y \in S
  PROVE  SumFunctionOnSet(f, S) = f[y] + SumFunctionOnSet(f, S \ {y})
<1> DEFINE Right(T, x) == SumFunctionOnSet(f, T) = f[x] + SumFunctionOnSet(f, T \ {x})
           Bad == {T \in SUBSET S : \E x \in T : ~Right(T, x)}
<1>1. ASSUME NEW T \in SUBSET S, \A z \in T : \A x \in T \ {z} : Right(T \ {z}, x), NEW x \in T
      PROVE  Right(T, x)
  <2> DEFINE a == OneOf(T)
             U == T \ {a, x}
  <2>1. IsFiniteSet(T) /\ a \in T /\ \A z \in T : f[z] \in Int
    BY FS_Subset, OneOfIn
  <2>2. Right(T, a)
    BY <2>1, SumUnfold
  <2>3. CASE a # x
    <3>1. (T \ {a}) \ {x} = U /\ (T \ {x}) \ {a} = U /\ IsFiniteSet(U) /\ U \subseteq T
      BY <2>1, FS_Subset
    <3>2. /\ SumFunctionOnSet(f, T \ {a}) = f[x] + SumFunctionOnSet(f, U)
          /\ SumFunctionOnSet(f, T \ {x}) = f[a] + SumFunctionOnSet(f, U)
      BY <1>1, <2>1, <2>3, <3>1
    <3>3. SumFunctionOnSet(f, U) \in Int
      BY <2>1, <3>1, SumUnfold
    <3> QED
      BY <2>1, <2>2, <3>2, <3>3
  <2> QED
    BY <2>2, <2>3
<1> HIDE DEF Right
<1>2. Bad = {}
  <2> SUFFICES ASSUME Bad # {} PROVE FALSE
    OBVIOUS
  <2>1. PICK T \in Bad : \A z \in T : T \ {z} \notin Bad
    BY Smallest
  <2>2. T \in SUBSET S /\ \A z \in T : T \ {z} \in SUBSET S
    BY <2>1
  <2>3. \A z \in T : \A x \in T \ {z} : Right(T \ {z}, x)
    BY <2>1, <2>2
  <2> QED
    BY <1>1, <2>1, <2>2, <2>3
<1>3. S \notin Bad
  BY <1>2
<1>4. Right(S, y)
  BY <1>3
<1> QED
  BY <1>4 DEF Right

\* One more element; none; one.
LEMMA SumAdd ==
  ASSUME NEW S, IsFiniteSet(S), NEW f, \A x \in S : f[x] \in Int,
         NEW y, y \notin S, f[y] \in Int
  PROVE  SumFunctionOnSet(f, S \cup {y}) = f[y] + SumFunctionOnSet(f, S)
<1>1. IsFiniteSet(S \cup {y}) /\ (S \cup {y}) \ {y} = S
  BY FS_AddElement
<1> QED
  BY <1>1, SumRemove

LEMMA SumOne ==
  ASSUME NEW f, NEW y, f[y] \in Int
  PROVE  SumFunctionOnSet(f, {y}) = f[y] /\ SumFunctionOnSet(f, {}) = 0
<1>1. IsFiniteSet({}) /\ IsFiniteSet({y}) /\ {y} \ {y} = {}
  BY FS_EmptySet, FS_Singleton
<1>2. SumFunctionOnSet(f, {}) = 0
  BY <1>1, SumUnfold
<1>3. SumFunctionOnSet(f, {y}) = f[y] + SumFunctionOnSet(f, {y} \ {y})
  BY <1>1, SumRemove
<1> QED
  BY <1>1, <1>2, <1>3

\* Sums are added, and compared, element by element.
LEMMA SumPlus ==
  ASSUME NEW S, IsFiniteSet(S), NEW f, NEW g, NEW h,
         \A x \in S : f[x] \in Int /\ g[x] \in Int /\ h[x] = f[x] + g[x]
  PROVE  SumFunctionOnSet(h, S) = SumFunctionOnSet(f, S) + SumFunctionOnSet(g, S)
<1> DEFINE Right(T) == SumFunctionOnSet(h, T) = SumFunctionOnSet(f, T) + SumFunctionOnSet(g, T)
           Bad == {T \in SUBSET S : ~Right(T)}
<1>1. ASSUME NEW T \in SUBSET S, \A x \in T : Right(T \ {x}) PROVE Right(T)
  <2>1. IsFiniteSet(T) /\ \A x \in T : f[x] \in Int /\ g[x] \in Int /\ h[x] \in Int
    BY FS_Subset
  <2>2. CASE T = {}
    <3>1. SumFunctionOnSet(f, T) = 0 /\ SumFunctionOnSet(g, T) = 0
      BY <2>1, <2>2, SumUnfold
    <3>2. SumFunctionOnSet(h, T) = 0
      BY <2>1, <2>2, SumUnfold
    <3> QED
      BY <3>1, <3>2
  <2>3. CASE T # {}
    <3>1. PICK x \in T : TRUE
      BY <2>3
    <3>2. IsFiniteSet(T \ {x}) /\ \A z \in T \ {x} : f[z] \in Int /\ g[z] \in Int
      BY <2>1, FS_Subset
    <3>3. SumFunctionOnSet(f, T \ {x}) \in Int /\ SumFunctionOnSet(g, T \ {x}) \in Int
      BY <3>2, SumUnfold
    <3>4. /\ SumFunctionOnSet(f, T) = f[x] + SumFunctionOnSet(f, T \ {x})
          /\ SumFunctionOnSet(g, T) = g[x] + SumFunctionOnSet(g, T \ {x})
          /\ SumFunctionOnSet(h, T) = h[x] + SumFunctionOnSet(h, T \ {x})
      BY <2>1, SumRemove
    <3>5. h[x] = f[x] + g[x] /\ Right(T \ {x}) /\ f[x] \in Int /\ g[x] \in Int
      BY <1>1, <2>1
    <3> QED
      BY <3>3, <3>4, <3>5
  <2> QED
    BY <2>2, <2>3
<1> HIDE DEF Right
<1>2. Bad = {}
  <2> SUFFICES ASSUME Bad # {} PROVE FALSE
    OBVIOUS
  <2>1. PICK T \in Bad : \A z \in T : T \ {z} \notin Bad
    BY Smallest
  <2>2. T \in SUBSET S /\ \A z \in T : Right(T \ {z})
    BY <2>1
  <2> QED
    BY <1>1, <2>1, <2>2
<1>3. Right(S)
  BY <1>2
<1> QED
  BY <1>3 DEF Right

LEMMA SumPositive ==
  ASSUME NEW S, IsFiniteSet(S), NEW f, \A x \in S : f[x] \in Nat
  PROVE  SumFunctionOnSet(f, S) \in Nat
<1> DEFINE Right(T) == SumFunctionOnSet(f, T) \in Nat
           Bad == {T \in SUBSET S : ~Right(T)}
<1>1. ASSUME NEW T \in SUBSET S, \A x \in T : Right(T \ {x}) PROVE Right(T)
  <2>1. IsFiniteSet(T) /\ \A x \in T : f[x] \in Int
    BY FS_Subset
  <2>2. CASE T = {}
    BY <2>1, <2>2, SumUnfold
  <2>3. CASE T # {}
    <3>1. PICK x \in T : TRUE
      BY <2>3
    <3>2. SumFunctionOnSet(f, T) = f[x] + SumFunctionOnSet(f, T \ {x})
      BY <2>1, SumRemove
    <3>3. f[x] \in Nat /\ Right(T \ {x})
      BY <1>1
    <3> QED
      BY <3>2, <3>3
  <2> QED
    BY <2>2, <2>3
<1> HIDE DEF Right
<1>2. Bad = {}
  <2> SUFFICES ASSUME Bad # {} PROVE FALSE
    OBVIOUS
  <2>1. PICK T \in Bad : \A z \in T : T \ {z} \notin Bad
    BY Smallest
  <2>2. T \in SUBSET S /\ \A z \in T : Right(T \ {z})
    BY <2>1
  <2> QED
    BY <1>1, <2>1, <2>2
<1>3. Right(S)
  BY <1>2
<1> QED
  BY <1>3 DEF Right

LEMMA SumMonotone ==
  ASSUME NEW S, IsFiniteSet(S), NEW f, NEW g,
         \A x \in S : f[x] \in Int /\ g[x] \in Int /\ f[x] =< g[x]
  PROVE  /\ SumFunctionOnSet(f, S) =< SumFunctionOnSet(g, S)
         /\ SumFunctionOnSet(f, S) \in Int /\ SumFunctionOnSet(g, S) \in Int
<1> DEFINE d == [x \in S |-> g[x] - f[x]]
<1>1. \A x \in S : d[x] \in Nat /\ d[x] \in Int /\ g[x] = f[x] + d[x]
  OBVIOUS
<1>2. SumFunctionOnSet(d, S) \in Nat
  BY <1>1, SumPositive
<1>3. SumFunctionOnSet(g, S) = SumFunctionOnSet(f, S) + SumFunctionOnSet(d, S)
  BY <1>1, SumPlus
<1>4. SumFunctionOnSet(f, S) \in Int /\ SumFunctionOnSet(g, S) \in Int
  BY SumUnfold
<1> QED
  BY <1>2, <1>3, <1>4

\* A function that differs in one element.
Agree(f, g, S, y) ==
  /\ \A x \in S : f[x] \in Int /\ g[x] \in Int
  /\ \A x \in S : x # y => f[x] = g[x]

Differ(f, g, S, y) ==
  \E d \in Int : SumFunctionOnSet(f, S) = f[y] + d /\ SumFunctionOnSet(g, S) = g[y] + d

LEMMA SumChange ==
  ASSUME NEW S, IsFiniteSet(S), NEW f, NEW g, NEW y, y \in S, Agree(f, g, S, y)
  PROVE  Differ(f, g, S, y)
<1>1. IsFiniteSet(S \ {y}) /\ \A x \in S \ {y} : f[x] \in Int /\ g[x] \in Int /\ f[x] =< g[x] /\ g[x] =< f[x]
  BY FS_Subset DEF Agree
<1>2. /\ SumFunctionOnSet(f, S \ {y}) = SumFunctionOnSet(g, S \ {y})
      /\ SumFunctionOnSet(f, S \ {y}) \in Int
  BY <1>1, SumMonotone
<1>3. /\ SumFunctionOnSet(f, S) = f[y] + SumFunctionOnSet(f, S \ {y})
      /\ SumFunctionOnSet(g, S) = g[y] + SumFunctionOnSet(g, S \ {y})
  BY SumRemove DEF Agree
<1> QED
  BY <1>2, <1>3 DEF Differ
==============================================================================
