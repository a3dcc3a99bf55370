----------------------------- MODULE SumTheorems -----------------------------
(***************************************************************************)
(* The laws of SumFunctionOnSet that the proofs about gold, quantities and *)
(* scores use. The sum is a recursive function on the subsets of a finite  *)
(* set; that there is one, and that the order of its terms does not matter,*)
(* follows by induction on the size of the set. The induction rests on     *)
(* WFMin: a non-empty set of numbers has a least one.                      *)
(***************************************************************************)
EXTENDS Functions, FiniteSets, FiniteSetTheorems, WellFoundedInduction, TLAPS

\* A non-empty set of natural numbers has a least element.
LEMMA LeastNatural ==
  ASSUME NEW T \in SUBSET Nat, T # {}
  PROVE  \E n \in T : \A m \in T : n <= m
  <1>1. PICK n \in T : \A m \in T : ~ (<<m, n>> \in OpToRel(<, Nat))
    BY NatLessThanWellFounded, WFMin
  <1>2. \A m \in T : ~ (m < n)
    BY <1>1 DEF OpToRel
  <1> QED BY <1>2

\* Induction over the natural numbers, for a set of numbers instead of a predicate.
LEMMA Induction ==
  ASSUME NEW T, 0 \in T, \A n \in Nat : n \in T => n + 1 \in T
  PROVE  Nat \subseteq T
  <1> SUFFICES ASSUME Nat \ T # {} PROVE FALSE
    OBVIOUS
  <1>1. PICK n \in Nat \ T : \A m \in Nat \ T : n <= m
    <2> DEFINE U == Nat \ T
    <2>1. U \in SUBSET Nat /\ U # {}
      OBVIOUS
    <2> HIDE DEF U
    <2>2. \E n \in U : \A m \in U : n <= m
      BY <2>1, LeastNatural
    <2> QED BY <2>2 DEF U
  <1>2. n # 0 /\ n - 1 \in Nat /\ n - 1 \notin Nat \ T
    BY <1>1
  <1>3. (n - 1) + 1 \in T
    BY <1>2
  <1> QED BY <1>1, <1>2, <1>3

\* Induction over a finite set: what holds of the empty set, and of a set with one more
\* element whenever it holds of the set, holds of the whole.
LEMMA SubsetInduction ==
  ASSUME NEW S, IsFiniteSet(S), NEW P, {} \in P,
         \A T \in SUBSET S : \A x \in S \ T : T \in P => T \union {x} \in P
  PROVE  S \in P
  <1> DEFINE N == {n \in Nat : \A T \in SUBSET S : Cardinality(T) = n => T \in P}
  <1>1. 0 \in N
    <2> SUFFICES ASSUME NEW T \in SUBSET S, Cardinality(T) = 0 PROVE T \in P
      OBVIOUS
    <2>1. IsFiniteSet(T)
      BY FS_Subset
    <2> QED BY <2>1, FS_EmptySet
  <1>2. ASSUME NEW n \in Nat, n \in N PROVE n + 1 \in N
    <2> SUFFICES ASSUME NEW T \in SUBSET S, Cardinality(T) = n + 1 PROVE T \in P
      OBVIOUS
    <2>1. IsFiniteSet(T)
      BY FS_Subset
    <2>2. PICK x : x \in T
      <3>1. T # {}
        <4>1. Cardinality({}) = 0 /\ Cardinality(T) # 0
          BY FS_EmptySet
        <4> QED BY <4>1
      <3> QED BY <3>1
    <2>3. Cardinality(T \ {x}) = n
      <3>1. Cardinality(T \ {x}) = Cardinality(T) - 1
        BY <2>1, <2>2, FS_RemoveElement
      <3> QED BY <3>1
    <2>4. T \ {x} \in P
      BY <1>2, <2>3
    <2>5. (T \ {x}) \union {x} \in P
      BY <2>2, <2>4
    <2>6. (T \ {x}) \union {x} = T
      BY <2>2
    <2> QED BY <2>5, <2>6
  <1> HIDE DEF N
  <1>3. Nat \subseteq N
    BY <1>1, <1>2, Induction
  <1>4. Cardinality(S) \in Nat
    BY FS_CardinalityType
  <1> QED BY <1>3, <1>4 DEF N
-----------------------------------------------------------------------------
\* The element a fold takes first.
First(s) == CHOOSE x \in s : TRUE

\* One unfolding of the sum of f, with g for the rest.
Unfolded(g, f, s) == IF s = {} THEN 0 ELSE f[First(s)] + g[s \ {First(s)}]

\* g is the sum of f on every subset of S.
Sums(g, f, S) == g = [s \in SUBSET S |-> Unfolded(g, f, s)]

LEMMA FirstIn == ASSUME NEW s, s # {} PROVE First(s) \in s
  BY DEF First

LEMMA SumDef ==
  ASSUME NEW f, NEW S
  PROVE  SumFunctionOnSet(f, S) = (CHOOSE g : Sums(g, f, S))[S]
  BY DEF SumFunctionOnSet, FoldFunctionOnSet, MapThenFoldSet, Sums, Unfolded, First

LEMMA SmallerRest ==
  ASSUME NEW S, IsFiniteSet(S), NEW s \in SUBSET S, s # {}, NEW n \in Nat, Cardinality(s) <= n + 1
  PROVE  s \ {First(s)} \in SUBSET S /\ Cardinality(s \ {First(s)}) <= n
  <1>1. IsFiniteSet(s) /\ First(s) \in s
    BY FS_Subset, FirstIn
  <1>2. Cardinality(s \ {First(s)}) = Cardinality(s) - 1
    BY <1>1, FS_RemoveElement
  <1>3. Cardinality(s) \in Nat
    BY <1>1, FS_CardinalityType
  <1> QED BY <1>2, <1>3

\* The recursion has a solution.
LEMMA SumsExist ==
  ASSUME NEW f, NEW S, IsFiniteSet(S)
  PROVE  \E g : Sums(g, f, S)
  <1> DEFINE Solves(g, n) == \A s \in SUBSET S : Cardinality(s) <= n => g[s] = Unfolded(g, f, s)
             N == {n \in Nat : \E g : Solves(g, n)}
  <1>1. 0 \in N
    <2> DEFINE g == [s \in SUBSET S |-> 0]
    <2>1. ASSUME NEW s \in SUBSET S, Cardinality(s) <= 0 PROVE s = {}
      <3>1. IsFiniteSet(s)
        BY FS_Subset
      <3> QED BY <2>1, <3>1, FS_EmptySet, FS_CardinalityType
    <2>2. Solves(g, 0)
      BY <2>1 DEF Unfolded
    <2> QED BY <2>2
  <1>2. ASSUME NEW n \in Nat, n \in N PROVE n + 1 \in N
    <2>1. PICK g : Solves(g, n)
      BY <1>2
    <2> DEFINE h == [s \in SUBSET S |-> Unfolded(g, f, s)]
    <2>2. ASSUME NEW s \in SUBSET S, Cardinality(s) <= n + 1
          PROVE  h[s] = Unfolded(h, f, s)
      <3>1. CASE s = {}
        BY <3>1 DEF Unfolded
      <3>2. CASE s # {}
        <4> DEFINE u == s \ {First(s)}
        <4>1. u \in SUBSET S /\ Cardinality(u) <= n
          BY <2>2, <3>2, SmallerRest
        <4>2. g[u] = h[u]
          BY <2>1, <4>1
        <4> QED BY <3>2, <4>2 DEF Unfolded
      <3> QED BY <3>1, <3>2
    <2> HIDE DEF h
    <2>3. Solves(h, n + 1)
      BY <2>2
    <2> QED BY <2>3
  <1> HIDE DEF N
  <1>3. Nat \subseteq N
    BY <1>1, <1>2, Induction
  <1>4. Cardinality(S) \in N
    BY <1>3, FS_CardinalityType
  <1>5. PICK g : Solves(g, Cardinality(S))
    BY <1>4 DEF N
  <1> DEFINE h == [s \in SUBSET S |-> g[s]]
  <1>6. ASSUME NEW s \in SUBSET S PROVE g[s] = Unfolded(g, f, s)
    <2>1. Cardinality(s) <= Cardinality(S)
      BY FS_Subset
    <2> QED BY <1>5, <2>1
  <1>7. ASSUME NEW s \in SUBSET S PROVE Unfolded(h, f, s) = Unfolded(g, f, s)
    BY DEF Unfolded
  <1>8. h = [s \in SUBSET S |-> Unfolded(h, f, s)]
    BY <1>6, <1>7
  <1> QED BY <1>8 DEF Sums

\* Two solutions agree wherever both are defined.
LEMMA SumsAgree ==
  ASSUME NEW f, NEW S, IsFiniteSet(S), NEW T \in SUBSET S,
         NEW g, Sums(g, f, S), NEW h, Sums(h, f, T)
  PROVE  g[T] = h[T]
  <1> DEFINE N == {n \in Nat : \A s \in SUBSET T : Cardinality(s) <= n => g[s] = h[s]}
  <1>1. \A s \in SUBSET T : g[s] = Unfolded(g, f, s) /\ h[s] = Unfolded(h, f, s)
    BY DEF Sums
  <1>2. IsFiniteSet(T)
    BY FS_Subset
  <1>3. 0 \in N
    <2> SUFFICES ASSUME NEW s \in SUBSET T, Cardinality(s) <= 0 PROVE g[s] = h[s]
      OBVIOUS
    <2>1. s = {}
      BY <1>2, FS_Subset, FS_EmptySet, FS_CardinalityType
    <2> QED BY <1>1, <2>1 DEF Unfolded
  <1>4. ASSUME NEW n \in Nat, n \in N PROVE n + 1 \in N
    <2> SUFFICES ASSUME NEW s \in SUBSET T, Cardinality(s) <= n + 1 PROVE g[s] = h[s]
      OBVIOUS
    <2>1. CASE s = {}
      BY <1>1, <2>1 DEF Unfolded
    <2>2. CASE s # {}
      <3>1. s \ {First(s)} \in SUBSET T /\ Cardinality(s \ {First(s)}) <= n
        BY <1>2, <2>2, SmallerRest
      <3>2. g[s \ {First(s)}] = h[s \ {First(s)}]
        BY <1>4, <3>1
      <3> QED BY <1>1, <2>2, <3>2 DEF Unfolded
    <2> QED BY <2>1, <2>2
  <1> HIDE DEF N
  <1>5. Nat \subseteq N
    BY <1>3, <1>4, Induction
  <1>6. Cardinality(T) \in Nat
    BY <1>2, FS_CardinalityType
  <1> QED BY <1>5, <1>6 DEF N

\* The sum of nothing.
LEMMA SumEmpty == ASSUME NEW f PROVE SumFunctionOnSet(f, {}) = 0
  <1>1. PICK g : Sums(g, f, {})
    BY SumsExist, FS_EmptySet
  <1>2. Sums(CHOOSE h : Sums(h, f, {}), f, {})
    BY <1>1
  <1>3. (CHOOSE h : Sums(h, f, {}))[{}] = 0
    BY <1>2 DEF Sums, Unfolded
  <1> QED BY <1>3, SumDef

\* A sum is its first term and the sum of the rest.
LEMMA SumFirst ==
  ASSUME NEW f, NEW S, IsFiniteSet(S), S # {}
  PROVE  SumFunctionOnSet(f, S) = f[First(S)] + SumFunctionOnSet(f, S \ {First(S)})
  <1> DEFINE R == S \ {First(S)}
             g == CHOOSE g : Sums(g, f, S)
             h == CHOOSE h : Sums(h, f, R)
  <1>1. IsFiniteSet(R) /\ R \in SUBSET S
    BY FS_Subset
  <1>2. Sums(g, f, S) /\ Sums(h, f, R)
    BY <1>1, SumsExist
  <1>3. SumFunctionOnSet(f, S) = g[S] /\ SumFunctionOnSet(f, R) = h[R]
    BY SumDef
  <1> HIDE DEF R, g, h
  <1>4. g[R] = h[R]
    BY <1>1, <1>2, SumsAgree
  <1>5. g[S] = Unfolded(g, f, S)
    BY <1>2 DEF Sums
  <1> QED BY <1>3, <1>4, <1>5 DEF Unfolded, R
-----------------------------------------------------------------------------
\* A sum of integers is an integer.
LEMMA SumType ==
  ASSUME NEW f, NEW S, IsFiniteSet(S), \A x \in S : f[x] \in Int
  PROVE  SumFunctionOnSet(f, S) \in Int
  <1> DEFINE N == {n \in Nat : \A T \in SUBSET S : Cardinality(T) <= n => SumFunctionOnSet(f, T) \in Int}
  <1>1. 0 \in N
    <2> SUFFICES ASSUME NEW T \in SUBSET S, Cardinality(T) <= 0 PROVE SumFunctionOnSet(f, T) \in Int
      OBVIOUS
    <2>1. T = {}
      BY FS_Subset, FS_EmptySet, FS_CardinalityType
    <2> QED BY <2>1, SumEmpty
  <1>2. ASSUME NEW n \in Nat, n \in N PROVE n + 1 \in N
    <2> SUFFICES ASSUME NEW T \in SUBSET S, Cardinality(T) <= n + 1 PROVE SumFunctionOnSet(f, T) \in Int
      OBVIOUS
    <2>1. CASE T = {}
      BY <2>1, SumEmpty
    <2>2. CASE T # {}
      <3>1. IsFiniteSet(T) /\ First(T) \in T
        BY <2>2, FS_Subset, FirstIn
      <3>2. T \ {First(T)} \in SUBSET S /\ Cardinality(T \ {First(T)}) <= n
        BY <2>2, SmallerRest
      <3>3. SumFunctionOnSet(f, T \ {First(T)}) \in Int
        BY <1>2, <3>2
      <3>4. SumFunctionOnSet(f, T) = f[First(T)] + SumFunctionOnSet(f, T \ {First(T)})
        BY <2>2, <3>1, SumFirst
      <3>5. f[First(T)] \in Int
        BY <3>1
      <3> QED BY <3>3, <3>4, <3>5
    <2> QED BY <2>1, <2>2
  <1> HIDE DEF N
  <1>3. Nat \subseteq N
    BY <1>1, <1>2, Induction
  <1>4. Cardinality(S) \in N
    BY <1>3, FS_CardinalityType
  <1> QED BY <1>4 DEF N

\* The order of the terms does not matter: any of them may be taken first.
LEMMA SumRemove ==
  ASSUME NEW f, NEW S, IsFiniteSet(S), \A x \in S : f[x] \in Int, NEW e \in S
  PROVE  SumFunctionOnSet(f, S) = f[e] + SumFunctionOnSet(f, S \ {e})
  <1> DEFINE Splits(T) ==
               \A x \in T : SumFunctionOnSet(f, T) = f[x] + SumFunctionOnSet(f, T \ {x})
             N == {n \in Nat : \A T \in SUBSET S : Cardinality(T) <= n => Splits(T)}
  <1>1. 0 \in N
    <2> SUFFICES ASSUME NEW T \in SUBSET S, Cardinality(T) <= 0 PROVE Splits(T)
      OBVIOUS
    <2>1. T = {}
      BY FS_Subset, FS_EmptySet, FS_CardinalityType
    <2> QED BY <2>1
  <1>2. ASSUME NEW n \in Nat, n \in N PROVE n + 1 \in N
    <2> SUFFICES ASSUME NEW T \in SUBSET S, Cardinality(T) <= n + 1, NEW x \in T
                 PROVE  SumFunctionOnSet(f, T) = f[x] + SumFunctionOnSet(f, T \ {x})
      OBVIOUS
    <2> DEFINE c == First(T)
    <2>1. IsFiniteSet(T) /\ c \in T
      BY FS_Subset, FirstIn
    <2>2. SumFunctionOnSet(f, T) = f[c] + SumFunctionOnSet(f, T \ {c})
      BY <2>1, SumFirst
    <2>3. CASE x = c
      BY <2>2, <2>3
    <2>4. CASE x # c
      <3>1. T \ {c} \in SUBSET S /\ Cardinality(T \ {c}) <= n
        BY <2>1, SmallerRest
      <3>2. T \ {x} \in SUBSET S /\ Cardinality(T \ {x}) <= n
        <4>1. Cardinality(T \ {x}) = Cardinality(T) - 1 /\ Cardinality(T) \in Nat
          BY <2>1, FS_RemoveElement, FS_CardinalityType
        <4> QED BY <4>1
      <3>3. Splits(T \ {c}) /\ Splits(T \ {x})
        BY <1>2, <3>1, <3>2
      <3> DEFINE R == (T \ {c}) \ {x}
      <3>4. R = (T \ {x}) \ {c}
        OBVIOUS
      <3>5. SumFunctionOnSet(f, T \ {c}) = f[x] + SumFunctionOnSet(f, R)
        BY <2>4, <3>3
      <3>6. SumFunctionOnSet(f, T \ {x}) = f[c] + SumFunctionOnSet(f, R)
        BY <2>1, <2>4, <3>3, <3>4
      <3>7. f[x] \in Int /\ f[c] \in Int /\ SumFunctionOnSet(f, R) \in Int
        <4>1. IsFiniteSet(R) /\ \A y \in R : f[y] \in Int
          BY <2>1, FS_Subset
        <4> HIDE DEF R
        <4>2. SumFunctionOnSet(f, R) \in Int
          BY <4>1, SumType
        <4> QED BY <2>1, <4>2
      <3> HIDE DEF R, c
      <3> QED BY <2>2, <3>5, <3>6, <3>7
    <2> QED BY <2>3, <2>4
  <1> HIDE DEF N
  <1>3. Nat \subseteq N
    BY <1>1, <1>2, Induction
  <1>4. Cardinality(S) \in N
    BY <1>3, FS_CardinalityType
  <1> QED BY <1>4 DEF N

\* One more term.
LEMMA SumAdd ==
  ASSUME NEW f, NEW S, IsFiniteSet(S), \A x \in S : f[x] \in Int,
         NEW e, e \notin S, f[e] \in Int
  PROVE  SumFunctionOnSet(f, S \union {e}) = SumFunctionOnSet(f, S) + f[e]
  <1> DEFINE T == S \union {e}
  <1>1. IsFiniteSet(T)
    BY FS_AddElement
  <1>2. e \in T /\ T \ {e} = S /\ \A x \in T : f[x] \in Int
    OBVIOUS
  <1> HIDE DEF T
  <1>3. SumFunctionOnSet(f, T) = f[e] + SumFunctionOnSet(f, S)
    BY <1>1, <1>2, SumRemove
  <1>4. SumFunctionOnSet(f, S) \in Int
    BY SumType
  <1> QED BY <1>3, <1>4 DEF T

\* Equal terms, equal sums.
LEMMA SumSame ==
  ASSUME NEW f, NEW g, NEW S, IsFiniteSet(S), \A x \in S : f[x] \in Int,
         \A x \in S : f[x] = g[x]
  PROVE  SumFunctionOnSet(f, S) = SumFunctionOnSet(g, S)
  <1> DEFINE P == {T \in SUBSET S : SumFunctionOnSet(f, T) = SumFunctionOnSet(g, T)}
  <1>1. {} \in P
    BY SumEmpty
  <1>2. ASSUME NEW T \in SUBSET S, NEW x \in S \ T, T \in P PROVE T \union {x} \in P
    <2>1. IsFiniteSet(T)
      BY FS_Subset
    <2>2. /\ SumFunctionOnSet(f, T \union {x}) = SumFunctionOnSet(f, T) + f[x]
          /\ SumFunctionOnSet(g, T \union {x}) = SumFunctionOnSet(g, T) + g[x]
      BY <2>1, SumAdd
    <2> QED BY <1>2, <2>2
  <1> HIDE DEF P
  <1>3. S \in P
    BY <1>1, <1>2, SubsetInduction
  <1> QED BY <1>3 DEF P

\* Terms that are zero may be left out.
LEMMA SumSupport ==
  ASSUME NEW f, NEW S, IsFiniteSet(S), \A x \in S : f[x] \in Int,
         NEW T \in SUBSET S, \A x \in S \ T : f[x] = 0
  PROVE  SumFunctionOnSet(f, S) = SumFunctionOnSet(f, T)
  <1> DEFINE P == {U \in SUBSET S : SumFunctionOnSet(f, U) = SumFunctionOnSet(f, U \intersect T)}
  <1>1. {} \in P
    OBVIOUS
  <1>2. ASSUME NEW U \in SUBSET S, NEW x \in S \ U, U \in P PROVE U \union {x} \in P
    <2>1. IsFiniteSet(U) /\ IsFiniteSet(U \intersect T)
      BY FS_Subset
    <2>2. SumFunctionOnSet(f, U \union {x}) = SumFunctionOnSet(f, U) + f[x]
      BY <2>1, SumAdd
    <2>3. CASE x \in T
      <3>1. (U \union {x}) \intersect T = (U \intersect T) \union {x}
        BY <2>3
      <3>2. SumFunctionOnSet(f, (U \intersect T) \union {x}) = SumFunctionOnSet(f, U \intersect T) + f[x]
        BY <2>1, SumAdd
      <3> QED BY <1>2, <2>2, <3>1, <3>2
    <2>4. CASE x \notin T
      <3>1. (U \union {x}) \intersect T = U \intersect T /\ f[x] = 0
        BY <2>4
      <3>2. SumFunctionOnSet(f, U) \in Int
        BY <2>1, SumType
      <3>3. SumFunctionOnSet(f, U) + 0 = SumFunctionOnSet(f, U)
        BY <3>2
      <3> QED BY <1>2, <2>2, <3>1, <3>3
    <2> QED BY <2>3, <2>4
  <1> HIDE DEF P
  <1>3. S \in P
    BY <1>1, <1>2, SubsetInduction
  <1>4. S \intersect T = T
    OBVIOUS
  <1> QED BY <1>3, <1>4 DEF P

\* A sum of one term.
LEMMA SumOne ==
  ASSUME NEW f, NEW e, f[e] \in Int
  PROVE  SumFunctionOnSet(f, {e}) = f[e]
  <1>1. SumFunctionOnSet(f, {} \union {e}) = SumFunctionOnSet(f, {}) + f[e]
    BY SumAdd, FS_EmptySet
  <1>2. {} \union {e} = {e}
    OBVIOUS
  <1> QED BY <1>1, <1>2, SumEmpty

\* One term changes, and the sum by as much.
LEMMA SumChange ==
  ASSUME NEW f, NEW g, NEW S, IsFiniteSet(S), NEW e \in S,
         \A x \in S : f[x] \in Int /\ g[x] \in Int,
         \A x \in S \ {e} : f[x] = g[x]
  PROVE  SumFunctionOnSet(g, S) = SumFunctionOnSet(f, S) + (g[e] - f[e])
  <1>1. IsFiniteSet(S \ {e})
    BY FS_Subset
  <1>2. SumFunctionOnSet(f, S \ {e}) = SumFunctionOnSet(g, S \ {e})
    BY <1>1, SumSame
  <1>3. /\ SumFunctionOnSet(f, S) = f[e] + SumFunctionOnSet(f, S \ {e})
        /\ SumFunctionOnSet(g, S) = g[e] + SumFunctionOnSet(g, S \ {e})
    BY SumRemove
  <1>4. SumFunctionOnSet(f, S \ {e}) \in Int
    BY <1>1, SumType
  <1> QED BY <1>2, <1>3, <1>4

\* A sum over S is the sum over a set that S is in one-to-one correspondence with.
LEMMA SumImage ==
  ASSUME NEW S, IsFiniteSet(S), NEW f, NEW g, NEW b,
         \A x \in S : f[x] \in Int /\ g[b[x]] = f[x],
         \A x, y \in S : b[x] = b[y] => x = y
  PROVE  SumFunctionOnSet(f, S) = SumFunctionOnSet(g, {b[x] : x \in S})
  <1> DEFINE Image(T) == {b[x] : x \in T}
             P == {T \in SUBSET S : /\ IsFiniteSet(Image(T))
                                    /\ SumFunctionOnSet(f, T) = SumFunctionOnSet(g, Image(T))}
  <1>1. {} \in P
    <2>1. Image({}) = {}
      OBVIOUS
    <2> QED BY <2>1, SumEmpty, FS_EmptySet
  <1>2. ASSUME NEW T \in SUBSET S, NEW x \in S \ T, T \in P PROVE T \union {x} \in P
    <2>1. Image(T \union {x}) = Image(T) \union {b[x]} /\ b[x] \notin Image(T)
      OBVIOUS
    <2>2. IsFiniteSet(T)
      BY FS_Subset
    <2>3. \A y \in Image(T) : g[y] \in Int
      OBVIOUS
    <2>4. IsFiniteSet(Image(T)) /\ SumFunctionOnSet(f, T) = SumFunctionOnSet(g, Image(T))
      BY <1>2
    <2>5. f[x] \in Int /\ g[b[x]] = f[x] /\ \A y \in T : f[y] \in Int
      OBVIOUS
    <2>6. T \union {x} \in SUBSET S
      OBVIOUS
    <2> HIDE DEF Image
    <2>7. SumFunctionOnSet(f, T \union {x}) = SumFunctionOnSet(f, T) + f[x]
      BY <1>2, <2>2, <2>5, SumAdd
    <2>8. SumFunctionOnSet(g, Image(T) \union {b[x]}) = SumFunctionOnSet(g, Image(T)) + g[b[x]]
      BY <2>1, <2>3, <2>4, <2>5, SumAdd
    <2>9. IsFiniteSet(Image(T \union {x}))
      <3>1. IsFiniteSet(Image(T) \union {b[x]})
        BY <2>4, FS_AddElement
      <3> QED BY <2>1, <3>1
    <2> QED BY <2>1, <2>4, <2>5, <2>6, <2>7, <2>8, <2>9
  <1> HIDE DEF P
  <1>3. S \in P
    BY <1>1, <1>2, SubsetInduction
  <1> QED BY <1>3 DEF P

-----------------------------------------------------------------------------
(* Sums over the whole domain of a function. *)

\* The sum of a finite table of integers is an integer.
LEMMA TableType ==
  ASSUME NEW S, IsFiniteSet(S), NEW f \in [S -> Int]
  PROVE  SumFunction(f) \in Int
  BY SumType DEF SumFunction

\* A table with one more row.
LEMMA TableRow ==
  ASSUME NEW S, IsFiniteSet(S), NEW f \in [S -> Int],
         NEW e, e \notin S, NEW g \in [S \union {e} -> Int], \A x \in S : g[x] = f[x]
  PROVE  SumFunction(g) = SumFunction(f) + g[e]
  <1>1. SumFunction(g) = SumFunctionOnSet(g, S \union {e}) /\ SumFunction(f) = SumFunctionOnSet(f, S)
    BY DEF SumFunction
  <1>2. \A x \in S : f[x] \in Int /\ g[x] \in Int
    OBVIOUS
  <1>3. SumFunctionOnSet(g, S \union {e}) = SumFunctionOnSet(g, S) + g[e]
    BY <1>2, SumAdd
  <1>4. SumFunctionOnSet(f, S) = SumFunctionOnSet(g, S)
    BY <1>2, SumSame
  <1> QED BY <1>1, <1>3, <1>4

\* A table with one row changed.
LEMMA TableChange ==
  ASSUME NEW S, IsFiniteSet(S), NEW f \in [S -> Int], NEW g \in [S -> Int], NEW e \in S,
         \A x \in S \ {e} : f[x] = g[x]
  PROVE  SumFunction(g) = SumFunction(f) + (g[e] - f[e])
  BY SumChange DEF SumFunction
=============================================================================
