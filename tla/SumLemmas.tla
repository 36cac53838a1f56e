------------------------------ MODULE SumLemmas -------------------------------
(***************************************************************************)
(* What SumFunctionOnSet returns.  The library defines it by a recursive   *)
(* function over the subsets of the index set that takes the elements in   *)
(* an arbitrary order; here it is shown that this function exists and that *)
(* the order does not matter.  Induction over the size of a set is carried *)
(* out as the choice of a smallest counterexample.                         *)
(***************************************************************************)
EXTENDS Functions, FiniteSetTheorems, TLAPS

\* The element the library's fold takes next.
Pick(s) == CHOOSE x \in s : TRUE

\* g[s] is the sum of f over s, for every subset s of S.
IsSum(g, f, S) ==
    g = [s \in SUBSET S |-> IF s = {} THEN 0 ELSE f[Pick(s)] + g[s \ {Pick(s)}]]

-----------------------------------------------------------------------------
(* Induction                                                               *)

\* A nonempty set of natural numbers has a least element.
LEMMA LeastNumber ==
    ASSUME NEW N \in SUBSET Nat, N # {}
    PROVE  \E n \in N : \A m \in N : n <= m
<1>1. PICK n \in N : \A m \in N : ~(<<m, n>> \in OpToRel(<, Nat))
  BY WFMin, NatLessThanWellFounded
<1>2. \A m \in N : ~(m < n)
  BY <1>1 DEF OpToRel
<1> QED
  BY <1>2

\* A family of finite sets that is not empty has a smallest member.
LEMMA SmallestSet ==
    ASSUME NEW B, B # {}, \A s \in B : IsFiniteSet(s)
    PROVE  \E s \in B : \A t \in B : Cardinality(s) <= Cardinality(t)
<1> DEFINE N == {Cardinality(s) : s \in B}
<1>1. N \in SUBSET Nat /\ N # {}
  BY FS_CardinalityType
<1>2. PICK n \in N : \A m \in N : n <= m
  BY <1>1, LeastNumber
<1> QED
  BY <1>2

\* Taking the chosen element away makes a set smaller.
LEMMA PickSmaller ==
    ASSUME NEW s, IsFiniteSet(s), NEW x \in s
    PROVE  /\ Pick(s) \in s
           /\ IsFiniteSet(s \ {x}) /\ Cardinality(s) \in Nat /\ Cardinality(s \ {x}) \in Nat
           /\ Cardinality(s \ {x}) = Cardinality(s) - 1
           /\ ~(Cardinality(s) <= Cardinality(s \ {x}))
<1>1. Pick(s) \in s
  BY DEF Pick
<1>2. /\ IsFiniteSet(s \ {x}) /\ Cardinality(s) \in Nat /\ Cardinality(s \ {x}) \in Nat
      /\ Cardinality(s \ {x}) = Cardinality(s) - 1
  BY FS_RemoveElement, FS_CardinalityType
<1>3. ~(Cardinality(s) <= Cardinality(s \ {x}))
  BY <1>2
<1> QED
  BY <1>1, <1>2, <1>3

-----------------------------------------------------------------------------
(* The recursive function                                                  *)

\* It exists: up to every size there is a function that satisfies the
\* equation for the sets of at most that size.
LEMMA SumExists ==
    ASSUME NEW S, IsFiniteSet(S), NEW f, \A x \in S : f[x] \in Nat
    PROVE  \E g \in [SUBSET S -> Nat] : IsSum(g, f, S)
<1> DEFINE Body(g, s) == IF s = {} THEN 0 ELSE f[Pick(s)] + g[s \ {Pick(s)}]
<1> DEFINE UpTo(n, g) == \A s \in SUBSET S : Cardinality(s) <= n => g[s] = Body(g, s)
<1> DEFINE N == {n \in Nat : \A g \in [SUBSET S -> Nat] : ~UpTo(n, g)}
<1>1. \A s \in SUBSET S : IsFiniteSet(s) /\ Cardinality(s) \in Nat
                          /\ Cardinality(s) <= Cardinality(S)
  BY FS_Subset, FS_CardinalityType
<1>2. \A s \in SUBSET S : s # {} =>
         /\ Pick(s) \in S /\ s \ {Pick(s)} \in SUBSET S
         /\ Cardinality(s \ {Pick(s)}) = Cardinality(s) - 1
  BY <1>1, PickSmaller
<1>3. \A s \in SUBSET S : Cardinality(s) <= 0 => s = {}
  BY <1>1, FS_EmptySet
<1>4. \A g \in [SUBSET S -> Nat], s \in SUBSET S : Body(g, s) \in Nat
  <2>1. ASSUME NEW g \in [SUBSET S -> Nat], NEW s \in SUBSET S PROVE Body(g, s) \in Nat
    <3>1. CASE s = {}
      BY <3>1
    <3>2. CASE s # {}
      <4>1. f[Pick(s)] \in Nat /\ g[s \ {Pick(s)}] \in Nat
        BY <1>2, <3>2
      <4> QED
        BY <3>2, <4>1
    <3> QED
      BY <3>1, <3>2
  <2> QED
    BY <2>1
<1>5. N = {}
  <2> SUFFICES ASSUME N # {} PROVE FALSE
    OBVIOUS
  <2>1. PICK n \in N : \A m \in N : n <= m
    BY LeastNumber
  <2>2. n # 0
    <3> DEFINE g == [s \in SUBSET S |-> 0]
    <3>1. g \in [SUBSET S -> Nat] /\ UpTo(0, g)
      BY <1>3
    <3> HIDE DEF g, UpTo
    <3> QED
      BY <3>1
  <2>3. n \in Nat /\ n - 1 \in Nat /\ n - 1 \notin N
    <3>1. n \in Nat /\ n - 1 \in Nat /\ ~(n <= n - 1)
      BY <2>2
    <3> HIDE DEF N
    <3> QED
      BY <2>1, <3>1
  <2>4. PICK g \in [SUBSET S -> Nat] : UpTo(n - 1, g)
    BY <2>3
  <2> DEFINE h == [s \in SUBSET S |-> IF Cardinality(s) <= n - 1 THEN g[s] ELSE Body(g, s)]
  <2>5. h \in [SUBSET S -> Nat]
    BY <1>4
  <2>6. ASSUME NEW s \in SUBSET S, Cardinality(s) <= n PROVE h[s] = Body(h, s)
    <3>1. h[s] = Body(g, s)
      BY <2>4
    <3>2. CASE s = {}
      BY <3>1, <3>2
    <3>3. CASE s # {}
      <4>1. /\ s \ {Pick(s)} \in SUBSET S /\ Cardinality(s \ {Pick(s)}) <= n - 1
        BY <1>1, <1>2, <2>3, <2>6, <3>3
      <4>2. h[s \ {Pick(s)}] = g[s \ {Pick(s)}]
        BY <4>1
      <4> QED
        BY <3>1, <3>3, <4>2
    <3> QED
      BY <3>2, <3>3
  <2>7. UpTo(n, h)
    BY <2>6
  <2> HIDE DEF h, UpTo
  <2> QED
    BY <2>1, <2>5, <2>7
<1>6. Cardinality(S) \in Nat
  BY FS_CardinalityType
<1>7. PICK g \in [SUBSET S -> Nat] : UpTo(Cardinality(S), g)
  BY <1>5, <1>6
<1>8. \A s \in SUBSET S : g[s] = Body(g, s)
  BY <1>1, <1>7
<1> QED
  BY <1>8 DEF IsSum

\* The value of the library's operator comes from such a function.
LEMMA SumIsChosen ==
    ASSUME NEW f, NEW S, NEW h, IsSum(h, f, S)
    PROVE  \E g : IsSum(g, f, S) /\ SumFunctionOnSet(f, S) = g[S]
<1> DEFINE iter == CHOOSE g :
              g = [s \in SUBSET S |->
                     IF s = {} THEN 0
                     ELSE f[CHOOSE x \in s : TRUE] + g[s \ {CHOOSE x \in s : TRUE}]]
<1>1. SumFunctionOnSet(f, S) = iter[S]
  BY DEF SumFunctionOnSet, FoldFunctionOnSet, MapThenFoldSet
<1>2. IsSum(iter, f, S)
  BY DEF IsSum, Pick
<1> QED
  BY <1>1, <1>2

\* Two such functions agree where the summands do.
LEMMA SumsAgree ==
    ASSUME NEW S, IsFiniteSet(S), NEW T, S \subseteq T, NEW f, NEW h,
           \A x \in S : f[x] = h[x],
           NEW g, IsSum(g, f, S), NEW k, IsSum(k, h, T)
    PROVE  g[S] = k[S]
<1> DEFINE B == {s \in SUBSET S : g[s] # k[s]}
<1>1. \A s \in SUBSET S : IsFiniteSet(s)
  BY FS_Subset
<1>2. B = {}
  <2> SUFFICES ASSUME B # {} PROVE FALSE
    OBVIOUS
  <2>1. PICK s \in B : \A t \in B : Cardinality(s) <= Cardinality(t)
    BY <1>1, SmallestSet
  <2>2. /\ g[s] = IF s = {} THEN 0 ELSE f[Pick(s)] + g[s \ {Pick(s)}]
        /\ k[s] = IF s = {} THEN 0 ELSE h[Pick(s)] + k[s \ {Pick(s)}]
    BY <2>1 DEF IsSum
  <2>3. s # {}
    BY <2>1, <2>2
  <2>4. /\ Pick(s) \in s /\ s \ {Pick(s)} \in SUBSET S
        /\ ~(Cardinality(s) <= Cardinality(s \ {Pick(s)}))
    <3>1. IsFiniteSet(s) /\ s \in SUBSET S /\ Pick(s) \in s
      BY <1>1, <2>1, <2>3 DEF Pick
    <3> QED
      BY <3>1, PickSmaller
  <2>5. g[s \ {Pick(s)}] = k[s \ {Pick(s)}]
    BY <2>1, <2>4
  <2> QED
    BY <2>1, <2>2, <2>3, <2>4, <2>5
<1> QED
  BY <1>2

\* The elements can be taken in any order.
LEMMA SumAnyOrder ==
    ASSUME NEW S, IsFiniteSet(S), NEW f, \A x \in S : f[x] \in Nat,
           NEW g \in [SUBSET S -> Nat], IsSum(g, f, S), NEW y \in S
    PROVE  g[S] = f[y] + g[S \ {y}]
<1> DEFINE B == {s \in SUBSET S : \E x \in s : g[s] # f[x] + g[s \ {x}]}
<1>1. \A s \in SUBSET S : IsFiniteSet(s)
  BY FS_Subset
<1>2. B = {}
  <2> SUFFICES ASSUME B # {} PROVE FALSE
    OBVIOUS
  <2>1. PICK s \in B : \A t \in B : Cardinality(s) <= Cardinality(t)
    BY <1>1, SmallestSet
  <2>2. PICK x \in s : g[s] # f[x] + g[s \ {x}]
    BY <2>1
  <2> DEFINE p == Pick(s)
  <2>3. p \in s /\ g[s] = f[p] + g[s \ {p}]
    BY <1>1, <2>1, <2>2, PickSmaller DEF IsSum
  <2>4. p # x
    BY <2>2, <2>3
  <2>5. /\ s \ {p} \in SUBSET S /\ s \ {p} \notin B
        /\ s \ {x} \in SUBSET S /\ s \ {x} \notin B
    <3>1. /\ ~(Cardinality(s) <= Cardinality(s \ {p}))
          /\ ~(Cardinality(s) <= Cardinality(s \ {x}))
      <4>1. IsFiniteSet(s)
        BY <1>1, <2>1
      <4> HIDE DEF p
      <4> QED
        BY <2>2, <2>3, <4>1, PickSmaller
    <3> QED
      BY <2>1, <3>1
  <2> HIDE DEF p
  <2>6. g[s \ {p}] = f[x] + g[(s \ {p}) \ {x}]
    BY <2>2, <2>4, <2>5
  <2>7. g[s \ {x}] = f[p] + g[(s \ {x}) \ {p}]
    BY <2>3, <2>4, <2>5
  <2>8. (s \ {p}) \ {x} = (s \ {x}) \ {p} /\ (s \ {x}) \ {p} \in SUBSET S
    BY <2>5
  <2>9. f[p] \in Nat /\ f[x] \in Nat /\ g[(s \ {x}) \ {p}] \in Nat
    BY <2>1, <2>2, <2>3, <2>8
  <2>10. g[s] = f[x] + g[s \ {x}]
    <3> DEFINE c == g[(s \ {x}) \ {p}]
    <3>1. g[s] = f[p] + (f[x] + c) /\ g[s \ {x}] = f[p] + c
      BY <2>3, <2>6, <2>7, <2>8
    <3>2. f[p] \in Nat /\ f[x] \in Nat /\ c \in Nat
      BY <2>9
    <3> HIDE DEF c
    <3> QED
      BY <3>1, <3>2
  <2> QED
    BY <2>2, <2>10
<1> QED
  BY <1>2

-----------------------------------------------------------------------------
(* The operator                                                            *)

\* A sum of natural numbers is one, the sum over the empty set is 0, and any
\* element can be taken out first.
LEMMA SumValue ==
    ASSUME NEW S, IsFiniteSet(S), NEW f, \A x \in S : f[x] \in Nat
    PROVE  /\ SumFunctionOnSet(f, S) \in Nat
           /\ S = {} => SumFunctionOnSet(f, S) = 0
           /\ \A x \in S :
                 SumFunctionOnSet(f, S) = f[x] + SumFunctionOnSet(f, S \ {x})
<1>1. PICK h \in [SUBSET S -> Nat] : IsSum(h, f, S)
  BY SumExists
<1>2. PICK g : IsSum(g, f, S) /\ SumFunctionOnSet(f, S) = g[S]
  BY <1>1, SumIsChosen
<1>3. g[S] = h[S]
  BY <1>1, <1>2, SumsAgree
<1>4. h[S] \in Nat /\ (S = {} => h[S] = 0)
  BY <1>1 DEF IsSum
<1>5. ASSUME NEW x \in S PROVE h[S] = f[x] + SumFunctionOnSet(f, S \ {x})
  <2> DEFINE R == S \ {x}
  <2>1. IsFiniteSet(R) /\ R \subseteq S /\ \A y \in R : f[y] \in Nat
    BY FS_Subset
  <2>2. h[S] = f[x] + h[R]
    BY <1>1, SumAnyOrder
  <2> HIDE DEF R
  <2>3. PICK j \in [SUBSET R -> Nat] : IsSum(j, f, R)
    BY <2>1, SumExists
  <2>4. PICK k : IsSum(k, f, R) /\ SumFunctionOnSet(f, R) = k[R]
    BY <2>3, SumIsChosen
  <2>5. k[R] = h[R]
    BY <1>1, <2>1, <2>4, SumsAgree
  <2>6. h[S] = f[x] + SumFunctionOnSet(f, R)
    BY <2>2, <2>4, <2>5
  <2> QED
    BY <2>6 DEF R
<1> QED
  BY <1>2, <1>3, <1>4, <1>5

\* The sum depends on the summands over the set only.
LEMMA SumCongruence ==
    ASSUME NEW S, IsFiniteSet(S), NEW f, NEW h,
           \A x \in S : f[x] \in Nat /\ f[x] = h[x]
    PROVE  SumFunctionOnSet(f, S) = SumFunctionOnSet(h, S)
<1>1. PICK g1 \in [SUBSET S -> Nat] : IsSum(g1, f, S)
  BY SumExists
<1>2. PICK g2 \in [SUBSET S -> Nat] : IsSum(g2, h, S)
  <2>1. \A x \in S : h[x] \in Nat
    OBVIOUS
  <2> QED
    BY <2>1, SumExists
<1>3. PICK g : IsSum(g, f, S) /\ SumFunctionOnSet(f, S) = g[S]
  BY <1>1, SumIsChosen
<1>4. PICK k : IsSum(k, h, S) /\ SumFunctionOnSet(h, S) = k[S]
  BY <1>2, SumIsChosen
<1>5. g[S] = k[S]
  BY <1>3, <1>4, SumsAgree
<1> QED
  BY <1>3, <1>4, <1>5

=============================================================================
