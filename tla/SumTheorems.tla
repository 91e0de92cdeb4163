------------------------------ MODULE SumTheorems ------------------------------
(***************************************************************************)
(* Sums of functions with finite domains (SumFunction of the community     *)
(* module Functions): how a sum changes with one of its terms.             *)
(*                                                                         *)
(* The library's induction principles take the induction formula as an     *)
(* operator; the inductions here are over the set of numbers for which the *)
(* formula holds, with the well-foundedness of < on the naturals.          *)
(***************************************************************************)
EXTENDS Functions, FiniteSetTheorems, TLAPS

LEMMA NatSetInduction ==
  ASSUME NEW B, 0 \in B, \A n \in Nat : n \in B => n + 1 \in B
  PROVE  Nat \subseteq B
<1> DEFINE T == Nat \ B
<1> SUFFICES ASSUME T # {} PROVE FALSE
  OBVIOUS
<1>1. PICK x \in T : \A y \in T : ~(<<y, x>> \in OpToRel(<, Nat))
  <2>1. IsWellFoundedOn(OpToRel(<, Nat), Nat)
    BY NatLessThanWellFounded
  <2> QED
    BY <2>1, WFMin
<1>2. x - 1 \in Nat /\ x - 1 \notin T
  <2>1. x # 0
    OBVIOUS
  <2>2. x - 1 \in Nat /\ x - 1 < x
    BY <2>1
  <2>3. <<x - 1, x>> \in OpToRel(<, Nat)
    BY <2>2 DEF OpToRel
  <2> QED
    BY <1>1, <2>2, <2>3
<1> QED
  BY <1>2

\* The equation that defines a sum, read as a property of a function from the
\* subsets of S to numbers, for the subsets of at most n elements.
SumsUpTo(g, f, S, n) ==
  \A s \in SUBSET S :
    Cardinality(s) <= n
    => g[s] = IF s = {} THEN 0
              ELSE f[CHOOSE x \in s : TRUE] + g[s \ {CHOOSE x \in s : TRUE}]

LEMMA SumsExist ==
  ASSUME NEW S, IsFiniteSet(S), NEW f \in [S -> Int]
  PROVE  \E g \in [SUBSET S -> Int] : SumsUpTo(g, f, S, Cardinality(S))
<1> DEFINE B == {n \in Nat : \E g \in [SUBSET S -> Int] : SumsUpTo(g, f, S, n)}
<1>1. 0 \in B
  <2> DEFINE g == [s \in SUBSET S |-> 0]
  <2>1. ASSUME NEW s \in SUBSET S, Cardinality(s) <= 0 PROVE s = {}
    BY <2>1, FS_Subset, FS_EmptySet, FS_CardinalityType
  <2>2. g \in [SUBSET S -> Int] /\ SumsUpTo(g, f, S, 0)
    BY <2>1 DEF SumsUpTo
  <2> QED
    BY <2>2
<1>2. ASSUME NEW n \in Nat, n \in B PROVE n + 1 \in B
  <2>1. PICK g \in [SUBSET S -> Int] : SumsUpTo(g, f, S, n)
    BY <1>2
  <2> DEFINE c(s) == CHOOSE x \in s : TRUE
             h == [s \in SUBSET S |-> IF Cardinality(s) = n + 1 THEN f[c(s)] + g[s \ {c(s)}] ELSE g[s]]
  <2>2. ASSUME NEW s \in SUBSET S, s # {}
        PROVE  /\ c(s) \in s /\ c(s) \in S /\ s \ {c(s)} \in SUBSET S
               /\ Cardinality(s) \in Nat
               /\ Cardinality(s \ {c(s)}) = Cardinality(s) - 1
    BY <2>2, FS_Subset, FS_RemoveElement, FS_CardinalityType
  <2>3. ASSUME NEW s \in SUBSET S PROVE Cardinality(s) \in Nat
    BY FS_Subset, FS_CardinalityType
  <2>4. Cardinality({}) = 0
    BY FS_EmptySet
  <2>5. h \in [SUBSET S -> Int]
    <3>1. ASSUME NEW s \in SUBSET S PROVE h[s] \in Int
      <4>1. CASE Cardinality(s) = n + 1
        <5>1. s # {}
          <6>1. Cardinality(s) # 0
            BY <4>1
          <6> QED
            BY <6>1, <2>4
        <5> QED
          BY <5>1, <4>1, <2>2
      <4> QED
        BY <4>1
    <3> QED
      BY <3>1
  <2>6. SumsUpTo(h, f, S, n + 1)
    <3> SUFFICES ASSUME NEW s \in SUBSET S, Cardinality(s) <= n + 1
                 PROVE  h[s] = IF s = {} THEN 0 ELSE f[c(s)] + h[s \ {c(s)}]
      BY DEF SumsUpTo
    <3>1. CASE s = {}
      BY <3>1, <2>4, <2>1 DEF SumsUpTo
    <3>2. CASE s # {}
      <4>1. h[s \ {c(s)}] = g[s \ {c(s)}]
        BY <3>2, <2>2
      <4>2. h[s] = f[c(s)] + g[s \ {c(s)}]
        <5>1. CASE Cardinality(s) = n + 1
          BY <5>1
        <5>2. CASE Cardinality(s) <= n
          <6>1. g[s] = f[c(s)] + g[s \ {c(s)}]
            BY <5>2, <2>1, <3>2 DEF SumsUpTo
          <6> QED
            BY <6>1, <5>2, <2>3
        <5> QED
          BY <5>1, <5>2, <2>3
      <4> QED
        BY <4>1, <4>2, <3>2
    <3> QED
      BY <3>1, <3>2
  <2> HIDE DEF h
  <2>7. \E k \in [SUBSET S -> Int] : SumsUpTo(k, f, S, n + 1)
    BY <2>5, <2>6
  <2> QED
    BY <2>7
<1>3. Cardinality(S) \in Nat
  BY FS_CardinalityType
<1> HIDE DEF B
<1>4. Nat \subseteq B
  BY <1>1, <1>2, NatSetInduction
<1> QED
  BY <1>3, <1>4 DEF B

\* The same equation for every subset.
IsSum(g, f, S) ==
  \A s \in SUBSET S :
    g[s] = IF s = {} THEN 0
           ELSE f[CHOOSE x \in s : TRUE] + g[s \ {CHOOSE x \in s : TRUE}]

\* Solutions agree on a set when the functions summed do.
LEMMA SumsAgree ==
  ASSUME NEW S, NEW f, NEW g, IsSum(g, f, S),
         NEW R, NEW e, NEW h, IsSum(h, e, R),
         NEW T, IsFiniteSet(T), T \subseteq S, T \subseteq R,
         \A x \in T : f[x] = e[x]
  PROVE  g[T] = h[T]
<1> DEFINE B == {n \in Nat : \A s \in SUBSET T : Cardinality(s) <= n => g[s] = h[s]}
           c(s) == CHOOSE x \in s : TRUE
<1>1. ASSUME NEW s \in SUBSET T
      PROVE  Cardinality(s) \in Nat /\ (Cardinality(s) = 0 <=> s = {})
  BY FS_Subset, FS_CardinalityType, FS_EmptySet
<1>2. ASSUME NEW s \in SUBSET T, s # {}
      PROVE  /\ c(s) \in T
             /\ s \ {c(s)} \in SUBSET T
             /\ Cardinality(s \ {c(s)}) = Cardinality(s) - 1
             /\ g[s] = f[c(s)] + g[s \ {c(s)}]
             /\ h[s] = f[c(s)] + h[s \ {c(s)}]
  <2>1. c(s) \in s
    BY <1>2
  <2>2. Cardinality(s \ {c(s)}) = Cardinality(s) - 1
    BY <2>1, FS_Subset, FS_RemoveElement
  <2>3. s \in SUBSET S /\ s \in SUBSET R /\ f[c(s)] = e[c(s)]
    BY <2>1
  <2> QED
    BY <1>2, <2>1, <2>2, <2>3 DEF IsSum
<1>3. 0 \in B
  <2>1. ASSUME NEW s \in SUBSET T, Cardinality(s) <= 0 PROVE g[s] = h[s]
    <3>1. s = {}
      BY <1>1, <2>1
    <3> QED
      BY <3>1 DEF IsSum
  <2> QED
    BY <2>1
<1>4. ASSUME NEW n \in Nat, n \in B PROVE n + 1 \in B
  <2>1. ASSUME NEW s \in SUBSET T, Cardinality(s) <= n + 1 PROVE g[s] = h[s]
    <3>1. CASE s = {}
      BY <3>1 DEF IsSum
    <3>2. CASE s # {}
      <4>1. Cardinality(s \ {c(s)}) <= n
        BY <1>1, <1>2, <2>1, <3>2
      <4>2. g[s \ {c(s)}] = h[s \ {c(s)}]
        BY <1>2, <1>4, <3>2, <4>1
      <4> QED
        BY <1>2, <3>2, <4>2
    <3> QED
      BY <3>1, <3>2
  <2> QED
    BY <2>1
<1> HIDE DEF B
<1>5. Nat \subseteq B
  BY <1>3, <1>4, NatSetInduction
<1> QED
  BY <1>1, <1>5 DEF B

\* Any element can be taken out first.
Removes(g, f, S) == \A x \in S : g[S] = f[x] + g[S \ {x}]

LEMMA SumRemoves ==
  ASSUME NEW S, IsFiniteSet(S), NEW f \in [S -> Int],
         NEW g \in [SUBSET S -> Int], IsSum(g, f, S)
  PROVE  Removes(g, f, S)
<1> USE DEF Removes
<1> DEFINE B == {n \in Nat : \A s \in SUBSET S : Cardinality(s) <= n => Removes(g, f, s)}
           c(s) == CHOOSE x \in s : TRUE
<1>1. ASSUME NEW s \in SUBSET S
      PROVE  Cardinality(s) \in Nat /\ (Cardinality(s) = 0 <=> s = {})
  BY FS_Subset, FS_CardinalityType, FS_EmptySet
<1>2. ASSUME NEW s \in SUBSET S, NEW x \in s
      PROVE  s \ {x} \in SUBSET S /\ Cardinality(s \ {x}) = Cardinality(s) - 1
  BY FS_Subset, FS_RemoveElement
<1>3. 0 \in B
  BY <1>1
<1>4. ASSUME NEW n \in Nat, n \in B PROVE n + 1 \in B
  <2> SUFFICES ASSUME NEW s \in SUBSET S, Cardinality(s) <= n + 1, NEW x \in s
               PROVE  g[s] = f[x] + g[s \ {x}]
    OBVIOUS
  <2>1. c(s) \in s
    OBVIOUS
  <2> DEFINE y == c(s)
  <2>2. g[s] = f[y] + g[s \ {y}]
    BY DEF IsSum
  <2> HIDE DEF y
  <2>3. CASE x = y
    BY <2>2, <2>3
  <2>4. CASE x # y
    <3>1. /\ s \ {x} \in SUBSET S /\ Cardinality(s \ {x}) <= n /\ y \in s \ {x}
          /\ s \ {y} \in SUBSET S /\ Cardinality(s \ {y}) <= n /\ x \in s \ {y}
      BY <1>1, <1>2, <2>1, <2>4 DEF y
    <3>2. g[s \ {x}] = f[y] + g[(s \ {x}) \ {y}]
      BY <1>4, <3>1
    <3>3. g[s \ {y}] = f[x] + g[(s \ {y}) \ {x}]
      BY <1>4, <3>1
    <3>4. (s \ {x}) \ {y} = (s \ {y}) \ {x}
      OBVIOUS
    <3>5. /\ f[x] \in Int /\ f[y] \in Int /\ g[(s \ {y}) \ {x}] \in Int
      BY <3>1
    <3>6. f[y] + (f[x] + g[(s \ {y}) \ {x}]) = f[x] + (f[y] + g[(s \ {y}) \ {x}])
      BY <3>5
    <3>7. g[s] = f[y] + (f[x] + g[(s \ {y}) \ {x}])
      BY <2>2, <3>3
    <3>8. f[x] + g[s \ {x}] = f[x] + (f[y] + g[(s \ {y}) \ {x}])
      BY <3>2, <3>4
    <3> QED
      BY <3>6, <3>7, <3>8
  <2> QED
    BY <2>3, <2>4
<1> HIDE DEF B
<1>5. Nat \subseteq B
  BY <1>3, <1>4, NatSetInduction
<1> QED
  BY <1>1, <1>5 DEF B

\* SumFunction is the solution, taken at the whole domain.
LEMMA SumFunctionIsSum ==
  ASSUME NEW S, IsFiniteSet(S), NEW f \in [S -> Int]
  PROVE  \E g \in [SUBSET S -> Int] : IsSum(g, f, S) /\ SumFunction(f) = g[S]
<1> DEFINE c(s) == CHOOSE x \in s : TRUE
           step(g) == [s \in SUBSET S |-> IF s = {} THEN 0 ELSE f[c(s)] + g[s \ {c(s)}]]
           iter == CHOOSE g : g = step(g)
<1>1. SumFunction(f) = iter[S]
  BY DEF SumFunction, SumFunctionOnSet, FoldFunctionOnSet, MapThenFoldSet
<1>2. PICK g \in [SUBSET S -> Int] : SumsUpTo(g, f, S, Cardinality(S))
  BY SumsExist
<1>3. IsSum(g, f, S)
  <2>1. ASSUME NEW s \in SUBSET S PROVE Cardinality(s) <= Cardinality(S)
    BY FS_Subset
  <2> QED
    BY <1>2, <2>1 DEF IsSum, SumsUpTo
<1>4. g = step(g)
  <2>1. ASSUME NEW s \in SUBSET S PROVE g[s] = step(g)[s]
    BY <1>3 DEF IsSum
  <2> QED
    BY <1>2, <2>1
<1>5. iter = step(iter)
  BY <1>4
<1> HIDE DEF iter
<1>6. ASSUME NEW s \in SUBSET S
      PROVE  iter[s] = IF s = {} THEN 0 ELSE f[c(s)] + iter[s \ {c(s)}]
  BY <1>5
<1>7. IsSum(iter, f, S)
  BY <1>6 DEF IsSum
<1>8. iter[S] = g[S]
  BY <1>3, <1>7, SumsAgree
<1> QED
  BY <1>1, <1>3, <1>8

-----------------------------------------------------------------------------

\* The sum of a function without terms, and its type.
LEMMA SumEmpty == ASSUME NEW f \in [{} -> Int] PROVE SumFunction(f) = 0
<1>1. PICK g \in [SUBSET {} -> Int] : IsSum(g, f, {}) /\ SumFunction(f) = g[{}]
  BY FS_EmptySet, SumFunctionIsSum
<1> QED
  BY <1>1 DEF IsSum

LEMMA SumType ==
  ASSUME NEW S, IsFiniteSet(S), NEW f \in [S -> Int]
  PROVE  SumFunction(f) \in Int
<1>1. PICK g \in [SUBSET S -> Int] : SumFunction(f) = g[S]
  BY SumFunctionIsSum
<1> QED
  BY <1>1

\* Changing one term changes the sum by the difference.
LEMMA SumExcept ==
  ASSUME NEW S, IsFiniteSet(S), NEW f \in [S -> Int], NEW w \in S, NEW v \in Int
  PROVE  SumFunction([f EXCEPT ![w] = v]) = SumFunction(f) - f[w] + v
<1> DEFINE e == [f EXCEPT ![w] = v]
<1>1. e \in [S -> Int] /\ e[w] = v /\ \A x \in S \ {w} : e[x] = f[x]
  OBVIOUS
<1> HIDE DEF e
<1>2. PICK g \in [SUBSET S -> Int] :
        SumFunction(f) = g[S] /\ IsSum(g, f, S) /\ Removes(g, f, S)
  BY SumFunctionIsSum, SumRemoves
<1>3. PICK h \in [SUBSET S -> Int] :
        SumFunction(e) = h[S] /\ IsSum(h, e, S) /\ Removes(h, e, S)
  BY <1>1, SumFunctionIsSum, SumRemoves
<1>4. h[S \ {w}] = g[S \ {w}]
  BY <1>1, <1>2, <1>3, SumsAgree, FS_RemoveElement
<1>5. f[w] \in Int /\ g[S \ {w}] \in Int
  OBVIOUS
<1> QED
  BY <1>1, <1>2, <1>3, <1>4, <1>5 DEF e, Removes

\* A sum of zeros.
LEMMA SumZero ==
  ASSUME NEW S, IsFiniteSet(S)
  PROVE  SumFunction([x \in S |-> 0]) = 0
<1> DEFINE f == [x \in S |-> 0]
           g == [s \in SUBSET S |-> 0]
<1>1. IsSum(g, f, S)
  BY DEF IsSum
<1>2. f \in [S -> Int]
  OBVIOUS
<1>3. g[S] = 0
  OBVIOUS
<1> HIDE DEF f, g
<1>4. PICK h \in [SUBSET S -> Int] : IsSum(h, f, S) /\ SumFunction(f) = h[S]
  BY <1>2, SumFunctionIsSum
<1> QED
  BY <1>1, <1>3, <1>4, SumsAgree DEF f

\* The sum of two functions, term by term.
LEMMA SumPlus ==
  ASSUME NEW S, IsFiniteSet(S), NEW f \in [S -> Int], NEW e \in [S -> Int]
  PROVE  SumFunction([x \in S |-> f[x] + e[x]]) = SumFunction(f) + SumFunction(e)
<1> DEFINE h == [x \in S |-> f[x] + e[x]]
<1>1. PICK F \in [SUBSET S -> Int] : IsSum(F, f, S) /\ SumFunction(f) = F[S]
  BY SumFunctionIsSum
<1>2. PICK E \in [SUBSET S -> Int] : IsSum(E, e, S) /\ SumFunction(e) = E[S]
  BY SumFunctionIsSum
<1>3. h \in [S -> Int]
  OBVIOUS
<1>4. PICK H \in [SUBSET S -> Int] : IsSum(H, h, S) /\ SumFunction(h) = H[S]
  BY <1>3, SumFunctionIsSum
<1> DEFINE K == [s \in SUBSET S |-> F[s] + E[s]]
<1>5. IsSum(K, h, S)
  <2> SUFFICES ASSUME NEW s \in SUBSET S
               PROVE  K[s] = IF s = {} THEN 0
                             ELSE h[CHOOSE x \in s : TRUE] + K[s \ {CHOOSE x \in s : TRUE}]
    BY DEF IsSum
  <2>1. CASE s = {}
    BY <1>1, <1>2, <2>1 DEF IsSum
  <2>2. CASE s # {}
    <3>1. PICK c : c = CHOOSE x \in s : TRUE
      OBVIOUS
    <3>2. c \in S /\ s \ {c} \in SUBSET S
      BY <2>2, <3>1
    <3>3. F[s] = f[c] + F[s \ {c}] /\ E[s] = e[c] + E[s \ {c}]
      BY <1>1, <1>2, <2>2, <3>1 DEF IsSum
    <3>4. f[c] \in Int /\ e[c] \in Int /\ F[s \ {c}] \in Int /\ E[s \ {c}] \in Int
      BY <3>2
    <3>5. K[s] = h[c] + K[s \ {c}]
      BY <3>2, <3>3, <3>4
    <3> HIDE DEF h, K
    <3> QED
      BY <2>2, <3>1, <3>5
  <2> QED
    BY <2>1, <2>2
<1>6. K[S] = SumFunction(f) + SumFunction(e)
  BY <1>1, <1>2
<1> HIDE DEF h, K
<1> QED
  BY <1>4, <1>5, <1>6, SumsAgree DEF h

\* A sum of natural numbers.
LEMMA SumNat ==
  ASSUME NEW S, IsFiniteSet(S), NEW f \in [S -> Nat]
  PROVE  SumFunction(f) \in Nat
<1>0. f \in [S -> Int]
  OBVIOUS
<1>1. PICK g \in [SUBSET S -> Int] : IsSum(g, f, S) /\ SumFunction(f) = g[S]
  BY <1>0, SumFunctionIsSum
<1> DEFINE B == {n \in Nat : \A s \in SUBSET S : Cardinality(s) <= n => g[s] \in Nat}
           c(s) == CHOOSE x \in s : TRUE
<1>2. ASSUME NEW s \in SUBSET S
      PROVE  Cardinality(s) \in Nat /\ (Cardinality(s) = 0 <=> s = {})
  BY FS_Subset, FS_CardinalityType, FS_EmptySet
<1>3. 0 \in B
  <2>1. ASSUME NEW s \in SUBSET S, Cardinality(s) <= 0 PROVE g[s] \in Nat
    BY <1>1, <1>2, <2>1 DEF IsSum
  <2> QED
    BY <2>1
<1>4. ASSUME NEW n \in Nat, n \in B PROVE n + 1 \in B
  <2>1. ASSUME NEW s \in SUBSET S, Cardinality(s) <= n + 1, s # {} PROVE g[s] \in Nat
    <3>1. c(s) \in s /\ s \ {c(s)} \in SUBSET S
      BY <2>1
    <3>2. Cardinality(s \ {c(s)}) <= n
      BY <1>2, <2>1, <3>1, FS_Subset, FS_RemoveElement
    <3>3. g[s \ {c(s)}] \in Nat /\ f[c(s)] \in Nat
      BY <1>4, <3>1, <3>2
    <3>4. g[s] = f[c(s)] + g[s \ {c(s)}]
      BY <1>1, <2>1 DEF IsSum
    <3> QED
      BY <3>3, <3>4
  <2>2. g[{}] \in Nat
    BY <1>1 DEF IsSum
  <2>3. ASSUME NEW s \in SUBSET S, Cardinality(s) <= n + 1 PROVE g[s] \in Nat
    BY <2>1, <2>2, <2>3
  <2>4. n + 1 \in Nat
    OBVIOUS
  <2> QED
    BY <2>3, <2>4
<1> HIDE DEF B
<1>5. Nat \subseteq B
  BY <1>3, <1>4, NatSetInduction
<1> QED
  BY <1>1, <1>2, <1>5 DEF B

-----------------------------------------------------------------------------
(* Sums over a part of the domain.                                         *)

SumOver(w, T) == SumFunction([x \in DOMAIN w |-> IF x \in T THEN w[x] ELSE 0])

LEMMA SumOverType ==
  ASSUME NEW S, IsFiniteSet(S), NEW w \in [S -> Nat], NEW T
  PROVE  SumOver(w, T) \in Nat
BY SumNat DEF SumOver

LEMMA SumOverDomain ==
  ASSUME NEW S, NEW w \in [S -> Nat]
  PROVE  SumOver(w, S) = SumFunction(w)
<1>1. [x \in DOMAIN w |-> IF x \in S THEN w[x] ELSE 0] = w
  OBVIOUS
<1> QED
  BY <1>1 DEF SumOver

LEMMA SumOverUnion ==
  ASSUME NEW S, IsFiniteSet(S), NEW w \in [S -> Nat], NEW T, NEW U, T \cap U = {}
  PROVE  SumOver(w, T \cup U) = SumOver(w, T) + SumOver(w, U)
<1> DEFINE m(V) == [x \in S |-> IF x \in V THEN w[x] ELSE 0]
<1>1. m(T) \in [S -> Int] /\ m(U) \in [S -> Int]
  OBVIOUS
<1>2. m(T \cup U) = [x \in S |-> m(T)[x] + m(U)[x]]
  OBVIOUS
<1>3. SumOver(w, T) = SumFunction(m(T)) /\ SumOver(w, U) = SumFunction(m(U))
      /\ SumOver(w, T \cup U) = SumFunction(m(T \cup U))
  BY DEF SumOver
<1> HIDE DEF m
<1> QED
  BY <1>1, <1>2, <1>3, SumPlus

LEMMA SumOverNothing ==
  ASSUME NEW S, IsFiniteSet(S), NEW w \in [S -> Nat], NEW T, \A x \in S \cap T : w[x] = 0
  PROVE  SumOver(w, T) = 0
<1>1. [x \in DOMAIN w |-> IF x \in T THEN w[x] ELSE 0] = [x \in S |-> 0]
  OBVIOUS
<1> QED
  BY <1>1, SumZero DEF SumOver

LEMMA SumOverOne ==
  ASSUME NEW S, IsFiniteSet(S), NEW w \in [S -> Nat], NEW x \in S
  PROVE  SumOver(w, {x}) = w[x]
<1> DEFINE z == [y \in S |-> 0]
<1>1. z \in [S -> Int] /\ z[x] = 0 /\ w[x] \in Int
  OBVIOUS
<1>2. [y \in DOMAIN w |-> IF y \in {x} THEN w[y] ELSE 0] = [z EXCEPT ![x] = w[x]]
  OBVIOUS
<1>3. SumFunction(z) = 0
  BY SumZero
<1> HIDE DEF z
<1>4. SumFunction([z EXCEPT ![x] = w[x]]) = SumFunction(z) - z[x] + w[x]
  BY <1>1, SumExcept
<1> QED
  BY <1>1, <1>2, <1>3, <1>4 DEF SumOver

LEMMA SumOverGrows ==
  ASSUME NEW S, IsFiniteSet(S), NEW w \in [S -> Nat], NEW T, NEW U, T \subseteq U
  PROVE  SumOver(w, T) <= SumOver(w, U)
<1>1. SumOver(w, T \cup (U \ T)) = SumOver(w, T) + SumOver(w, U \ T)
  BY SumOverUnion
<1>2. SumOver(w, T \cup (U \ T)) = SumOver(w, U)
  <2>1. T \cup (U \ T) = U
    OBVIOUS
  <2> QED
    BY <2>1
<1>3. SumOver(w, T) \in Nat /\ SumOver(w, U \ T) \in Nat
  BY SumOverType
<1> QED
  BY <1>1, <1>2, <1>3

-----------------------------------------------------------------------------
(* Sums of short sequences.                                                *)

LEMMA SumOfOne == ASSUME NEW a \in Int PROVE SumFunction(<<a>>) = a
<1> DEFINE I == 1 .. 1
           z == [i \in I |-> 0]
<1>1. IsFiniteSet(I)
  BY FS_Interval, 1 \in Int
<1>2. z \in [I -> Int]
  OBVIOUS
<1>3. z[1] = 0 /\ [z EXCEPT ![1] = a] = <<a>> /\ 1 \in I
  OBVIOUS
<1> HIDE DEF I
<1>4. SumFunction(z) = 0
  BY <1>1, SumZero
<1> HIDE DEF z
<1>5. \A w \in I : SumFunction([z EXCEPT ![w] = a]) = SumFunction(z) - z[w] + a
  BY ONLY <1>1, <1>2, a \in Int, SumExcept
<1>6. SumFunction([z EXCEPT ![1] = a]) = SumFunction(z) - z[1] + a
  BY <1>3, <1>5
<1>7. SumFunction([z EXCEPT ![1] = a]) = SumFunction(<<a>>)
  BY <1>3
<1> QED
  BY <1>3, <1>4, <1>6, <1>7

LEMMA SumOfTwo == ASSUME NEW a \in Int, NEW b \in Int PROVE SumFunction(<<a, b>>) = a + b
<1> DEFINE I == 1 .. 2
           z == [i \in I |-> 0]
<1>1. IsFiniteSet(I)
  BY FS_Interval, 1 \in Int, 2 \in Int
<1>2. z \in [I -> Int]
  OBVIOUS
<1>3. z[1] = 0 /\ z[2] = 0 /\ 1 \in I /\ 2 \in I
  OBVIOUS
<1>4. [[z EXCEPT ![1] = a] EXCEPT ![2] = b] = <<a, b>>
  OBVIOUS
<1> HIDE DEF I
<1>5. SumFunction(z) = 0
  BY <1>1, SumZero
<1> HIDE DEF z
<1>6. \A w \in I : SumFunction([z EXCEPT ![w] = a]) = SumFunction(z) - z[w] + a
  BY ONLY <1>1, <1>2, a \in Int, SumExcept
<1> DEFINE y == [z EXCEPT ![1] = a]
<1>7. SumFunction(y) = a
  BY <1>3, <1>5, <1>6
<1>8. y \in [I -> Int]
  BY <1>2
<1>9. y[2] = 0
  BY <1>2, <1>3
<1>10. [y EXCEPT ![2] = b] = <<a, b>>
  BY <1>4
<1> HIDE DEF y
<1>11. \A w \in I : SumFunction([y EXCEPT ![w] = b]) = SumFunction(y) - y[w] + b
  BY ONLY <1>1, <1>8, b \in Int, SumExcept
<1>12. SumFunction([y EXCEPT ![2] = b]) = SumFunction(<<a, b>>)
  BY <1>10
<1>13. SumFunction([y EXCEPT ![2] = b]) = SumFunction(y) - y[2] + b
  BY <1>3, <1>11
<1> QED
  BY <1>7, <1>9, <1>12, <1>13
=============================================================================
