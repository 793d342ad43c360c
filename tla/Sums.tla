-------------------------------- MODULE Sums --------------------------------
(***************************************************************************)
(* Facts about finite sets that the proofs of several components need: how *)
(* a sum over a finite set changes with one of its terms, the induction on *)
(* subsets it rests on, the first and the last of a set of numbers, and    *)
(* the induction on the numbers up to one.                                 *)
(***************************************************************************)
EXTENDS Integers, Functions, FiniteSets, FiniteSetTheorems, WellFoundedInduction, TLAPS

\* Every finite set has a property P of its subsets that each subset has as soon as its
\* proper subsets do.
LEMMA SubsetInduction ==
    ASSUME NEW S, IsFiniteSet(S), NEW P,
           \A T \in SUBSET S : (\A U \in SUBSET T : U # T => U \in P) => T \in P
    PROVE  S \in P
<1> DEFINE Q == (SUBSET S) \ P
<1>1. SUFFICES ASSUME Q # {} PROVE FALSE
  OBVIOUS
<1>2. Q \subseteq FiniteSubsetsOf(S)
  BY FS_Subset DEF FiniteSubsetsOf
<1>3. IsWellFoundedOn(StrictSubsetOrdering(S), FiniteSubsetsOf(S))
  BY FS_StrictSubsetOrderingWellFounded
<1> HIDE DEF Q
<1>4. PICK T \in Q : \A U \in Q : <<U, T>> \notin StrictSubsetOrdering(S)
  BY <1>1, <1>2, <1>3, WFMin
<1>5. \A U \in Q : U \subseteq T => U = T
  BY <1>4 DEF StrictSubsetOrdering, Q
<1> QED
  BY <1>5 DEF Q

\* The element of a set that the sum takes first.
OneOf(T) == CHOOSE x \in T : TRUE

\* g gives the sum of f over each subset of S.
Sums(g, f, S) ==
    g = [T \in SUBSET S |->
            IF T = {} THEN 0 ELSE f[OneOf(T)] + g[T \ {OneOf(T)}]]

\* A sum is what a function that gives the sum of each subset says of the whole.
LEMMA SumIs ==
    ASSUME NEW f, NEW S
    PROVE  SumFunctionOnSet(f, S) = (CHOOSE g : Sums(g, f, S))[S]
BY DEF SumFunctionOnSet, FoldFunctionOnSet, MapThenFoldSet, Sums, OneOf

LEMMA FirstIn == ASSUME NEW T, T # {} PROVE OneOf(T) \in T
BY DEF OneOf

\* Two such functions agree on a set that both have.
LEMMA SumsAgree ==
    ASSUME NEW f, NEW A, NEW B, NEW g, NEW h, Sums(g, f, A), Sums(h, f, B),
           NEW S, IsFiniteSet(S), S \subseteq A, S \subseteq B
    PROVE  g[S] = h[S]
<1> DEFINE P == {T \in SUBSET S : g[T] = h[T]}
<1>1. ASSUME NEW T \in SUBSET S, \A U \in SUBSET T : U # T => U \in P
      PROVE  T \in P
  <2>1. CASE T = {}
    BY <2>1 DEF Sums
  <2>2. CASE T # {}
    <3>1. T \ {OneOf(T)} \in P
      BY <1>1, <2>2, FirstIn
    <3>2. g[T] = f[OneOf(T)] + g[T \ {OneOf(T)}]
      BY <2>2 DEF Sums
    <3>3. h[T] = f[OneOf(T)] + h[T \ {OneOf(T)}]
      BY <2>2 DEF Sums
    <3> QED
      BY <3>1, <3>2, <3>3
  <2> QED
    BY <2>1, <2>2
<1> HIDE DEF P
<1>2. S \in P
  BY <1>1, SubsetInduction
<1> QED
  BY <1>2 DEF P

\* There is one for every finite set.
LEMMA SumsExist ==
    ASSUME NEW f, NEW S, IsFiniteSet(S)
    PROVE  \E g : Sums(g, f, S)
<1> DEFINE The(U) == CHOOSE g : Sums(g, f, U)
           P == {T \in SUBSET S : Sums(The(T), f, T)}
<1>1. ASSUME NEW T \in SUBSET S, \A U \in SUBSET T : U # T => U \in P
      PROVE  T \in P
  <2> DEFINE h == [U \in SUBSET T |->
                     IF U = {} THEN 0
                     ELSE f[OneOf(U)] + The(U \ {OneOf(U)})[U \ {OneOf(U)}]]
  <2>1. ASSUME NEW U \in SUBSET T, U # T
        PROVE  h[U] = The(U)[U]
    <3>1. Sums(The(U), f, U)
      BY <1>1, <2>1
    <3>2. CASE U = {}
      BY <3>1, <3>2 DEF Sums
    <3>3. CASE U # {}
      <4> DEFINE V == U \ {OneOf(U)}
      <4>1. V \subseteq U /\ V # T /\ V \in SUBSET T
        BY <2>1, <3>3, FirstIn
      <4>2. Sums(The(V), f, V)
        BY <1>1, <4>1
      <4>3. IsFiniteSet(V)
        BY <4>1, FS_Subset
      <4> HIDE DEF The
      <4>4. The(V)[V] = The(U)[V]
        BY <3>1, <4>1, <4>2, <4>3, SumsAgree
      <4>5. The(U)[U] = f[OneOf(U)] + The(U)[V]
        BY <3>1, <3>3 DEF Sums
      <4>6. h[U] = f[OneOf(U)] + The(V)[V]
        BY <3>3
      <4> QED
        BY <4>4, <4>5, <4>6
    <3> QED
      BY <3>2, <3>3
  <2>2. h = [U \in SUBSET T |->
               IF U = {} THEN 0 ELSE f[OneOf(U)] + h[U \ {OneOf(U)}]]
    <3> HIDE DEF The
    <3>1. \A U \in SUBSET T : U # {} =>
             /\ U \ {OneOf(U)} \in SUBSET T
             /\ U \ {OneOf(U)} # T
      BY FirstIn
    <3>2. \A U \in SUBSET T : U # {} =>
             h[U \ {OneOf(U)}] = The(U \ {OneOf(U)})[U \ {OneOf(U)}]
      BY <2>1, <3>1
    <3> QED
      BY <3>2
  <2>3. Sums(h, f, T)
    BY <2>2 DEF Sums
  <2> HIDE DEF h
  <2> QED
    BY <2>3
<1> HIDE DEF P
<1>2. S \in P
  BY <1>1, SubsetInduction
<1> QED
  BY <1>2 DEF P

\* The sum of the empty set, and of a set without the element that is taken first.
LEMMA SumEmpty == \A f : SumFunctionOnSet(f, {}) = 0
<1> TAKE f
<1>1. \E g : Sums(g, f, {})
  BY SumsExist, FS_EmptySet
<1>2. Sums(CHOOSE g : Sums(g, f, {}), f, {})
  BY <1>1
<1> QED
  BY <1>2, SumIs DEF Sums

LEMMA SumFirst ==
    ASSUME NEW f, NEW S, IsFiniteSet(S), S # {}
    PROVE  SumFunctionOnSet(f, S) = f[OneOf(S)] + SumFunctionOnSet(f, S \ {OneOf(S)})
<1> DEFINE T == S \ {OneOf(S)}
           g == CHOOSE x : Sums(x, f, S)
           h == CHOOSE x : Sums(x, f, T)
<1>1. T \subseteq S /\ IsFiniteSet(T)
  BY FS_Subset
<1>2. Sums(g, f, S)
  BY SumsExist
<1>3. Sums(h, f, T)
  BY <1>1, SumsExist
<1>4. SumFunctionOnSet(f, S) = g[S] /\ SumFunctionOnSet(f, T) = h[T]
  BY SumIs
<1> HIDE DEF g, h
<1>5. g[T] = h[T]
  BY <1>1, <1>2, <1>3, SumsAgree
<1>6. g[S] = f[OneOf(S)] + g[T]
  BY <1>2 DEF Sums
<1> QED
  BY <1>4, <1>5, <1>6

\* The sum of integers is one.
LEMMA SumType ==
    ASSUME NEW f, NEW S, IsFiniteSet(S), \A x \in S : f[x] \in Int
    PROVE  SumFunctionOnSet(f, S) \in Int
<1> DEFINE P == {T \in SUBSET S : SumFunctionOnSet(f, T) \in Int}
<1>1. ASSUME NEW T \in SUBSET S, \A U \in SUBSET T : U # T => U \in P
      PROVE  T \in P
  <2>1. CASE T = {}
    BY <2>1, SumEmpty
  <2>2. CASE T # {}
    <3>1. T \ {OneOf(T)} \in P /\ OneOf(T) \in S
      BY <1>1, <2>2, FirstIn
    <3>2. SumFunctionOnSet(f, T) = f[OneOf(T)] + SumFunctionOnSet(f, T \ {OneOf(T)})
      BY <2>2, SumFirst, FS_Subset
    <3> QED
      BY <3>1, <3>2
  <2> QED
    BY <2>1, <2>2
<1> HIDE DEF P
<1>2. S \in P
  BY <1>1, SubsetInduction
<1> QED
  BY <1>2 DEF P

\* Any element may be taken first.
LEMMA SumRemove ==
    ASSUME NEW f, NEW S, IsFiniteSet(S), \A y \in S : f[y] \in Int, NEW x \in S
    PROVE  SumFunctionOnSet(f, S) = f[x] + SumFunctionOnSet(f, S \ {x})
<1> DEFINE Sum(T) == SumFunctionOnSet(f, T)
           P == {T \in SUBSET S : \A y \in T : Sum(T) = f[y] + Sum(T \ {y})}
<1>1. ASSUME NEW T \in SUBSET S, \A U \in SUBSET T : U # T => U \in P
      PROVE  T \in P
  <2>1. SUFFICES ASSUME NEW y \in T PROVE Sum(T) = f[y] + Sum(T \ {y})
    OBVIOUS
  <2> DEFINE z == OneOf(T)
  <2>2. z \in T
    BY FirstIn
  <2>3. IsFiniteSet(T)
    BY FS_Subset
  <2>4. Sum(T) = f[z] + Sum(T \ {z})
    BY <2>3, SumFirst
  <2>5. CASE z = y
    BY <2>4, <2>5
  <2>6. CASE z # y
    <3>1. T \ {z} \in P /\ T \ {y} \in P
      BY <1>1, <2>2
    <3>2. Sum(T \ {z}) = f[y] + Sum((T \ {z}) \ {y})
      BY <3>1, <2>6
    <3>3. Sum(T \ {y}) = f[z] + Sum((T \ {y}) \ {z})
      BY <3>1, <2>2, <2>6
    <3>4. (T \ {z}) \ {y} = (T \ {y}) \ {z}
      OBVIOUS
    <3>5. IsFiniteSet((T \ {y}) \ {z})
      BY <2>3, FS_Subset
    <3>6. Sum((T \ {y}) \ {z}) \in Int
      BY <3>5, SumType
    <3>7. f[y] \in Int /\ f[z] \in Int
      BY <2>2
    <3>8. PICK v : v = Sum((T \ {y}) \ {z})
      OBVIOUS
    <3>9. Sum(T \ {z}) = f[y] + v
      BY <3>2, <3>4, <3>8
    <3>10. Sum(T \ {y}) = f[z] + v
      BY <3>3, <3>8
    <3>11. Sum(T) = f[z] + (f[y] + v)
      BY <2>4, <3>9
    <3>12. v \in Int
      BY <3>6, <3>8
    <3>13. f[z] + (f[y] + v) = f[y] + (f[z] + v)
      BY <3>12, <3>7
    <3> QED
      BY <3>10, <3>11, <3>13
  <2> QED
    BY <2>5, <2>6
<1> HIDE DEF P
<1>2. S \in P
  BY <1>1, SubsetInduction
<1> QED
  BY <1>2 DEF P

\* What a function is elsewhere does not count.
LEMMA SumSame ==
    ASSUME NEW f, NEW g, NEW S, IsFiniteSet(S), \A x \in S : f[x] = g[x]
    PROVE  SumFunctionOnSet(f, S) = SumFunctionOnSet(g, S)
<1> DEFINE P == {T \in SUBSET S : SumFunctionOnSet(f, T) = SumFunctionOnSet(g, T)}
<1>1. ASSUME NEW T \in SUBSET S, \A U \in SUBSET T : U # T => U \in P
      PROVE  T \in P
  <2>1. CASE T = {}
    BY <2>1, SumEmpty
  <2>2. CASE T # {}
    <3>1. T \ {OneOf(T)} \in P /\ OneOf(T) \in S
      BY <1>1, <2>2, FirstIn
    <3>2. /\ SumFunctionOnSet(f, T) = f[OneOf(T)] + SumFunctionOnSet(f, T \ {OneOf(T)})
          /\ SumFunctionOnSet(g, T) = g[OneOf(T)] + SumFunctionOnSet(g, T \ {OneOf(T)})
      BY <2>2, SumFirst, FS_Subset
    <3> QED
      BY <3>1, <3>2
  <2> QED
    BY <2>1, <2>2
<1> HIDE DEF P
<1>2. S \in P
  BY <1>1, SubsetInduction
<1> QED
  BY <1>2 DEF P

\* The part of x in a sum.
Share(f, S, x) == IF x \in S THEN f[x] ELSE 0

\* A sum changes by the part of the one element that changed.
LEMMA SumChange ==
    ASSUME NEW f, NEW g, NEW S, NEW T, NEW x, IsFiniteSet(S), IsFiniteSet(T),
           S \ {x} = T \ {x}, \A y \in S \ {x} : f[y] = g[y],
           \A y \in S : f[y] \in Int, \A y \in T : g[y] \in Int
    PROVE  SumFunctionOnSet(g, T) = SumFunctionOnSet(f, S) - Share(f, S, x) + Share(g, T, x)
<1> DEFINE R == S \ {x}
<1>1. IsFiniteSet(R) /\ R = T \ {x}
  BY FS_Subset
<1>2. SumFunctionOnSet(f, R) = SumFunctionOnSet(g, R)
  BY <1>1, SumSame
<1>3. SumFunctionOnSet(f, R) \in Int
  BY <1>1, SumType
<1>4. SumFunctionOnSet(f, S) = Share(f, S, x) + SumFunctionOnSet(f, R)
  <2>1. CASE x \in S
    BY <2>1, SumRemove DEF Share
  <2>2. CASE x \notin S
    <3>1. R = S
      BY <2>2
    <3>2. Share(f, S, x) = 0
      BY <2>2 DEF Share
    <3> HIDE DEF R
    <3> QED
      BY <3>1, <3>2, <1>3
  <2> QED
    BY <2>1, <2>2
<1>5. SumFunctionOnSet(g, T) = Share(g, T, x) + SumFunctionOnSet(g, R)
  <2>1. CASE x \in T
    BY <2>1, <1>1, SumRemove DEF Share
  <2>2. CASE x \notin T
    <3>1. R = T
      BY <2>2, <1>1
    <3>2. Share(g, T, x) = 0
      BY <2>2 DEF Share
    <3> HIDE DEF R
    <3> QED
      BY <3>1, <3>2, <1>2, <1>3
  <2> QED
    BY <2>1, <2>2
<1>6. Share(f, S, x) \in Int /\ Share(g, T, x) \in Int
  BY DEF Share
<1> QED
  BY <1>2, <1>3, <1>4, <1>5, <1>6

\* A sum of naturals is no less than zero.
LEMMA SumNatural ==
    ASSUME NEW f, NEW S, IsFiniteSet(S), \A x \in S : f[x] \in Nat
    PROVE  SumFunctionOnSet(f, S) \in Nat
<1> DEFINE P == {T \in SUBSET S : SumFunctionOnSet(f, T) \in Nat}
<1>1. ASSUME NEW T \in SUBSET S, \A U \in SUBSET T : U # T => U \in P
      PROVE  T \in P
  <2>1. CASE T = {}
    BY <2>1, SumEmpty
  <2>2. CASE T # {}
    <3>1. T \ {OneOf(T)} \in P /\ OneOf(T) \in S
      BY <1>1, <2>2, FirstIn
    <3>2. SumFunctionOnSet(f, T) = f[OneOf(T)] + SumFunctionOnSet(f, T \ {OneOf(T)})
      BY <2>2, SumFirst, FS_Subset
    <3> QED
      BY <3>1, <3>2
  <2> QED
    BY <2>1, <2>2
<1> HIDE DEF P
<1>2. S \in P
  BY <1>1, SubsetInduction
<1> QED
  BY <1>2 DEF P

\* What is covered piece by piece, no piece twice, is covered in all.
LEMMA SumCovered ==
    ASSUME NEW f, NEW g, NEW S, NEW N, NEW m \in [S -> N], IsFiniteSet(S), IsFiniteSet(N),
           \A x \in S : f[x] \in Int /\ f[x] <= g[m[x]],
           \A x, y \in S : m[x] = m[y] => x = y,
           \A n \in N : g[n] \in Nat
    PROVE  SumFunctionOnSet(f, S) <= SumFunctionOnSet(g, N)
<1> DEFINE Covered(T, M) == SumFunctionOnSet(f, T) <= SumFunctionOnSet(g, M)
           P == {T \in SUBSET S : \A M \in SUBSET N : (\A x \in T : m[x] \in M) => Covered(T, M)}
<1>1. ASSUME NEW T \in SUBSET S, \A U \in SUBSET T : U # T => U \in P
      PROVE  T \in P
  <2>1. SUFFICES ASSUME NEW M \in SUBSET N, \A x \in T : m[x] \in M
                 PROVE  Covered(T, M)
    OBVIOUS
  <2>2. IsFiniteSet(M) /\ IsFiniteSet(T)
    BY FS_Subset
  <2>3. CASE T = {}
    <3>1. SumFunctionOnSet(g, M) \in Nat
      BY <2>2, SumNatural
    <3> QED
      BY <2>3, <3>1, SumEmpty
  <2>4. CASE T # {}
    <3> DEFINE x == OneOf(T)
    <3>1. x \in T /\ m[x] \in M /\ x \in S
      BY <2>1, <2>4, FirstIn
    <3>2. SumFunctionOnSet(f, T) = f[x] + SumFunctionOnSet(f, T \ {x})
      BY <2>2, <2>4, SumFirst
    <3>3. SumFunctionOnSet(g, M) = g[m[x]] + SumFunctionOnSet(g, M \ {m[x]})
      BY <2>2, <3>1, SumRemove
    <3>4. \A y \in T \ {x} : m[y] \in M \ {m[x]}
      BY <2>1, <3>1
    <3>5. T \ {x} \in P
      BY <1>1, <3>1
    <3>6. Covered(T \ {x}, M \ {m[x]})
      BY <3>4, <3>5
    <3>7. IsFiniteSet(T \ {x}) /\ IsFiniteSet(M \ {m[x]})
      BY <2>2, FS_Subset
    <3>8. SumFunctionOnSet(f, T \ {x}) \in Int
      BY <3>7, SumType
    <3>9. SumFunctionOnSet(g, M \ {m[x]}) \in Int
      BY <3>7, SumType
    <3>10. f[x] \in Int /\ g[m[x]] \in Int /\ f[x] <= g[m[x]]
      BY <3>1
    <3> HIDE DEF x
    <3> QED
      BY <3>2, <3>3, <3>6, <3>8, <3>9, <3>10
  <2> QED
    BY <2>3, <2>4
<1> HIDE DEF P
<1>2. S \in P
  BY <1>1, SubsetInduction
<1> QED
  BY <1>2 DEF P

\* A set of numbers of lines has a greatest one.
LEMMA GreatestExists ==
    ASSUME NEW n \in Nat, NEW S \in SUBSET (1 .. n), S # {}
    PROVE  \E i \in S : \A j \in S : j <= i
<1> DEFINE T == {n - i : i \in S}
<1>0. \A i \in S : i \in Int /\ n - i \in Nat
  OBVIOUS
<1>1. T \subseteq Nat /\ T # {}
  BY <1>0
<1>2. PICK x \in T : \A y \in T : <<y, x>> \notin OpToRel(<, Nat)
  BY <1>1, NatLessThanWellFounded, WFMin
<1>3. PICK i \in S : x = n - i
  BY <1>2
<1>4. ASSUME NEW j \in S PROVE j <= i
  <2>1. n - j \in T /\ n - j \in Nat /\ x \in Nat
    BY <1>0, <1>1
  <2>2. ~(n - j < x)
    BY <1>2, <2>1 DEF OpToRel
  <2> QED
    BY <1>0, <1>3, <2>1, <2>2
<1> QED
  BY <1>4

\* A set of positions has a first one.
LEMMA SmallestExists ==
    ASSUME NEW S \in SUBSET Nat, S # {}
    PROVE  \E i \in S : \A j \in S : i <= j
<1>1. PICK i \in S : \A j \in S : <<j, i>> \notin OpToRel(<, Nat)
  BY NatLessThanWellFounded, WFMin
<1>2. \A j \in S : ~(j < i) /\ i \in Nat /\ j \in Nat
  BY <1>1 DEF OpToRel
<1> QED
  BY <1>2

\* What holds of 0, and of the next number of each, holds up to any number.
LEMMA CountInduction ==
    ASSUME NEW N \in Nat, NEW P, 0 \in P, \A n \in 0 .. N - 1 : n \in P => n + 1 \in P
    PROVE  \A n \in 0 .. N : n \in P
<1> DEFINE Q == {n \in 0 .. N : n \notin P}
<1>1. SUFFICES ASSUME Q # {} PROVE FALSE
  OBVIOUS
<1>2. Q \in SUBSET Nat
  OBVIOUS
<1>3. PICK i \in Q : \A j \in Q : i <= j
  <2> HIDE DEF Q
  <2> QED
    BY <1>1, <1>2, SmallestExists
<1>4. i \in 0 .. N /\ i \notin P /\ i # 0
  OBVIOUS
<1>5. i - 1 \in 0 .. N - 1 /\ i - 1 \in 0 .. N
  BY <1>4
<1>6. i - 1 \in P
  <2>1. CASE i - 1 \in Q
    BY <1>3, <1>4, <2>1
  <2>2. CASE i - 1 \notin Q
    BY <1>5, <2>2
  <2> QED
    BY <2>1, <2>2
<1>7. (i - 1) + 1 = i
  BY <1>4
<1> QED
  BY <1>4, <1>5, <1>6, <1>7

\* The sum of nothing but zeros.
LEMMA SumZero ==
    ASSUME NEW f, NEW S, IsFiniteSet(S), \A x \in S : f[x] = 0
    PROVE  SumFunctionOnSet(f, S) = 0
<1> DEFINE P == {T \in SUBSET S : SumFunctionOnSet(f, T) = 0}
<1>1. ASSUME NEW T \in SUBSET S, \A U \in SUBSET T : U # T => U \in P
      PROVE  T \in P
  <2>1. CASE T = {}
    BY <2>1, SumEmpty
  <2>2. CASE T # {}
    <3>1. T \ {OneOf(T)} \in P /\ OneOf(T) \in S
      BY <1>1, <2>2, FirstIn
    <3>2. SumFunctionOnSet(f, T) = f[OneOf(T)] + SumFunctionOnSet(f, T \ {OneOf(T)})
      BY <2>2, SumFirst, FS_Subset
    <3> QED
      BY <3>1, <3>2
  <2> QED
    BY <2>1, <2>2
<1> HIDE DEF P
<1>2. S \in P
  BY <1>1, SubsetInduction
<1> QED
  BY <1>2 DEF P

\* The sum of two functions is the sum of their sums.
LEMMA SumAdd ==
    ASSUME NEW f, NEW g, NEW h, NEW S, IsFiniteSet(S),
           \A x \in S : f[x] \in Int /\ g[x] \in Int /\ h[x] = f[x] + g[x]
    PROVE  SumFunctionOnSet(h, S) = SumFunctionOnSet(f, S) + SumFunctionOnSet(g, S)
<1> DEFINE P == {T \in SUBSET S :
                    SumFunctionOnSet(h, T) = SumFunctionOnSet(f, T) + SumFunctionOnSet(g, T)}
<1>1. ASSUME NEW T \in SUBSET S, \A U \in SUBSET T : U # T => U \in P
      PROVE  T \in P
  <2>1. CASE T = {}
    BY <2>1, SumEmpty
  <2>2. CASE T # {}
    <3> DEFINE x == OneOf(T)
               R == T \ {x}
    <3>1. R \in P /\ x \in S /\ IsFiniteSet(R) /\ IsFiniteSet(T)
      BY <1>1, <2>2, FirstIn, FS_Subset
    <3>2. /\ SumFunctionOnSet(f, T) = f[x] + SumFunctionOnSet(f, R)
          /\ SumFunctionOnSet(g, T) = g[x] + SumFunctionOnSet(g, R)
          /\ SumFunctionOnSet(h, T) = h[x] + SumFunctionOnSet(h, R)
      BY <2>2, <3>1, SumFirst
    <3>3. SumFunctionOnSet(f, R) \in Int /\ SumFunctionOnSet(g, R) \in Int
      BY <3>1, SumType
    <3>4. h[x] = f[x] + g[x] /\ f[x] \in Int /\ g[x] \in Int
      BY <3>1
    <3>5. SumFunctionOnSet(h, R) = SumFunctionOnSet(f, R) + SumFunctionOnSet(g, R)
      BY <3>1
    <3>6. PICK a, b : a = SumFunctionOnSet(f, R) /\ b = SumFunctionOnSet(g, R)
      OBVIOUS
    <3>7. SumFunctionOnSet(h, T) = (f[x] + g[x]) + (a + b)
      BY <3>2, <3>4, <3>5, <3>6
    <3>8. SumFunctionOnSet(f, T) + SumFunctionOnSet(g, T) = (f[x] + a) + (g[x] + b)
      BY <3>2, <3>6
    <3>9. (f[x] + g[x]) + (a + b) = (f[x] + a) + (g[x] + b)
      BY <3>3, <3>4, <3>6
    <3> QED
      BY <3>7, <3>8, <3>9
  <2> QED
    BY <2>1, <2>2
<1> HIDE DEF P
<1>2. S \in P
  BY <1>1, SubsetInduction
<1> QED
  BY <1>2 DEF P

\* A sum over part of a set is the sum over the set with zeros elsewhere.
LEMMA SumPart ==
    ASSUME NEW f, NEW g, NEW S, IsFiniteSet(S), NEW T \in SUBSET S,
           \A x \in S : f[x] \in Int /\ g[x] = (IF x \in T THEN f[x] ELSE 0)
    PROVE  SumFunctionOnSet(g, S) = SumFunctionOnSet(f, T)
<1> DEFINE P == {U \in SUBSET S : SumFunctionOnSet(g, U) = SumFunctionOnSet(f, U \intersect T)}
<1>1. ASSUME NEW U \in SUBSET S, \A V \in SUBSET U : V # U => V \in P
      PROVE  U \in P
  <2>1. CASE U = {}
    <3>1. U \intersect T = {}
      BY <2>1
    <3> QED
      BY <2>1, <3>1, SumEmpty
  <2>2. CASE U # {}
    <3> DEFINE x == OneOf(U)
               R == U \ {x}
    <3>1. R \in P /\ x \in S /\ x \in U /\ IsFiniteSet(R) /\ IsFiniteSet(U)
      BY <1>1, <2>2, FirstIn, FS_Subset
    <3>2. SumFunctionOnSet(g, U) = g[x] + SumFunctionOnSet(g, R)
      BY <2>2, <3>1, SumFirst
    <3>3. SumFunctionOnSet(g, R) = SumFunctionOnSet(f, R \intersect T)
      BY <3>1
    <3>4. IsFiniteSet(U \intersect T) /\ IsFiniteSet(R \intersect T)
      BY <3>1, FS_Subset
    <3>5. SumFunctionOnSet(f, R \intersect T) \in Int
      BY <3>4, SumType
    <3>6. CASE x \in T
      <4>1. x \in U \intersect T /\ (U \intersect T) \ {x} = R \intersect T
        BY <3>1, <3>6
      <4>2. SumFunctionOnSet(f, U \intersect T)
               = f[x] + SumFunctionOnSet(f, (U \intersect T) \ {x})
        BY <3>4, <4>1, SumRemove
      <4> QED
        BY <3>1, <3>2, <3>3, <3>6, <4>1, <4>2
    <3>7. CASE x \notin T
      <4>1. U \intersect T = R \intersect T
        BY <3>7
      <4>2. g[x] = 0
        BY <3>1, <3>7
      <4>3. 0 + SumFunctionOnSet(f, R \intersect T) = SumFunctionOnSet(f, R \intersect T)
        BY <3>5
      <4> QED
        BY <3>2, <3>3, <4>1, <4>2, <4>3
    <3> QED
      BY <3>6, <3>7
  <2> QED
    BY <2>1, <2>2
<1> HIDE DEF P
<1>2. S \in P
  BY <1>1, SubsetInduction
<1>3. S \intersect T = T
  OBVIOUS
<1> QED
  BY <1>2, <1>3 DEF P

\* k is the table m read by columns, and r has the sum of each line.
Transposed(m, k, S, T) == \A x \in S, y \in T : m[x][y] \in Int /\ k[y][x] = m[x][y]
SumsByLine(r, m, S, T) == \A x \in S : r[x] = SumFunctionOnSet(m[x], T)

\* The sum by lines of a table is its sum by columns.
LEMMA SumExchange ==
    ASSUME NEW S, NEW T, IsFiniteSet(S), IsFiniteSet(T),
           NEW m, NEW k, Transposed(m, k, S, T),
           NEW r, SumsByLine(r, m, S, T),
           NEW c, SumsByLine(c, k, T, S)
    PROVE  SumFunctionOnSet(r, S) = SumFunctionOnSet(c, T)
<1> USE DEF Transposed, SumsByLine
<1> DEFINE Cols(U) == [y \in T |-> SumFunctionOnSet(k[y], U)]
           P == {U \in SUBSET S : SumFunctionOnSet(r, U) = SumFunctionOnSet(Cols(U), T)}
<1>1. ASSUME NEW U \in SUBSET S, \A V \in SUBSET U : V # U => V \in P
      PROVE  U \in P
  <2>1. CASE U = {}
    <3>1. \A y \in T : Cols(U)[y] = 0
      BY <2>1, SumEmpty
    <3>2. SumFunctionOnSet(Cols(U), T) = 0
      BY <3>1, SumZero
    <3> QED
      BY <2>1, <3>2, SumEmpty
  <2>2. CASE U # {}
    <3> DEFINE x == OneOf(U)
               R == U \ {x}
    <3>1. R \in P /\ x \in S /\ x \in U /\ IsFiniteSet(R) /\ IsFiniteSet(U)
      BY <1>1, <2>2, FirstIn, FS_Subset
    <3>2. SumFunctionOnSet(r, U) = SumFunctionOnSet(m[x], T) + SumFunctionOnSet(Cols(R), T)
      <4>1. SumFunctionOnSet(r, U) = r[x] + SumFunctionOnSet(r, R)
        BY <2>2, <3>1, SumFirst
      <4> QED
        BY <3>1, <4>1
    <3>3. ASSUME NEW y \in T
          PROVE  /\ m[x][y] \in Int /\ Cols(R)[y] \in Int
                 /\ Cols(U)[y] = m[x][y] + Cols(R)[y]
      <4> DEFINE f == k[y]
      <4>1. \A z \in S : f[z] \in Int
        OBVIOUS
      <4>2. f[x] = m[x][y] /\ m[x][y] \in Int
        BY <3>1
      <4> HIDE DEF f
      <4>3. SumFunctionOnSet(f, U) = f[x] + SumFunctionOnSet(f, R)
        BY <2>2, <3>1, SumFirst
      <4>4. SumFunctionOnSet(f, R) \in Int
        BY <3>1, <4>1, SumType
      <4>5. Cols(U)[y] = SumFunctionOnSet(f, U) /\ Cols(R)[y] = SumFunctionOnSet(f, R)
        BY DEF f
      <4> QED
        BY <4>2, <4>3, <4>4, <4>5
    <3> HIDE DEF Cols, x, R
    <3>4. SumFunctionOnSet(Cols(U), T) = SumFunctionOnSet(m[x], T) + SumFunctionOnSet(Cols(R), T)
      BY <3>3, SumAdd
    <3> QED
      BY <3>2, <3>4
  <2> QED
    BY <2>1, <2>2
<1>2. \A U \in SUBSET S : U \in P <=> SumFunctionOnSet(r, U) = SumFunctionOnSet(Cols(U), T)
  OBVIOUS
<1>3. \A y \in T : Cols(S)[y] = c[y]
  OBVIOUS
<1> HIDE DEF P, Cols
<1>4. S \in P
  BY <1>1, SubsetInduction
<1>5. SumFunctionOnSet(Cols(S), T) = SumFunctionOnSet(c, T)
  BY <1>3, SumSame
<1> QED
  BY <1>2, <1>4, <1>5
\* The sum of one number and zeros.
LEMMA SumOnly ==
    ASSUME NEW f, NEW S, IsFiniteSet(S), NEW x \in S, f[x] \in Int,
           \A y \in S : y # x => f[y] = 0
    PROVE  SumFunctionOnSet(f, S) = f[x]
<1>1. \A y \in S : f[y] \in Int
  OBVIOUS
<1>2. SumFunctionOnSet(f, S) = f[x] + SumFunctionOnSet(f, S \ {x})
  BY <1>1, SumRemove
<1>3. IsFiniteSet(S \ {x}) /\ \A y \in S \ {x} : f[y] = 0
  BY FS_Subset
<1>4. SumFunctionOnSet(f, S \ {x}) = 0
  BY <1>3, SumZero
<1> QED
  BY <1>2, <1>4

\* Each element of X has a key in K, and g sums f over the elements of each key.
Keyed(key, f, X, K) == \A x \in X : f[x] \in Int /\ key[x] \in K
SumsByKey(g, key, f, X, K) ==
    \A k \in K : g[k] = SumFunctionOnSet(f, {x \in X : key[x] = k})

\* A sum is that of the sums by key.
LEMMA SumByKey ==
    ASSUME NEW X, NEW K, IsFiniteSet(X), IsFiniteSet(K),
           NEW f, NEW key, Keyed(key, f, X, K),
           NEW g, SumsByKey(g, key, f, X, K)
    PROVE  SumFunctionOnSet(g, K) = SumFunctionOnSet(f, X)
<1> USE DEF Keyed, SumsByKey
<1> DEFINE m == [k \in K |-> [x \in X |-> IF key[x] = k THEN f[x] ELSE 0]]
           c == [x \in X |-> [k \in K |-> IF key[x] = k THEN f[x] ELSE 0]]
<1>1. \A k \in K, x \in X : /\ m[k][x] = IF key[x] = k THEN f[x] ELSE 0
                            /\ c[x][k] = IF key[x] = k THEN f[x] ELSE 0
  OBVIOUS
<1>2. ASSUME NEW k \in K PROVE g[k] = SumFunctionOnSet(m[k], X)
  <2> DEFINE T == {x \in X : key[x] = k}
             r == m[k]
  <2>1. T \in SUBSET X
    OBVIOUS
  <2>2. \A x \in X : f[x] \in Int /\ r[x] = (IF x \in T THEN f[x] ELSE 0)
    BY <1>1
  <2>3. g[k] = SumFunctionOnSet(f, T)
    OBVIOUS
  <2> HIDE DEF T, r
  <2>4. SumFunctionOnSet(r, X) = SumFunctionOnSet(f, T)
    BY <2>1, <2>2, SumPart
  <2> QED
    BY <2>3, <2>4 DEF r
<1>3. ASSUME NEW x \in X PROVE f[x] = SumFunctionOnSet(c[x], K)
  <2> DEFINE r == c[x]
  <2>1. PICK k \in K : k = key[x]
    OBVIOUS
  <2>2. r[k] = f[x] /\ f[x] \in Int /\ \A h \in K : h # k => r[h] = 0
    BY <1>1, <2>1
  <2> HIDE DEF r
  <2>3. SumFunctionOnSet(r, K) = r[k]
    BY <2>1, <2>2, SumOnly
  <2> QED
    BY <2>2, <2>3 DEF r
<1>4. Transposed(m, c, K, X)
  <2> HIDE DEF m, c
  <2> QED
    BY <1>1 DEF Transposed
<1>5. SumsByLine(g, m, K, X) /\ SumsByLine(f, c, X, K)
  <2> HIDE DEF m, c
  <2> QED
    BY <1>2, <1>3 DEF SumsByLine
<1> HIDE DEF m, c
<1> QED
  BY <1>4, <1>5, SumExchange

\* The sum of a union of sets that share nothing.
LEMMA SumUnion ==
    ASSUME NEW f, NEW A, NEW B, IsFiniteSet(A), IsFiniteSet(B), A \intersect B = {},
           \A x \in A \union B : f[x] \in Int
    PROVE  SumFunctionOnSet(f, A \union B) = SumFunctionOnSet(f, A) + SumFunctionOnSet(f, B)
<1> DEFINE U == A \union B
           g == [x \in U |-> IF x \in A THEN f[x] ELSE 0]
           h == [x \in U |-> IF x \in B THEN f[x] ELSE 0]
<1>1. IsFiniteSet(U)
  BY FS_Union
<1>2. \A x \in U : /\ f[x] \in Int /\ g[x] \in Int /\ h[x] \in Int
                   /\ g[x] = (IF x \in A THEN f[x] ELSE 0)
                   /\ h[x] = (IF x \in B THEN f[x] ELSE 0)
  OBVIOUS
<1>3. \A x \in U : g[x] \in Int /\ h[x] \in Int /\ f[x] = g[x] + h[x]
  <2> TAKE x \in U
  <2>1. CASE x \in A
    BY <1>2, <2>1
  <2>2. CASE x \in B
    BY <1>2, <2>2
  <2> QED
    BY <2>1, <2>2
<1>4. A \in SUBSET U /\ B \in SUBSET U
  OBVIOUS
<1> HIDE DEF U, g, h
<1>5. SumFunctionOnSet(f, U) = SumFunctionOnSet(g, U) + SumFunctionOnSet(h, U)
  BY <1>1, <1>3, SumAdd
<1>6. SumFunctionOnSet(g, U) = SumFunctionOnSet(f, A)
  BY <1>1, <1>2, <1>4, SumPart
<1>7. SumFunctionOnSet(h, U) = SumFunctionOnSet(f, B)
  BY <1>1, <1>2, <1>4, SumPart
<1> QED
  BY <1>5, <1>6, <1>7 DEF U

\* The sum of differences.
LEMMA SumSubtract ==
    ASSUME NEW f, NEW g, NEW h, NEW S, IsFiniteSet(S),
           \A x \in S : f[x] \in Int /\ g[x] \in Int /\ h[x] = f[x] - g[x]
    PROVE  SumFunctionOnSet(h, S) = SumFunctionOnSet(f, S) - SumFunctionOnSet(g, S)
<1>1. \A x \in S : h[x] \in Int /\ g[x] \in Int /\ f[x] = h[x] + g[x]
  OBVIOUS
<1>2. SumFunctionOnSet(f, S) = SumFunctionOnSet(h, S) + SumFunctionOnSet(g, S)
  BY <1>1, SumAdd
<1>3. SumFunctionOnSet(h, S) \in Int /\ SumFunctionOnSet(g, S) \in Int
  BY <1>1, SumType
<1> QED
  BY <1>2, <1>3

\* The sum of opposites.
LEMMA SumNegate ==
    ASSUME NEW f, NEW h, NEW S, IsFiniteSet(S), \A x \in S : f[x] \in Int /\ h[x] = -f[x]
    PROVE  SumFunctionOnSet(h, S) = -SumFunctionOnSet(f, S)
<1> DEFINE z == [x \in S |-> 0]
<1>1. \A x \in S : z[x] = 0
  OBVIOUS
<1>2. \A x \in S : f[x] \in Int /\ h[x] \in Int /\ z[x] = f[x] + h[x]
  BY <1>1
<1> HIDE DEF z
<1>3. SumFunctionOnSet(z, S) = 0
  BY <1>1, SumZero
<1>4. SumFunctionOnSet(z, S) = SumFunctionOnSet(f, S) + SumFunctionOnSet(h, S)
  BY <1>2, SumAdd
<1>5. SumFunctionOnSet(f, S) \in Int /\ SumFunctionOnSet(h, S) \in Int
  BY <1>2, SumType
<1> QED
  BY <1>3, <1>4, <1>5

-----------------------------------------------------------------------------
(* Recursion.                                                              *)

\* Values of V that follow one from the other.
TurnByTurn(g, N, V, first, next) ==
    g \in [0 .. N -> V] /\ g[0] = first /\ \A n \in 1 .. N : g[n] = next[<<n, g[n - 1]>>]

\* They exist, for any first value and any function from one to the next.
LEMMA TurnsExist ==
    ASSUME NEW N \in Nat, NEW V, NEW first \in V, NEW next \in [(1 .. N) \X V -> V]
    PROVE  \E g : TurnByTurn(g, N, V, first, next)
<1> DEFINE Turns(g, m) == /\ g \in [0 .. m -> V]
                          /\ g[0] = first
                          /\ \A n \in 1 .. m : g[n] = next[<<n, g[n - 1]>>]
           P == {m \in 0 .. N : \E g : Turns(g, m)}
<1>1. 0 \in P
  <2>1. PICK g : g = [k \in 0 .. 0 |-> first]
    OBVIOUS
  <2>2. Turns(g, 0)
    BY <2>1
  <2>3. 0 \in 0 .. N
    OBVIOUS
  <2> HIDE DEF Turns
  <2> QED
    BY <2>2, <2>3
<1>2. ASSUME NEW m \in 0 .. N - 1, m \in P PROVE m + 1 \in P
  <2>1. PICK g : Turns(g, m)
    BY <1>2
  <2>2. m \in Nat /\ m \in 0 .. m /\ m + 1 \in 1 .. N
    OBVIOUS
  <2>3. g[m] \in V
    BY <2>1, <2>2
  <2>4. PICK v \in V : v = next[<<m + 1, g[m]>>]
    BY <2>2, <2>3
  <2>5. PICK h : h = [k \in 0 .. m + 1 |-> IF k <= m THEN g[k] ELSE v]
    OBVIOUS
  <2>6. h \in [0 .. m + 1 -> V]
    BY <2>1, <2>5
  <2>7. h[0] = first
    BY <2>1, <2>2, <2>5
  <2>8. ASSUME NEW n \in 1 .. m + 1 PROVE h[n] = next[<<n, h[n - 1]>>]
    <3>1. h[n - 1] = g[n - 1]
      BY <2>5
    <3>2. CASE n <= m
      BY <2>1, <2>5, <3>1, <3>2
    <3>3. CASE n = m + 1
      <4>1. h[n] = v /\ n - 1 = m
        BY <2>5, <3>3
      <4> QED
        BY <2>4, <3>1, <3>3, <4>1
    <3> QED
      BY <3>2, <3>3
  <2> QED
    BY <2>2, <2>6, <2>7, <2>8
<1> HIDE DEF P
<1>3. \A m \in 0 .. N : m \in P
  BY <1>1, <1>2, CountInduction
<1>4. N \in P
  BY <1>3
<1>5. PICK g : Turns(g, N)
  BY <1>4 DEF P
<1> QED
  BY <1>5 DEF TurnByTurn
=============================================================================
