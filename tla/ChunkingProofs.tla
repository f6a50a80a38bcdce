--------------------------- MODULE ChunkingProofs ---------------------------
(***************************************************************************)
(* The passages of a text, for texts and paragraphs of any length: what    *)
(* FlattenSeq and the operators of Selection return, and with that what    *)
(* chunk_prose keeps.  An induction over the sentences of a paragraph is   *)
(* one over a set of naturals here: if a fact fails for some length, it    *)
(* fails for a least one.                                                  *)
(***************************************************************************)
EXTENDS Chunking, FiniteSetTheorems, WellFoundedInduction, TLAPS

-----------------------------------------------------------------------------
(***************************************************************************)
(* Induction, as a fact about sets: the theorems of the library that take  *)
(* a predicate cannot be instantiated.                                     *)
(***************************************************************************)

\* A set of naturals that is not empty has a least element.
LEMMA LeastElement ==
  ASSUME NEW S, S \subseteq Nat, S # {}
  PROVE  \E m \in S : \A n \in S : m <= n
<1> DEFINE R == OpToRel(<, Nat)
<1>1. PICK m \in S : \A n \in S : <<n, m>> \notin R
  <2>1. IsWellFoundedOn(R, Nat)
    BY NatLessThanWellFounded
  <2> HIDE DEF R
  <2> QED BY <2>1, WFMin
<1>2. \A n \in S : ~(n < m)
  BY <1>1 DEF OpToRel
<1> QED BY <1>2

LEMMA MinIsLeast ==
  ASSUME NEW S, S \subseteq Nat, S # {}
  PROVE  Min(S) \in S /\ \A n \in S : Min(S) <= n
BY LeastElement DEF Min

\* A set that 0 is in, and n + 1 with every n, has all naturals in it.
LEMMA SetInduction ==
  ASSUME NEW T, 0 \in T, \A n \in Nat : n \in T => n + 1 \in T
  PROVE  \A n \in Nat : n \in T
<1> SUFFICES ASSUME Nat \ T # {} PROVE FALSE
  OBVIOUS
<1>1. PICK m \in Nat \ T : \A n \in Nat \ T : m <= n
  BY LeastElement
<1>2. m # 0 /\ m - 1 \in Nat /\ m - 1 \in T
  BY <1>1
<1> QED BY <1>1, <1>2

\* A function may be defined by recursion up to a bound.
Recursive(f, n, start, step) ==
  f[0] = start /\ \A i \in 1..n : f[i] = step[<<i, f[i - 1]>>]

LEMMA Recursion ==
  ASSUME NEW N \in Nat, NEW X, NEW start \in X, NEW step \in [(1..N) \X X -> X]
  PROVE  \E f \in [0..N -> X] : Recursive(f, N, start, step)
<1> USE DEF Recursive
<1> DEFINE Upto(n) == \E f \in [0..n -> X] : Recursive(f, n, start, step)
           T == {n \in Nat : n <= N => Upto(n)}
<1>1. 0 \in T
  <2> DEFINE f == [i \in 0..0 |-> start]
  <2>1. f \in [0..0 -> X] /\ f[0] = start /\ \A i \in 1..0 : f[i] = step[<<i, f[i - 1]>>]
    OBVIOUS
  <2> QED BY <2>1
<1>2. \A n \in Nat : n \in T => n + 1 \in T
  <2> SUFFICES ASSUME NEW n \in Nat, n \in T, n + 1 <= N PROVE Upto(n + 1)
    OBVIOUS
  <2>1. PICK f \in [0..n -> X] : f[0] = start /\ \A i \in 1..n : f[i] = step[<<i, f[i - 1]>>]
    BY n <= N
  <2> DEFINE g == [i \in 0..(n + 1) |-> IF i <= n THEN f[i] ELSE step[<<i, f[i - 1]>>]]
  <2>2. g \in [0..(n + 1) -> X]
    <3> SUFFICES ASSUME NEW i \in 0..(n + 1) PROVE g[i] \in X
      OBVIOUS
    <3>1. CASE i <= n
      BY <3>1
    <3>2. CASE i = n + 1
      <4>1. <<i, f[i - 1]>> \in (1..N) \X X
        BY <3>2
      <4> QED BY <3>2, <4>1
    <3> QED BY <3>1, <3>2
  <2>3. \A i \in 1..(n + 1) : g[i] = step[<<i, g[i - 1]>>]
    BY <2>1
  <2>4. g[0] = start
    BY <2>1
  <2> QED BY <2>2, <2>3, <2>4
<1>3. N \in T
  <2> HIDE DEF T
  <2> QED BY <1>1, <1>2, SetInduction
<1> QED BY <1>3

-----------------------------------------------------------------------------
(***************************************************************************)
(* Selection                                                               *)
(***************************************************************************)

StrictOrder(R, S) ==
  /\ \A x \in S : <<x, x>> \notin R
  /\ \A x, y \in S : x # y => <<x, y>> \in R \/ <<y, x>> \in R
  /\ \A x, y, z \in S : <<x, y>> \in R /\ <<y, z>> \in R => <<x, z>> \in R

Below(R, S) == [x \in S |-> {y \in S : <<y, x>> \in R}]

\* The sequence f has every element of S once, in the order R.
Enumerates(f, S, R) ==
  /\ Cardinality(S) \in Nat
  /\ f \in [1..Cardinality(S) -> S]
  /\ \A i, j \in 1..Cardinality(S) : i < j => <<f[i], f[j]>> \in R
  /\ \A x \in S : \E k \in 1..Cardinality(S) : f[k] = x

\* Of a strict total order on a finite set the elements before each element
\* count the places 1, 2, ...
LEMMA Ranks ==
  ASSUME NEW S, IsFiniteSet(S), NEW R, StrictOrder(R, S)
  PROVE  \E rank \in [S -> 1..Cardinality(S)] :
           /\ Cardinality(S) \in Nat
           /\ \A x \in S : rank[x] = 1 + Cardinality(Below(R, S)[x])
           /\ \A x, y \in S : <<x, y>> \in R => rank[x] < rank[y]
           /\ \A k \in 1..Cardinality(S) : \E x \in S : rank[x] = k
<1> DEFINE n == Cardinality(S)
           before == Below(R, S)
           rank == [x \in S |-> 1 + Cardinality(before[x])]
<1>1. n \in Nat
  BY FS_CardinalityType
<1>2. \A x \in S : before[x] \in SUBSET S /\ before[x] # S
  BY DEF StrictOrder, Below
<1>3. \A x, y \in S : <<x, y>> \in R => before[x] \in SUBSET before[y] /\ before[x] # before[y]
  <2> SUFFICES ASSUME NEW x \in S, NEW y \in S, <<x, y>> \in R
               PROVE  before[x] \in SUBSET before[y] /\ before[x] # before[y]
    OBVIOUS
  <2>1. x \in before[y] /\ x \notin before[x]
    BY DEF StrictOrder, Below
  <2>2. before[x] \in SUBSET before[y]
    BY DEF StrictOrder, Below
  <2> QED BY <2>1, <2>2
<1> HIDE DEF before
<1>4. \A x \in S : IsFiniteSet(before[x]) /\ Cardinality(before[x]) \in Nat /\ Cardinality(before[x]) < n
  <2> TAKE x \in S
  <2>1. before[x] \in SUBSET S /\ before[x] # S
    BY <1>2
  <2>2. IsFiniteSet(before[x]) /\ Cardinality(before[x]) <= n /\ Cardinality(before[x]) # n
    BY <2>1, FS_Subset
  <2>3. Cardinality(before[x]) \in Nat
    BY <2>2, FS_CardinalityType
  <2> QED BY <1>1, <2>2, <2>3
<1>5. \A x \in S : rank[x] = 1 + Cardinality(before[x]) /\ rank[x] \in 1..n
  BY <1>1, <1>4
<1>6. rank \in [S -> 1..n]
  BY <1>5
<1> HIDE DEF rank
<1>7. \A x, y \in S : <<x, y>> \in R => rank[x] < rank[y]
  <2> SUFFICES ASSUME NEW x \in S, NEW y \in S, <<x, y>> \in R PROVE rank[x] < rank[y]
    OBVIOUS
  <2>1. Cardinality(before[x]) <= Cardinality(before[y]) /\ Cardinality(before[x]) # Cardinality(before[y])
    BY <1>4, <1>3, FS_Subset
  <2> QED BY <1>4, <1>5, <2>1
<1>8. \A x, y \in S : rank[x] = rank[y] => x = y
  <2> SUFFICES ASSUME NEW x \in S, NEW y \in S, x # y PROVE rank[x] # rank[y]
    OBVIOUS
  <2>1. <<x, y>> \in R \/ <<y, x>> \in R
    BY DEF StrictOrder
  <2>2. rank[x] \in Nat /\ rank[y] \in Nat
    BY <1>1, <1>5
  <2> QED BY <1>7, <2>1, <2>2
<1>9. rank \in Injection(S, 1..n)
  BY <1>6, <1>8 DEF Injection, IsInjective
<1>10. IsFiniteSet(1..n) /\ Cardinality(1..n) = n
  BY <1>1, FS_Interval
<1>11. rank \in Surjection(S, 1..n)
  BY <1>9, <1>10, FS_Injection
<1>12. \A k \in 1..n : \E x \in S : rank[x] = k
  BY <1>11 DEF Surjection
<1> QED BY <1>1, <1>5, <1>6, <1>7, <1>12 DEF before

\* Hence Sorted is an enumeration of the set in the order.
RankedBy(before, S) ==
  LET ranked == {[at |-> 1 + Cardinality(before[x]), it |-> x] : x \in S}
  IN [k \in 1..Cardinality(S) |-> (CHOOSE r \in ranked : r.at = k).it]

LEMMA RankedEnumerates ==
  ASSUME NEW S, IsFiniteSet(S), NEW R, StrictOrder(R, S)
  PROVE  Enumerates(RankedBy(Below(R, S), S), S, R)
<1> DEFINE n == Cardinality(S)
           before == Below(R, S)
           f == RankedBy(before, S)
           ranked == {[at |-> 1 + Cardinality(before[x]), it |-> x] : x \in S}
<1>1. PICK rank \in [S -> 1..n] :
         /\ n \in Nat
         /\ \A x \in S : rank[x] = 1 + Cardinality(before[x])
         /\ \A x, y \in S : <<x, y>> \in R => rank[x] < rank[y]
         /\ \A k \in 1..n : \E x \in S : rank[x] = k
  BY Ranks
<1>2. f = [k \in 1..n |-> (CHOOSE r \in ranked : r.at = k).it]
  BY DEF RankedBy
<1> HIDE DEF before, f
<1>3. \A k \in 1..n : f[k] \in S /\ rank[f[k]] = k
  <2> SUFFICES ASSUME NEW k \in 1..n PROVE f[k] \in S /\ rank[f[k]] = k
    OBVIOUS
  <2>1. PICK x \in S : rank[x] = k
    BY <1>1
  <2>2. [at |-> 1 + Cardinality(before[x]), it |-> x] \in ranked
    OBVIOUS
  <2>3. \E r \in ranked : r.at = k
    BY <1>1, <2>1, <2>2
  <2> DEFINE r == CHOOSE r \in ranked : r.at = k
  <2>4. r \in ranked /\ r.at = k
    <3> HIDE DEF ranked
    <3> QED BY <2>3
  <2>5. f[k] = r.it
    BY <1>2
  <2> HIDE DEF r
  <2>6. PICK z \in S : r = [at |-> 1 + Cardinality(before[z]), it |-> z]
    BY <2>4
  <2> QED BY <1>1, <2>4, <2>5, <2>6
<1>4. f \in [1..n -> S]
  <2>1. f = [k \in 1..n |-> f[k]]
    BY <1>2
  <2> HIDE DEF n
  <2> QED BY <1>3, <2>1
<1>5. \A i, j \in 1..n : i < j => <<f[i], f[j]>> \in R
  <2> SUFFICES ASSUME NEW i \in 1..n, NEW j \in 1..n, i < j PROVE <<f[i], f[j]>> \in R
    OBVIOUS
  <2>1. f[i] \in S /\ f[j] \in S /\ rank[f[i]] = i /\ rank[f[j]] = j
    BY <1>3
  <2>2. ~(<<f[j], f[i]>> \in R)
    BY <1>1, <2>1
  <2>3. f[i] # f[j]
    BY <1>1, <2>1
  <2> QED BY <2>1, <2>2, <2>3 DEF StrictOrder
<1>6. \A x \in S : \E k \in 1..n : f[k] = x
  <2> SUFFICES ASSUME NEW x \in S PROVE f[rank[x]] = x
    BY <1>1
  <2> DEFINE k == rank[x]
  <2>1. k \in 1..n /\ f[k] \in S /\ rank[f[k]] = k
    BY <1>1, <1>3
  <2>2. f[k] = x
    <3> SUFFICES ASSUME f[k] # x PROVE FALSE
      OBVIOUS
    <3>1. <<f[k], x>> \in R \/ <<x, f[k]>> \in R
      BY <2>1 DEF StrictOrder
    <3> QED BY <1>1, <2>1, <3>1
  <2> QED BY <2>2
<1>7. Enumerates(f, S, R)
  BY <1>1, <1>4, <1>5, <1>6 DEF Enumerates
<1> QED BY <1>7 DEF f, before

LEMMA InOrderProperties ==
  ASSUME NEW I, I \subseteq Int, IsFiniteSet(I)
  PROVE  /\ Cardinality(I) \in Nat
         /\ InOrder(I) \in [1..Cardinality(I) -> I]
         /\ \A i, j \in 1..Cardinality(I) : i < j => InOrder(I)[i] < InOrder(I)[j]
         /\ \A x \in I : \E k \in 1..Cardinality(I) : InOrder(I)[k] = x
<1> DEFINE R == {p \in I \X I : p[1] < p[2]}
           before == Below(R, I)
<1>1. \A x, y \in I : <<x, y>> \in R <=> x < y
  OBVIOUS
<1>2. StrictOrder(R, I)
  <2> HIDE DEF R
  <2> QED BY <1>1 DEF StrictOrder
<1>3. InOrder(I) = RankedBy(before, I)
  <2>1. \A x \in I : before[x] = {y \in I : y < x}
    BY <1>1 DEF Below
  <2> HIDE DEF before
  <2> DEFINE A == {[at |-> 1 + Cardinality({y \in I : y < x}), it |-> x] : x \in I}
             B == {[at |-> 1 + Cardinality(before[x]), it |-> x] : x \in I}
  <2>2. A = B
    BY <2>1
  <2>3. InOrder(I) = [k \in 1..Cardinality(I) |-> (CHOOSE r \in A : r.at = k).it]
    BY DEF InOrder, Sorted
  <2>4. RankedBy(before, I) = [k \in 1..Cardinality(I) |-> (CHOOSE r \in B : r.at = k).it]
    BY DEF RankedBy
  <2> HIDE DEF A, B
  <2> QED BY <2>2, <2>3, <2>4
<1> HIDE DEF R
<1>4. Enumerates(InOrder(I), I, R)
  BY <1>2, <1>3, RankedEnumerates
<1> QED BY <1>1, <1>4 DEF Enumerates

\* The elements at some places of a sequence, in the order of the places.
LEMMA AtProperties ==
  ASSUME NEW S, NEW s \in Seq(S), NEW I \in SUBSET DOMAIN s
  PROVE  /\ Cardinality(I) \in Nat
         /\ At(s, I) \in Seq(S)
         /\ Len(At(s, I)) = Cardinality(I)
         /\ InOrder(I) \in [1..Cardinality(I) -> I]
         /\ \A n \in 1..Cardinality(I) : At(s, I)[n] = s[InOrder(I)[n]]
         /\ \A i, j \in 1..Cardinality(I) : i < j => InOrder(I)[i] < InOrder(I)[j]
         /\ \A i \in I : \E n \in 1..Cardinality(I) : InOrder(I)[n] = i
<1>1. IsFiniteSet(I)
  <2>1. DOMAIN s = 1..Len(s) /\ Len(s) \in Nat
    OBVIOUS
  <2>2. IsFiniteSet(1..Len(s))
    BY <2>1, FS_Interval
  <2> QED BY <2>1, <2>2, FS_Subset
<1>2. I \subseteq Int
  OBVIOUS
<1> DEFINE f == InOrder(I)
           n == Cardinality(I)
<1>3. /\ n \in Nat /\ f \in [1..n -> I]
      /\ \A i, j \in 1..n : i < j => f[i] < f[j]
      /\ \A x \in I : \E k \in 1..n : f[k] = x
  BY <1>1, <1>2, InOrderProperties
<1>4. At(s, I) = [k \in 1..n |-> s[f[k]]]
  BY <1>3 DEF At
<1>5. \A k \in 1..n : s[f[k]] \in S
  <2> TAKE k \in 1..n
  <2>1. f[k] \in DOMAIN s
    BY <1>3
  <2> HIDE DEF f
  <2> QED BY <2>1
<1> HIDE DEF f, n
<1>6. At(s, I) \in [1..n -> S]
  BY <1>4, <1>5
<1>7. At(s, I) \in Seq(S) /\ Len(At(s, I)) = n
  BY <1>3, <1>6
<1> QED BY <1>3, <1>4, <1>7 DEF f, n

\* FlattenSeq puts one sequence behind the other.
Cat(a, b) == a \o b

FlattenedBy(f, ss) ==
  f[1] = ss[1] /\ \A i \in 1..Len(ss) : i # 1 => f[i] = Cat(f[i - 1], ss[i])

LEMMA FlattenDefined ==
  ASSUME NEW S, NEW ss \in Seq(Seq(S)), ss # <<>>
  PROVE  \E f \in [1..Len(ss) -> Seq(S)] : FlattenedBy(f, ss) /\ FlattenSeq(ss) = f[Len(ss)]
<1> DEFINE N == Len(ss)
           X == Seq(S)
           Flat(f) == [i \in 1..N |-> IF i = 1 THEN ss[i] ELSE Cat(f[i - 1], ss[i])]
           F == CHOOSE f : f = Flat(f)
           step == [p \in (1..N) \X X |-> Cat(p[2], ss[p[1]])]
<1>1. N \in Nat /\ N >= 1 /\ \A i \in 1..N : ss[i] \in X
  OBVIOUS
<1>2. \A a, b \in X : Cat(a, b) \in X /\ Cat(<<>>, b) = b
  BY DEF Cat
<1>3. <<>> \in X
  OBVIOUS
<1>4. FlattenSeq(ss) = F[N]
  BY <1>1 DEF FlattenSeq, Cat
<1> HIDE DEF N, X
<1>5. step \in [(1..N) \X X -> X]
  BY <1>1, <1>2
<1>6. \A i \in 1..N, s \in X : step[<<i, s>>] = Cat(s, ss[i])
  OBVIOUS
<1> HIDE DEF step
<1>7. PICK g \in [0..N -> X] : Recursive(g, N, <<>>, step)
  BY <1>1, <1>3, <1>5, Recursion
<1>8. g[0] = <<>> /\ \A i \in 1..N : g[i - 1] \in X /\ g[i] = Cat(g[i - 1], ss[i])
  <2>1. g[0] = <<>> /\ \A i \in 1..N : g[i] = step[<<i, g[i - 1]>>]
    BY <1>7 DEF Recursive
  <2> SUFFICES ASSUME NEW i \in 1..N PROVE g[i - 1] \in X /\ g[i] = Cat(g[i - 1], ss[i])
    BY <2>1
  <2>2. i - 1 \in 0..N
    BY <1>1
  <2>3. g[i - 1] \in X
    BY <2>2
  <2>4. step[<<i, g[i - 1]>>] = Cat(g[i - 1], ss[i])
    BY <1>6, <2>3
  <2> QED BY <2>1, <2>3, <2>4
<1> DEFINE h == [i \in 1..N |-> g[i]]
<1>9. \A i \in 1..N : h[i] \in X /\ h[i] = IF i = 1 THEN ss[i] ELSE Cat(h[i - 1], ss[i])
  <2> SUFFICES ASSUME NEW i \in 1..N
               PROVE  g[i] \in X /\ g[i] = IF i = 1 THEN ss[i] ELSE Cat(g[i - 1], ss[i])
    BY <1>1
  <2>1. g[i] \in X /\ ss[i] \in X /\ g[i] = Cat(g[i - 1], ss[i])
    BY <1>1, <1>8
  <2>2. CASE i = 1
    BY <1>2, <1>8, <2>1, <2>2
  <2> QED BY <2>1, <2>2
<1>10. h = Flat(h)
  BY <1>9
<1>11. F = Flat(F)
  <2> HIDE DEF Flat, h
  <2> QED BY <1>10
<1> HIDE DEF F
<1>12. F = [i \in 1..N |-> F[i]]
  BY <1>11
<1>13. \A i \in 1..N : F[i] = IF i = 1 THEN ss[i] ELSE Cat(F[i - 1], ss[i])
  BY <1>11
<1>14. F[1] = ss[1] /\ \A i \in 1..N : i # 1 => F[i] = Cat(F[i - 1], ss[i])
  BY <1>1, <1>13
<1>15. \A i \in 1..N : F[i] \in X
  <2> DEFINE T == {n \in Nat : n + 1 <= N => F[n + 1] \in X}
  <2>1. 0 \in T
    BY <1>1, <1>14
  <2>2. \A n \in Nat : n \in T => n + 1 \in T
    <3> SUFFICES ASSUME NEW n \in Nat, n \in T, n + 2 <= N PROVE F[n + 2] \in X
      OBVIOUS
    <3>1. n + 1 \in 1..N /\ n + 2 \in 1..N /\ (n + 2) - 1 = n + 1 /\ n + 2 # 1
      BY <1>1
    <3>2. F[n + 1] \in X /\ ss[n + 2] \in X /\ F[n + 2] = Cat(F[n + 1], ss[n + 2])
      BY <1>1, <1>14, <3>1
    <3> QED BY <1>2, <3>2
  <2> HIDE DEF T
  <2>3. \A n \in Nat : n \in T
    BY <2>1, <2>2, SetInduction
  <2> TAKE i \in 1..N
  <2>4. i - 1 \in T /\ (i - 1) + 1 = i
    BY <1>1, <2>3
  <2> QED BY <1>1, <2>4 DEF T
<1>16. F \in [1..N -> X]
  BY <1>12, <1>15
<1>17. FlattenedBy(F, ss)
  BY <1>14 DEF FlattenedBy, N
<1> QED BY <1>4, <1>16, <1>17 DEF N, X

LEMMA FlattenType ==
  ASSUME NEW S, NEW ss \in Seq(Seq(S))
  PROVE  FlattenSeq(ss) \in Seq(S)
<1>1. CASE ss = <<>>
  BY <1>1 DEF FlattenSeq
<1>2. CASE ss # <<>>
  <2>1. PICK f \in [1..Len(ss) -> Seq(S)] : FlattenSeq(ss) = f[Len(ss)]
    BY <1>2, FlattenDefined
  <2>2. Len(ss) \in 1..Len(ss)
    BY <1>2
  <2> QED BY <2>1, <2>2
<1> QED BY <1>1, <1>2

LEMMA FlattenOne ==
  ASSUME NEW S, NEW s \in Seq(S)
  PROVE  FlattenSeq(<<s>>) = s
<1> DEFINE ss == <<s>>
<1>1. ss \in Seq(Seq(S)) /\ ss # <<>> /\ Len(ss) = 1 /\ ss[1] = s
  OBVIOUS
<1> HIDE DEF ss
<1>2. PICK f \in [1..Len(ss) -> Seq(S)] : FlattenedBy(f, ss) /\ FlattenSeq(ss) = f[Len(ss)]
  BY <1>1, FlattenDefined
<1>3. FlattenSeq(ss) = s
  BY <1>1, <1>2 DEF FlattenedBy
<1> QED BY <1>3 DEF ss

LEMMA FlattenAppend ==
  ASSUME NEW S, NEW ss \in Seq(Seq(S)), NEW s \in Seq(S)
  PROVE  FlattenSeq(Append(ss, s)) = FlattenSeq(ss) \o s
<1> DEFINE tt == Append(ss, s)
           N == Len(ss)
<1>1. /\ N \in Nat /\ tt \in Seq(Seq(S)) /\ tt # <<>> /\ Len(tt) = N + 1
      /\ tt[N + 1] = s /\ \A i \in 1..N : tt[i] = ss[i]
  <2> DEFINE X == Seq(S)
  <2>1. ss \in Seq(X) /\ s \in X
    OBVIOUS
  <2> HIDE DEF X
  <2>2. /\ N \in Nat /\ tt \in Seq(X) /\ tt # <<>> /\ Len(tt) = N + 1
        /\ tt[N + 1] = s /\ \A i \in 1..N : tt[i] = ss[i]
    BY <2>1
  <2> QED BY <2>2 DEF X
<1> HIDE DEF tt
<1>2. PICK g \in [1..Len(tt) -> Seq(S)] : FlattenedBy(g, tt) /\ FlattenSeq(tt) = g[Len(tt)]
  BY <1>1, FlattenDefined
<1>3. CASE ss = <<>>
  <2>1. FlattenSeq(tt) = s
    BY <1>1, <1>2, <1>3 DEF FlattenedBy
  <2>2. FlattenSeq(ss) \o s = s
    BY <1>3 DEF FlattenSeq
  <2> QED BY <2>1, <2>2 DEF tt
<1>4. CASE ss # <<>>
  <2>1. PICK f \in [1..N -> Seq(S)] : FlattenedBy(f, ss) /\ FlattenSeq(ss) = f[N]
    BY <1>4, FlattenDefined
  <2> DEFINE T == {n \in Nat : n + 1 <= N => f[n + 1] = g[n + 1]}
  <2>2. N >= 1
    BY <1>4
  <2> HIDE DEF N
  <2>3. 0 \in T
    BY <1>1, <1>2, <2>1, <2>2 DEF FlattenedBy
  <2>4. \A n \in Nat : n \in T => n + 1 \in T
    <3> SUFFICES ASSUME NEW n \in Nat, n \in T, n + 2 <= N PROVE f[n + 2] = g[n + 2]
      OBVIOUS
    <3>1. n + 1 \in 1..N /\ n + 2 \in 1..N /\ (n + 2) - 1 = n + 1 /\ n + 2 # 1 /\ n + 2 \in 1..(N + 1)
      BY <1>1
    <3>2. f[n + 2] = Cat(f[n + 1], ss[n + 2])
      BY <2>1, <3>1 DEF FlattenedBy, N
    <3>3. g[n + 2] = Cat(g[n + 1], tt[n + 2])
      BY <1>1, <1>2, <3>1 DEF FlattenedBy
    <3>4. f[n + 1] = g[n + 1] /\ ss[n + 2] = tt[n + 2]
      BY <1>1, <3>1
    <3> QED BY <3>2, <3>3, <3>4
  <2>5. f[N] = g[N]
    <3>1. \A n \in Nat : n \in T
      <4> HIDE DEF T
      <4> QED BY <2>3, <2>4, SetInduction
    <3>2. N - 1 \in Nat /\ (N - 1) + 1 = N
      BY <1>1, <2>2
    <3>3. N - 1 \in T
      <4> HIDE DEF T
      <4> QED BY <3>1, <3>2
    <3> QED BY <1>1, <3>2, <3>3
  <2>6. g[N + 1] = Cat(g[N], tt[N + 1])
    <3>1. N + 1 \in 1..Len(tt) /\ N + 1 # 1 /\ (N + 1) - 1 = N
      BY <1>1, <2>2
    <3> QED BY <1>2, <3>1 DEF FlattenedBy
  <2>7. FlattenSeq(tt) = Cat(FlattenSeq(ss), s)
    BY <1>1, <1>2, <2>1, <2>5, <2>6
  <2> QED BY <2>7 DEF tt, Cat
<1> QED BY <1>3, <1>4

LEMMA FlattenElements ==
  ASSUME NEW S, NEW ss \in Seq(Seq(S))
  PROVE  ToSet(FlattenSeq(ss)) = UNION {ToSet(ss[i]) : i \in DOMAIN ss}
<1>1. CASE ss = <<>>
  BY <1>1 DEF FlattenSeq, ToSet
<1>2. CASE ss # <<>>
  <2> DEFINE N == Len(ss)
  <2>1. PICK f \in [1..N -> Seq(S)] : FlattenedBy(f, ss) /\ FlattenSeq(ss) = f[N]
    BY <1>2, FlattenDefined
  <2>2. N \in Nat /\ N >= 1 /\ DOMAIN ss = 1..N /\ \A i \in 1..N : ss[i] \in Seq(S)
    BY <1>2
  <2> HIDE DEF N
  <2>3. \A a, b \in Seq(S) : ToSet(Cat(a, b)) = ToSet(a) \cup ToSet(b)
    <3> SUFFICES ASSUME NEW a \in Seq(S), NEW b \in Seq(S)
                 PROVE  ToSet(Cat(a, b)) = ToSet(a) \cup ToSet(b)
      OBVIOUS
    <3>1. ToSet(a) \subseteq ToSet(Cat(a, b))
      BY DEF ToSet, Cat
    <3>2. ToSet(b) \subseteq ToSet(Cat(a, b))
      <4> SUFFICES ASSUME NEW i \in DOMAIN b PROVE b[i] \in ToSet(Cat(a, b))
        BY DEF ToSet
      <4>1. Len(a) + i \in DOMAIN Cat(a, b) /\ Cat(a, b)[Len(a) + i] = b[i]
        BY DEF Cat
      <4> QED BY <4>1 DEF ToSet
    <3>3. ToSet(Cat(a, b)) \subseteq ToSet(a) \cup ToSet(b)
      BY DEF ToSet, Cat
    <3> QED BY <3>1, <3>2, <3>3
  <2> DEFINE Part(n) == UNION {ToSet(ss[i]) : i \in 1..n}
             T == {n \in Nat : n + 1 <= N => ToSet(f[n + 1]) = Part(n + 1)}
  <2>4. 0 \in T
    <3>1. f[1] = ss[1]
      BY <2>1 DEF FlattenedBy
    <3>2. Part(1) = ToSet(ss[1])
      OBVIOUS
    <3> QED BY <3>1, <3>2
  <2>5. \A n \in Nat : n \in T => n + 1 \in T
    <3> HIDE DEF Part
    <3> SUFFICES ASSUME NEW n \in Nat, n \in T, n + 2 <= N PROVE ToSet(f[n + 2]) = Part(n + 2)
      OBVIOUS
    <3>4. ToSet(f[n + 1]) = Part(n + 1)
      BY <2>2
    <3>1. n + 1 \in 1..N /\ n + 2 \in 1..N /\ (n + 2) - 1 = n + 1 /\ n + 2 # 1
      BY <2>2
    <3>2. f[n + 2] = Cat(f[n + 1], ss[n + 2])
      BY <2>1, <3>1 DEF FlattenedBy, N
    <3>3. ToSet(f[n + 2]) = ToSet(f[n + 1]) \cup ToSet(ss[n + 2])
      BY <2>1, <2>2, <2>3, <3>1, <3>2
    <3>5. Part(n + 2) = Part(n + 1) \cup ToSet(ss[n + 2])
      <4>1. 1..(n + 2) = 1..(n + 1) \cup {n + 2}
        OBVIOUS
      <4> QED BY <4>1 DEF Part
    <3> QED BY <3>3, <3>4, <3>5
  <2>6. ToSet(f[N]) = Part(N)
    <3>1. \A n \in Nat : n \in T
      <4> HIDE DEF T
      <4> QED BY <2>4, <2>5, SetInduction
    <3>2. N - 1 \in Nat /\ (N - 1) + 1 = N
      BY <2>2
    <3>3. N - 1 \in T
      <4> HIDE DEF T
      <4> QED BY <3>1, <3>2
    <3> HIDE DEF Part
    <3> QED BY <2>2, <3>2, <3>3
  <2> QED BY <2>1, <2>2, <2>6
<1> QED BY <1>1, <1>2

-----------------------------------------------------------------------------
(***************************************************************************)
(* Chunking                                                                *)
(***************************************************************************)
Paragraphs == Seq(Nat)

LEMMA SizeType ==
  ASSUME NEW p \in Paragraphs
  PROVE  Size(p) \in Int
<1> DEFINE N == Len(p)
           Sum(f) == [n \in 0..N |-> IF n = 0 THEN -1 ELSE f[n - 1] + p[n] + 1]
           F == CHOOSE f : f = Sum(f)
           step == [q \in (1..N) \X Int |-> q[2] + p[q[1]] + 1]
<1>1. N \in Nat /\ \A i \in 1..N : p[i] \in Nat
  BY DEF Paragraphs
<1>2. Size(p) = F[N]
  BY DEF Size
<1> HIDE DEF N
<1>3. step \in [(1..N) \X Int -> Int]
  BY <1>1
<1>4. \A i \in 1..N, k \in Int : step[<<i, k>>] = k + p[i] + 1
  OBVIOUS
<1> HIDE DEF step
<1>5. PICK g \in [0..N -> Int] : Recursive(g, N, -1, step)
  <2> DEFINE X == Int
             start == -1
  <2>1. start \in X /\ step \in [(1..N) \X X -> X]
    BY <1>3
  <2>2. \E g \in [0..N -> X] : Recursive(g, N, start, step)
    <3> HIDE DEF X, start
    <3> QED BY <1>1, <2>1, Recursion
  <2> QED BY <2>2
<1>6. g[0] = -1 /\ \A i \in 1..N : g[i] = g[i - 1] + p[i] + 1
  <2>1. g[0] = -1 /\ \A i \in 1..N : g[i] = step[<<i, g[i - 1]>>]
    BY <1>5 DEF Recursive
  <2> SUFFICES ASSUME NEW i \in 1..N PROVE g[i] = g[i - 1] + p[i] + 1
    BY <2>1
  <2>2. i - 1 \in 0..N
    BY <1>1
  <2>3. g[i - 1] \in Int
    BY <2>2
  <2> QED BY <1>4, <2>1, <2>3
<1>7. g = Sum(g)
  <2>1. \A n \in 0..N : g[n] = IF n = 0 THEN -1 ELSE g[n - 1] + p[n] + 1
    BY <1>1, <1>6
  <2> QED BY <2>1
<1>8. F = Sum(F)
  <2> HIDE DEF Sum
  <2> QED BY <1>7
<1> HIDE DEF F
<1>9. \A n \in 0..N : F[n] = IF n = 0 THEN -1 ELSE F[n - 1] + p[n] + 1
  BY <1>8
<1>10. F[N] \in Int
  <2> DEFINE T == {n \in Nat : n <= N => F[n] \in Int}
  <2>1. 0 \in T
    BY <1>1, <1>9
  <2>2. \A n \in Nat : n \in T => n + 1 \in T
    <3> SUFFICES ASSUME NEW n \in Nat, n \in T, n + 1 <= N PROVE F[n + 1] \in Int
      OBVIOUS
    <3>1. n \in 0..N /\ n + 1 \in 0..N /\ n + 1 \in 1..N /\ (n + 1) - 1 = n /\ n + 1 # 0
      BY <1>1
    <3>2. F[n] \in Int /\ p[n + 1] \in Nat /\ F[n + 1] = F[n] + p[n + 1] + 1
      BY <1>1, <1>9, <3>1
    <3> QED BY <3>2
  <2>3. N \in T
    <3> HIDE DEF T
    <3> QED BY <1>1, <2>1, <2>2, SetInduction
  <2> QED BY <1>1, <2>3
<1> QED BY <1>2, <1>10

\* The steps of the loop over the sentences.
Accs == [done : Seq(Paragraphs), current : Paragraphs]
Empty == [done |-> <<>>, current |-> <<>>]

LEMMA AddType ==
  ASSUME NEW acc \in Accs, NEW s \in Nat
  PROVE  Add(acc, s) \in Accs
<1>1. acc.done \in Seq(Paragraphs) /\ acc.current \in Paragraphs
  BY DEF Accs
<1>2. Append(acc.done, acc.current) \in Seq(Paragraphs)
  BY <1>1
<1>3. Append(acc.current, s) \in Paragraphs /\ <<s>> \in Paragraphs
  BY <1>1 DEF Paragraphs
<1>4. [acc EXCEPT !.current = Append(acc.current, s)]
        = [done |-> acc.done, current |-> Append(acc.current, s)]
  BY DEF Accs
<1> QED BY <1>1, <1>2, <1>3, <1>4 DEF Add, Accs

LEMMA FilledDefined ==
  ASSUME NEW p \in Paragraphs
  PROVE  \E f \in [0..Len(p) -> Accs] :
           /\ f[0] = Empty
           /\ \A n \in 1..Len(p) : f[n] = Add(f[n - 1], p[n])
           /\ Filled(p) = f[Len(p)]
<1> DEFINE N == Len(p)
           Loop(f) == [n \in 0..N |-> IF n = 0 THEN Empty ELSE Add(f[n - 1], p[n])]
           F == CHOOSE f : f = Loop(f)
           step == [q \in (1..N) \X Accs |-> Add(q[2], p[q[1]])]
<1>1. N \in Nat /\ \A i \in 1..N : p[i] \in Nat
  BY DEF Paragraphs
<1>2. Filled(p) = F[N]
  BY DEF Filled, Empty
<1>3. Empty \in Accs
  BY DEF Empty, Accs, Paragraphs
<1> HIDE DEF N
<1>4. step \in [(1..N) \X Accs -> Accs]
  BY <1>1, AddType
<1>5. \A i \in 1..N, acc \in Accs : step[<<i, acc>>] = Add(acc, p[i])
  OBVIOUS
<1> HIDE DEF step
<1>6. PICK g \in [0..N -> Accs] : Recursive(g, N, Empty, step)
  BY <1>1, <1>3, <1>4, Recursion
<1>7. g[0] = Empty /\ \A i \in 1..N : g[i] = Add(g[i - 1], p[i])
  <2>1. g[0] = Empty /\ \A i \in 1..N : g[i] = step[<<i, g[i - 1]>>]
    BY <1>6 DEF Recursive
  <2> SUFFICES ASSUME NEW i \in 1..N PROVE g[i] = Add(g[i - 1], p[i])
    BY <2>1
  <2>2. i - 1 \in 0..N
    BY <1>1
  <2>3. g[i - 1] \in Accs
    BY <2>2
  <2> QED BY <1>5, <2>1, <2>3
<1>8. g = Loop(g)
  <2>1. \A n \in 0..N : g[n] = IF n = 0 THEN Empty ELSE Add(g[n - 1], p[n])
    BY <1>1, <1>7
  <2> QED BY <2>1
<1>9. F = Loop(F)
  <2> HIDE DEF Loop
  <2> QED BY <1>8
<1> HIDE DEF F
<1>10. F = [n \in 0..N |-> F[n]]
  BY <1>9
<1>11. \A n \in 0..N : F[n] = IF n = 0 THEN Empty ELSE Add(F[n - 1], p[n])
  BY <1>9
<1>12. F[0] = Empty /\ \A n \in 1..N : F[n] = Add(F[n - 1], p[n])
  BY <1>1, <1>11
<1>13. \A n \in 0..N : F[n] \in Accs
  <2> DEFINE T == {n \in Nat : n <= N => F[n] \in Accs}
  <2>1. 0 \in T
    BY <1>3, <1>12
  <2>2. \A n \in Nat : n \in T => n + 1 \in T
    <3> SUFFICES ASSUME NEW n \in Nat, n \in T, n + 1 <= N PROVE F[n + 1] \in Accs
      OBVIOUS
    <3>1. n \in 0..N /\ n + 1 \in 1..N /\ (n + 1) - 1 = n
      BY <1>1
    <3>2. F[n] \in Accs /\ p[n + 1] \in Nat /\ F[n + 1] = Add(F[n], p[n + 1])
      BY <1>1, <1>12, <3>1
    <3> QED BY <3>2, AddType
  <2> HIDE DEF T
  <2>3. \A n \in Nat : n \in T
    BY <2>1, <2>2, SetInduction
  <2> QED BY <1>1, <2>3 DEF T
<1>14. F \in [0..N -> Accs]
  BY <1>10, <1>13
<1> QED BY <1>2, <1>12, <1>14 DEF N

\* What the loop has made of the first n sentences.
WellCutUpto(acc, p, n) ==
  LET pieces == Append(acc.done, acc.current)
  IN /\ acc \in Accs /\ acc.current # <<>>
     /\ FlattenSeq(pieces) = SubSeq(p, 1, n)
     /\ \A i \in DOMAIN pieces : pieces[i] # <<>> /\ (Size(pieces[i]) <= MaxChars \/ Len(pieces[i]) = 1)
     /\ \A i \in 1..(Len(pieces) - 1) : Size(Append(pieces[i], Head(pieces[i + 1]))) > MaxChars

LEMMA CutStep ==
  ASSUME NEW p \in Paragraphs, NEW n \in Nat, n + 1 \in 1..Len(p),
         NEW acc, WellCutUpto(acc, p, n)
  PROVE  WellCutUpto(Add(acc, p[n + 1]), p, n + 1)
<1> DEFINE s == p[n + 1]
           new == Add(acc, s)
           old == Append(acc.done, acc.current)
           pieces == Append(new.done, new.current)
           k == Len(acc.done)
<1>1. s \in Nat /\ acc \in Accs /\ acc.done \in Seq(Paragraphs) /\ acc.current \in Paragraphs
  BY DEF Paragraphs, WellCutUpto, Accs
<1>2. /\ acc.current # <<>>
      /\ FlattenSeq(old) = SubSeq(p, 1, n)
      /\ \A i \in DOMAIN old : old[i] # <<>> /\ (Size(old[i]) <= MaxChars \/ Len(old[i]) = 1)
      /\ \A i \in 1..(Len(old) - 1) : Size(Append(old[i], Head(old[i + 1]))) > MaxChars
  BY DEF WellCutUpto
<1>3. new \in Accs
  BY <1>1, AddType
<1>4. SubSeq(p, 1, n + 1) = SubSeq(p, 1, n) \o <<s>>
  <2>1. p \in Seq(Nat) /\ Len(p) \in Nat
    BY DEF Paragraphs
  <2> QED BY <2>1
<1>5. /\ k \in Nat /\ old \in Seq(Paragraphs) /\ Len(old) = k + 1
      /\ \A i \in 1..k : old[i] = acc.done[i]
      /\ old[k + 1] = acc.current
  <2> HIDE DEF s
  <2> QED BY <1>1
<1>6. /\ Append(acc.current, s) \in Paragraphs
      /\ <<s>> \in Paragraphs
      /\ Append(acc.current, s) # <<>>
      /\ Head(Append(acc.current, s)) = Head(acc.current)
      /\ Append(acc.current, s) = acc.current \o <<s>>
  <2> DEFINE c == acc.current
  <2>1. c \in Seq(Nat) /\ c # <<>> /\ s \in Nat
    BY <1>1, <1>2 DEF Paragraphs
  <2> HIDE DEF s, c
  <2>2. Append(c, s) \in Seq(Nat) /\ <<s>> \in Seq(Nat)
    BY <2>1
  <2>3. Append(c, s) # <<>> /\ Head(Append(c, s)) = Head(c)
    BY <2>1
  <2>4. Append(c, s) = c \o <<s>>
    BY <2>1
  <2> QED BY <2>2, <2>3, <2>4 DEF c, Paragraphs
<1>7. Size(Append(acc.current, s)) \in Int
  BY <1>6, SizeType
<1>8. CASE Size(Append(acc.current, s)) > MaxChars
  <2>1. new.done = old /\ new.current = <<s>>
    BY <1>2, <1>8 DEF Add
  <2>2. pieces = Append(old, <<s>>)
    BY <2>1
  <2>3. FlattenSeq(pieces) = FlattenSeq(old) \o <<s>>
    <3>1. old \in Seq(Seq(Nat)) /\ <<s>> \in Seq(Nat)
      BY <1>5, <1>6 DEF Paragraphs
    <3> HIDE DEF old, s
    <3> QED BY <2>2, <3>1, FlattenAppend
  <2>4. /\ Len(pieces) = k + 2
        /\ \A i \in 1..(k + 1) : pieces[i] = old[i]
        /\ pieces[k + 2] = <<s>>
        /\ DOMAIN pieces = 1..(k + 2)
    <3> HIDE DEF old, s, k, pieces
    <3> QED BY <1>5, <1>6, <2>2
  <2>5. Len(<<s>>) = 1 /\ <<s>> # <<>> /\ Head(<<s>>) = s
    OBVIOUS
  <2> HIDE DEF old, s, k, pieces, new
  <2>6. \A i \in DOMAIN pieces : pieces[i] # <<>> /\ (Size(pieces[i]) <= MaxChars \/ Len(pieces[i]) = 1)
    <3> SUFFICES ASSUME NEW i \in 1..(k + 2)
                 PROVE  pieces[i] # <<>> /\ (Size(pieces[i]) <= MaxChars \/ Len(pieces[i]) = 1)
      BY <2>4
    <3>1. CASE i = k + 2
      BY <2>4, <2>5, <3>1
    <3>2. CASE i \in 1..(k + 1)
      <4>1. pieces[i] = old[i] /\ i \in DOMAIN old
        BY <1>5, <2>4, <3>2
      <4> QED BY <1>2, <4>1
    <3> QED BY <1>5, <3>1, <3>2
  <2>7. \A i \in 1..(Len(pieces) - 1) : Size(Append(pieces[i], Head(pieces[i + 1]))) > MaxChars
    <3> SUFFICES ASSUME NEW i \in 1..(k + 1)
                 PROVE  Size(Append(pieces[i], Head(pieces[i + 1]))) > MaxChars
      BY <1>5, <2>4
    <3>1. CASE i = k + 1
      <4>1. pieces[i] = acc.current /\ pieces[i + 1] = <<s>>
        BY <1>5, <2>4, <3>1
      <4> QED BY <1>8, <2>5, <4>1
    <3>2. CASE i \in 1..k
      <4>1. pieces[i] = old[i] /\ pieces[i + 1] = old[i + 1] /\ i \in 1..(Len(old) - 1)
        BY <1>5, <2>4, <3>2
      <4> QED BY <1>2, <4>1
    <3> QED BY <1>5, <3>1, <3>2
  <2>8. new.current # <<>>
    BY <2>1, <2>5
  <2>9. FlattenSeq(pieces) = SubSeq(p, 1, n + 1)
    BY <1>2, <1>4, <2>3
  <2> QED BY <1>3, <2>6, <2>7, <2>8, <2>9 DEF WellCutUpto, pieces, new, s
<1>9. CASE ~(Size(Append(acc.current, s)) > MaxChars)
  <2>1. new.done = acc.done /\ new.current = Append(acc.current, s)
    BY <1>1, <1>9 DEF Add, Accs
  <2>2. pieces = Append(acc.done, Append(acc.current, s))
    BY <2>1
  <2>3. FlattenSeq(pieces) = FlattenSeq(old) \o <<s>>
    <3> DEFINE d == acc.done  c == acc.current
    <3>1. d \in Seq(Seq(Nat)) /\ c \in Seq(Nat) /\ <<s>> \in Seq(Nat) /\ c \o <<s>> \in Seq(Nat)
      BY <1>1, <1>6 DEF Paragraphs
    <3>2. pieces = Append(d, c \o <<s>>) /\ old = Append(d, c)
      BY <1>6, <2>2
    <3> HIDE DEF d, c, s, pieces, old
    <3>3. FlattenSeq(pieces) = FlattenSeq(d) \o (c \o <<s>>)
      BY <3>1, <3>2, FlattenAppend
    <3>4. FlattenSeq(old) = FlattenSeq(d) \o c
      BY <3>1, <3>2, FlattenAppend
    <3>5. FlattenSeq(d) \in Seq(Nat)
      BY <3>1, FlattenType
    <3>6. FlattenSeq(d) \o (c \o <<s>>) = (FlattenSeq(d) \o c) \o <<s>>
      BY <3>1, <3>5
    <3> QED BY <3>3, <3>4, <3>6
  <2>4. /\ Len(pieces) = k + 1
        /\ \A i \in 1..k : pieces[i] = old[i]
        /\ pieces[k + 1] = Append(acc.current, s)
        /\ DOMAIN pieces = 1..(k + 1)
    <3> DEFINE c == Append(acc.current, s)
    <3>1. c \in Paragraphs /\ pieces = Append(acc.done, c)
      BY <1>6, <2>2
    <3>2. pieces[k + 1] = c
      <4> HIDE DEF c, pieces
      <4> QED BY <1>1, <3>1
    <3>3. /\ Len(pieces) = k + 1
          /\ \A i \in 1..k : pieces[i] = acc.done[i]
          /\ DOMAIN pieces = 1..(k + 1)
      <4> HIDE DEF c, pieces
      <4> QED BY <1>1, <3>1
    <3> HIDE DEF c, pieces, old, k
    <3> QED BY <1>5, <3>2, <3>3 DEF c
  <2> HIDE DEF old, s, k, pieces, new
  <2>6. \A i \in DOMAIN pieces : pieces[i] # <<>> /\ (Size(pieces[i]) <= MaxChars \/ Len(pieces[i]) = 1)
    <3>1. Size(Append(acc.current, s)) <= MaxChars
      BY <1>7, <1>9, ChunkAssumption
    <3> SUFFICES ASSUME NEW i \in 1..(k + 1)
                 PROVE  pieces[i] # <<>> /\ (Size(pieces[i]) <= MaxChars \/ Len(pieces[i]) = 1)
      BY <2>4
    <3>2. CASE i = k + 1
      BY <1>6, <2>4, <3>1, <3>2
    <3>3. CASE i \in 1..k
      <4>1. pieces[i] = old[i] /\ i \in DOMAIN old
        BY <1>5, <2>4, <3>3
      <4> QED BY <1>2, <4>1
    <3> QED BY <1>5, <3>2, <3>3
  <2>7. \A i \in 1..(Len(pieces) - 1) : Size(Append(pieces[i], Head(pieces[i + 1]))) > MaxChars
    <3> SUFFICES ASSUME NEW i \in 1..k
                 PROVE  Size(Append(pieces[i], Head(pieces[i + 1]))) > MaxChars
      BY <1>5, <2>4
    <3>1. pieces[i] = old[i] /\ Head(pieces[i + 1]) = Head(old[i + 1]) /\ i \in 1..(Len(old) - 1)
      <4>1. CASE i = k
        BY <1>5, <1>6, <2>4, <4>1
      <4>2. CASE i # k
        BY <1>5, <2>4, <4>2
      <4> QED BY <4>1, <4>2
    <3> QED BY <1>2, <3>1
  <2>8. new.current # <<>>
    BY <1>6, <2>1
  <2>9. FlattenSeq(pieces) = SubSeq(p, 1, n + 1)
    BY <1>2, <1>4, <2>3
  <2> QED BY <1>3, <2>6, <2>7, <2>8, <2>9 DEF WellCutUpto, pieces, new, s
<1> QED BY <1>8, <1>9

LEMMA FilledWellCut ==
  ASSUME NEW p \in Paragraphs, p # <<>>
  PROVE  WellCutUpto(Filled(p), p, Len(p))
<1>1. PICK f \in [0..Len(p) -> Accs] :
         /\ f[0] = Empty
         /\ \A n \in 1..Len(p) : f[n] = Add(f[n - 1], p[n])
         /\ Filled(p) = f[Len(p)]
  BY FilledDefined
<1> DEFINE N == Len(p)
           T == {n \in Nat : n + 1 <= N => WellCutUpto(f[n + 1], p, n + 1)}
<1>2. N \in Nat /\ N >= 1 /\ \A i \in 1..N : p[i] \in Nat
  BY DEF Paragraphs
<1>3. 0 \in T
  <2> DEFINE s == p[1]
             q == <<s>>
  <2>1. s \in Nat /\ q \in Seq(Nat) /\ q # <<>> /\ Len(q) = 1
    BY <1>2
  <2>2. f[1] = [done |-> <<>>, current |-> q]
    BY <1>1, <1>2 DEF Add, Empty
  <2>3. SubSeq(p, 1, 1) = q
    BY <1>2 DEF Paragraphs
  <2>4. Append(<<>>, q) = <<q>> /\ Len(<<q>>) = 1 /\ DOMAIN <<q>> = {1} /\ <<q>>[1] = q
    OBVIOUS
  <2>5. FlattenSeq(<<q>>) = q
    BY <2>1, FlattenOne
  <2>6. f[1] \in Accs /\ f[1].done = <<>> /\ f[1].current = q
    BY <1>1, <1>2, <2>2
  <2> HIDE DEF q, s
  <2>7. WellCutUpto(f[1], p, 1)
    BY <2>1, <2>3, <2>4, <2>5, <2>6 DEF WellCutUpto
  <2> QED BY <2>7
<1>4. \A n \in Nat : n \in T => n + 1 \in T
  <2> SUFFICES ASSUME NEW n \in Nat, n \in T, n + 2 <= N PROVE WellCutUpto(f[n + 2], p, n + 2)
    OBVIOUS
  <2> DEFINE m == n + 1
  <2>1. m \in Nat /\ m + 1 = n + 2 /\ m + 1 \in 1..N /\ (m + 1) - 1 = m /\ m <= N
    BY <1>2
  <2>2. WellCutUpto(f[m], p, m)
    BY <2>1
  <2>3. f[m + 1] = Add(f[m], p[m + 1])
    BY <1>1, <2>1
  <2> HIDE DEF m
  <2>4. WellCutUpto(Add(f[m], p[m + 1]), p, m + 1)
    BY <2>1, <2>2, CutStep
  <2>5. WellCutUpto(f[m + 1], p, m + 1)
    BY <2>3, <2>4
  <2> QED BY <2>1, <2>5
<1>5. N - 1 \in Nat /\ (N - 1) + 1 = N
  BY <1>2
<1>6. N - 1 \in T
  <2> HIDE DEF T
  <2> QED BY <1>3, <1>4, <1>5, SetInduction
<1>7. WellCutUpto(f[N], p, N)
  BY <1>2, <1>5, <1>6
<1> QED BY <1>1, <1>7

\* Every paragraph is cut well, whatever its sentences are.
LEMMA PiecesWellCut ==
  ASSUME NEW p \in Paragraphs, p # <<>>
  PROVE  Pieces(p) \in Seq(Paragraphs) /\ WellCut(p)
<1>1. Size(p) \in Int
  BY SizeType
<1>2. CASE Size(p) <= MaxChars
  <2>1. Pieces(p) = <<p>>
    BY <1>2 DEF Pieces
  <2>2. FlattenSeq(<<p>>) = p
    BY FlattenOne DEF Paragraphs
  <2>3. <<p>> \in Seq(Paragraphs) /\ Len(<<p>>) = 1 /\ <<p>>[1] = p /\ DOMAIN <<p>> = {1}
    OBVIOUS
  <2> QED BY <1>2, <2>1, <2>2, <2>3 DEF WellCut
<1>3. CASE ~(Size(p) <= MaxChars)
  <2> DEFINE acc == Filled(p)
             pieces == Append(acc.done, acc.current)
  <2>1. WellCutUpto(acc, p, Len(p))
    BY FilledWellCut
  <2>2. Pieces(p) = pieces
    BY <1>3 DEF Pieces
  <2>3. SubSeq(p, 1, Len(p)) = p
    BY DEF Paragraphs
  <2>4. pieces \in Seq(Paragraphs)
    <3>1. acc.done \in Seq(Paragraphs) /\ acc.current \in Paragraphs
      BY <2>1 DEF WellCutUpto, Accs
    <3> QED BY <3>1
  <2>5. /\ FlattenSeq(pieces) = p
        /\ \A i \in DOMAIN pieces : Size(pieces[i]) <= MaxChars \/ Len(pieces[i]) = 1
        /\ \A i \in 1..(Len(pieces) - 1) : Size(Append(pieces[i], Head(pieces[i + 1]))) > MaxChars
    BY <2>1, <2>3 DEF WellCutUpto
  <2> HIDE DEF pieces
  <2> QED BY <2>2, <2>4, <2>5 DEF WellCut
<1> QED BY <1>1, <1>2, <1>3, ChunkAssumption

Paras == Paragraphs \ {<<>>}

\* The passages of a text of any length: the sentences are all there, in their
\* order, but for pieces shorter than MinChars (chunk.py:28-83).
THEOREM TextsAreCutFaithfully ==
  ASSUME NEW text \in Seq(Paras)
  PROVE  chunk_prose(text) \in Seq(Seq(Paragraphs)) /\ ChunksFaithfully(text)
<1> DEFINE cuts == [i \in DOMAIN text |-> Pieces(text[i])]
           pieces == FlattenSeq(cuts)
           long == {i \in DOMAIN pieces : Size(pieces[i]) >= MinChars}
           kept == At(pieces, long)
           passages == chunk_prose(text)
<1>1. \A i \in DOMAIN text : text[i] \in Paragraphs /\ Pieces(text[i]) \in Seq(Paragraphs) /\ WellCut(text[i])
  BY PiecesWellCut DEF Paras
<1>2. cuts \in Seq(Seq(Paragraphs)) /\ DOMAIN cuts = DOMAIN text
  <2> DEFINE X == Seq(Paragraphs)
  <2>1. \A i \in DOMAIN text : Pieces(text[i]) \in X
    BY <1>1
  <2> HIDE DEF X
  <2>2. cuts \in Seq(X) /\ DOMAIN cuts = DOMAIN text
    BY <2>1
  <2> QED BY <2>2 DEF X
<1>3. \A i \in DOMAIN text : cuts[i] = Pieces(text[i])
  OBVIOUS
<1>4. passages = IF text # <<>> /\ kept = <<>> THEN <<text>> ELSE [i \in DOMAIN kept |-> <<kept[i]>>]
  BY DEF chunk_prose, Those
<1> HIDE DEF cuts
<1>5. pieces \in Seq(Paragraphs) /\ ToSet(pieces) = UNION {ToSet(cuts[i]) : i \in DOMAIN cuts}
  BY <1>2, FlattenType, FlattenElements
<1> HIDE DEF pieces
<1>6. /\ Cardinality(long) \in Nat
      /\ kept \in Seq(Paragraphs)
      /\ Len(kept) = Cardinality(long)
      /\ InOrder(long) \in [1..Cardinality(long) -> long]
      /\ \A n \in 1..Cardinality(long) : kept[n] = pieces[InOrder(long)[n]]
      /\ \A i \in long : \E n \in 1..Cardinality(long) : InOrder(long)[n] = i
  <2>1. long \in SUBSET DOMAIN pieces
    OBVIOUS
  <2> HIDE DEF long
  <2> QED BY <1>5, <2>1, AtProperties
<1>7. ToSet(kept) = {q \in ToSet(pieces) : Size(q) >= MinChars}
  <2>1. \A n \in DOMAIN kept : kept[n] \in ToSet(pieces) /\ Size(kept[n]) >= MinChars
    <3> SUFFICES ASSUME NEW n \in 1..Cardinality(long)
                 PROVE  kept[n] \in ToSet(pieces) /\ Size(kept[n]) >= MinChars
      BY <1>6
    <3>1. InOrder(long)[n] \in long /\ kept[n] = pieces[InOrder(long)[n]]
      BY <1>6
    <3> QED BY <3>1 DEF ToSet
  <2>2. \A i \in DOMAIN pieces : Size(pieces[i]) >= MinChars => pieces[i] \in ToSet(kept)
    <3> SUFFICES ASSUME NEW i \in long PROVE pieces[i] \in ToSet(kept)
      OBVIOUS
    <3>1. PICK n \in 1..Cardinality(long) : InOrder(long)[n] = i
      BY <1>6
    <3>2. n \in DOMAIN kept /\ kept[n] = pieces[i]
      BY <1>6, <3>1
    <3> QED BY <3>2 DEF ToSet
  <2> HIDE DEF kept, long
  <2> QED BY <2>1, <2>2 DEF ToSet
<1> HIDE DEF kept, passages
<1>8. kept = <<>> <=> ToSet(kept) = {}
  <2>1. kept = <<>> <=> DOMAIN kept = {}
    BY <1>6
  <2> QED BY <2>1 DEF ToSet
<1>9. CASE text # <<>> /\ kept = <<>>
  <2>1. passages = <<text>>
    BY <1>4, <1>9
  <2>2. \A i \in DOMAIN text : \A k \in DOMAIN Pieces(text[i]) : Size(Pieces(text[i])[k]) < MinChars
    <3> SUFFICES ASSUME NEW i \in DOMAIN text, NEW k \in DOMAIN Pieces(text[i])
                 PROVE  Size(Pieces(text[i])[k]) < MinChars
      OBVIOUS
    <3> DEFINE q == Pieces(text[i])[k]
    <3>1. q \in Paragraphs
      BY <1>1
    <3>2. Size(q) \in Int
      BY <3>1, SizeType
    <3>3. q \in ToSet(pieces)
      <4>1. i \in DOMAIN cuts /\ q \in ToSet(cuts[i])
        BY <1>2, <1>3 DEF ToSet
      <4> HIDE DEF q
      <4> QED BY <1>5, <4>1
    <3>4. ~(Size(q) >= MinChars)
      BY <1>7, <1>8, <1>9, <3>3
    <3> HIDE DEF q
    <3> QED BY <3>2, <3>4, ChunkAssumption DEF q
  <2>3. <<text>> # <<>> /\ <<text>> \in Seq(Seq(Paragraphs))
    <3>1. text \in Seq(Paragraphs)
      BY DEF Paras
    <3> QED BY <3>1
  <2> QED BY <1>1, <2>1, <2>2, <2>3 DEF ChunksFaithfully, passages
<1>10. CASE ~(text # <<>> /\ kept = <<>>)
  <2>1. passages = [i \in DOMAIN kept |-> <<kept[i]>>]
    BY <1>4, <1>10
  <2>2. ToSet(passages) = {<<q>> : q \in ToSet(kept)}
    BY <2>1 DEF ToSet
  <2>3. \A i \in DOMAIN text : \A k \in DOMAIN Pieces(text[i]) :
          <<Pieces(text[i])[k]>> \in ToSet(passages) \/ Size(Pieces(text[i])[k]) < MinChars
    <3> SUFFICES ASSUME NEW i \in DOMAIN text, NEW k \in DOMAIN Pieces(text[i]),
                        ~(Size(Pieces(text[i])[k]) < MinChars)
                 PROVE  <<Pieces(text[i])[k]>> \in ToSet(passages)
      OBVIOUS
    <3> DEFINE q == Pieces(text[i])[k]
    <3>1. q \in Paragraphs
      BY <1>1
    <3>2. Size(q) \in Int
      BY <3>1, SizeType
    <3>3. q \in ToSet(pieces)
      <4>1. i \in DOMAIN cuts /\ q \in ToSet(cuts[i])
        BY <1>2, <1>3 DEF ToSet
      <4> HIDE DEF q
      <4> QED BY <1>5, <4>1
    <3>4. Size(q) >= MinChars
      <4> HIDE DEF q
      <4> QED BY <3>2, ChunkAssumption DEF q
    <3> QED BY <1>7, <2>2, <3>3, <3>4
  <2>4. text # <<>> => passages # <<>>
    <3> SUFFICES ASSUME text # <<>> PROVE DOMAIN passages # {}
      OBVIOUS
    <3>1. DOMAIN kept # {}
      BY <1>6, <1>10
    <3> QED BY <2>1, <3>1
  <2>5. \A r \in ToSet(passages) : Len(r) = 1 /\ Size(r[1]) >= MinChars
    BY <1>7, <2>2
  <2>6. passages \in Seq(Seq(Paragraphs))
    <3>1. \A i \in DOMAIN kept : <<kept[i]>> \in Seq(Paragraphs)
      BY <1>6
    <3> DEFINE X == Seq(Paragraphs)
    <3> HIDE DEF X
    <3>2. passages \in [1..Len(kept) -> X] /\ Len(kept) \in Nat
      BY <1>6, <2>1, <3>1 DEF X
    <3>3. passages \in Seq(X)
      BY <3>2
    <3> QED BY <3>3 DEF X
  <2> QED BY <1>1, <2>3, <2>4, <2>5, <2>6 DEF ChunksFaithfully, passages
<1> QED BY <1>9, <1>10
=============================================================================
