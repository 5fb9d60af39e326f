---------------------------- MODULE LibraryProofs ----------------------------
(***************************************************************************)
(* Facts about the operators that several parts of the program are built   *)
(* from.  The first lemmas stand for induction: of the numbers with a      *)
(* property there is a least one, so one that passes from each number to   *)
(* the next has them all, and a recursion has a value.  Then, what a       *)
(* selection of the places of a list is: a list of the elements at those   *)
(* places and of nothing else, in their order; what a sum over a finite    *)
(* set is; and what the three ways of counting days agree on.              *)
(***************************************************************************)
EXTENDS Selection, Calendar, FiniteSetTheorems, WellFoundedInduction, TLAPS

(* Every set of natural numbers that is not empty has a least element.     *)
LEMMA LeastNatural ==
  ASSUME NEW S \in SUBSET Nat, S # {}
  PROVE  \E m \in S : \A n \in S : m <= n
<1> DEFINE R == OpToRel(<, Nat)
<1>1. R = {ss \in Nat \X Nat : ss[1] < ss[2]}
  BY Zenon DEF OpToRel
<1>2. PICK x \in S : \A y \in S : ~ (<<y, x>> \in R)
  <2>1. IsWellFoundedOn(R, Nat)
    BY NatLessThanWellFounded
  <2> HIDE DEF R
  <2>2. QED
    BY <2>1, WFMin
<1> HIDE DEF R
<1>3. ASSUME NEW n \in S, n < x PROVE FALSE
  <2>1. <<n, x>> \in Nat \X Nat /\ <<n, x>>[1] < <<n, x>>[2]
    BY <1>3
  <2>2. <<n, x>> \in {ss \in Nat \X Nat : ss[1] < ss[2]}
    BY <2>1
  <2>3. QED
    BY <1>1, <1>2, <2>2
<1>4. \A n \in S : n \in Nat /\ x \in Nat /\ ~(n < x)
  BY <1>3
<1>5. QED
  BY <1>4

(* What holds of 0, and of a number when it holds of the one before.       *)
LEMMA CountUp ==
  ASSUME NEW n \in Nat, NEW Good, 0 \in Good, \A i \in 1..n : i - 1 \in Good => i \in Good
  PROVE  \A i \in 0..n : i \in Good
<1> DEFINE Bad == {i \in 0..n : i \notin Good}
<1> SUFFICES ASSUME Bad # {} PROVE FALSE
  OBVIOUS
<1>1. PICK m \in Bad : \A k \in Bad : m <= k
  <2>1. Bad \in SUBSET Nat
    OBVIOUS
  <2> HIDE DEF Bad
  <2>2. QED
    BY <2>1, LeastNatural
<1>2. m \in 1..n /\ m - 1 \in 0..n /\ ~(m <= m - 1) /\ m \notin Good
  OBVIOUS
<1>3. m - 1 \in Good
  BY <1>1, <1>2
<1>4. QED
  BY <1>2, <1>3

(* A value for every number, each made from the one before.                *)
IsChain(n, V, zero, step, f) ==
    f \in [0..n -> V] /\ f[0] = zero /\ \A i \in 1..n : f[i] = step[i][f[i - 1]]

LEMMA ChainExists ==
  ASSUME NEW n \in Nat, NEW V, NEW zero \in V, NEW step,
         \A i \in 1..n : \A v \in V : step[i][v] \in V
  PROVE  \E f : IsChain(n, V, zero, step, f)
<1> DEFINE Good == {m \in 0..n : \E f : IsChain(m, V, zero, step, f)}
<1>1. 0 \in Good
  <2>1. IsChain(0, V, zero, step, [i \in 0..0 |-> zero])
    BY DEF IsChain
  <2>2. QED
    BY <2>1
<1>2. ASSUME NEW m \in 1..n, m - 1 \in Good PROVE m \in Good
  <2>1. PICK f : IsChain(m - 1, V, zero, step, f)
    BY <1>2
  <2> DEFINE h == [i \in 0..m |-> IF i = m THEN step[m][f[m - 1]] ELSE f[i]]
  <2>2. f \in [0..m - 1 -> V] /\ f[0] = zero /\ \A i \in 1..m - 1 : f[i] = step[i][f[i - 1]]
    BY <2>1 DEF IsChain
  <2>3. m - 1 \in 0..m - 1 /\ m \in Nat
    OBVIOUS
  <2>4. h \in [0..m -> V]
    BY <2>2, <2>3
  <2>5. h[0] = zero
    BY <2>2, <2>3
  <2>6. \A i \in 1..m : h[i] = step[i][h[i - 1]]
    BY <2>2, <2>3
  <2>7. IsChain(m, V, zero, step, h)
    BY <2>4, <2>5, <2>6 DEF IsChain
  <2>8. QED
    BY <2>7
<1>3. n \in Good
  <2>1. n \in 0..n
    OBVIOUS
  <2> HIDE DEF Good
  <2>2. QED
    BY <1>1, <1>2, <2>1, CountUp
<1>4. QED
  BY <1>3

(* The places up to i are one more than those up to i - 1, if i is one.    *)
LEMMA CountStep ==
  ASSUME NEW L \in Nat, NEW K \in SUBSET (1..L), NEW i \in 1..L
  PROVE  /\ Cardinality(K \cap 1..i) \in Nat /\ Cardinality(K \cap 1..(i - 1)) \in Nat
         /\ i \in K => Cardinality(K \cap 1..i) = Cardinality(K \cap 1..(i - 1)) + 1
         /\ i \notin K => Cardinality(K \cap 1..i) = Cardinality(K \cap 1..(i - 1))
<1>1. IsFiniteSet(1..(i - 1)) /\ IsFiniteSet(1..i)
  <2>1. 1 \in Int /\ i \in Int /\ i - 1 \in Int
    OBVIOUS
  <2>2. QED
    BY <2>1, FS_Interval
<1>2. IsFiniteSet(K \cap 1..(i - 1)) /\ IsFiniteSet(K \cap 1..i)
  BY <1>1, FS_Intersection
<1>3. i \notin K \cap 1..(i - 1)
  OBVIOUS
<1>4. ASSUME i \in K PROVE K \cap 1..i = (K \cap 1..(i - 1)) \cup {i}
  BY <1>4
<1>5. ASSUME i \notin K PROVE K \cap 1..i = K \cap 1..(i - 1)
  BY <1>5
<1>6. Cardinality(K \cap 1..i) \in Nat /\ Cardinality(K \cap 1..(i - 1)) \in Nat
  BY <1>2, FS_CardinalityType
<1>7. Cardinality((K \cap 1..(i - 1)) \cup {i}) = Cardinality(K \cap 1..(i - 1)) + 1
  BY <1>2, <1>3, FS_AddElement
<1>8. QED
  BY <1>4, <1>5, <1>6, <1>7

(* Nth is what its name says.                                              *)
LEMMA NthExists ==
  ASSUME NEW L \in Nat, NEW K \in SUBSET (1..L), NEW n \in 1..Cardinality(K)
  PROVE  Nth(K, n) \in K /\ Cardinality(K \cap 1..Nth(K, n)) = n
<1> DEFINE Up(i) == Cardinality(K \cap 1..i)
           S == {i \in 0..L : Up(i) >= n}
<1>1. K \cap 1..L = K /\ K \cap 1..0 = {}
  <2>1. 1..0 = {} /\ K \subseteq 1..L
    OBVIOUS
  <2>2. QED
    BY <2>1
<1>2. IsFiniteSet(K) /\ Cardinality(K) \in Nat
  <2>1. IsFiniteSet(1..L)
    BY FS_Interval
  <2>2. QED
    BY <2>1, FS_Subset, FS_CardinalityType
<1>3. Up(0) = 0
  BY <1>1, FS_EmptySet
<1>4. S # {} /\ S \in SUBSET Nat
  <2>1. Up(L) >= n
    BY <1>1, <1>2
  <2> HIDE DEF Up
  <2>2. L \in S
    BY <2>1
  <2>3. QED
    BY <2>2
<1>5. PICK m \in S : \A j \in S : m <= j
  <2> HIDE DEF S
  <2>1. QED
    BY <1>4, LeastNatural
<1>6. m \in 0..L /\ Up(m) >= n
  OBVIOUS
<1>7. m \in 1..L /\ ~(Up(m - 1) >= n)
  <2> HIDE DEF Up
  <2>1. m # 0
    BY <1>3, <1>6
  <2>2. m - 1 \in 0..L /\ ~(m <= m - 1)
    BY <1>6, <2>1
  <2>3. QED
    BY <1>5, <1>6, <2>1, <2>2
<1>8. /\ Up(m) \in Nat /\ Up(m - 1) \in Nat
      /\ m \in K => Up(m) = Up(m - 1) + 1
      /\ m \notin K => Up(m) = Up(m - 1)
  BY <1>7, CountStep
<1>9. m \in K /\ Up(m) = n
  <2> HIDE DEF Up
  <2>1. n \in Nat
    BY <1>2
  <2>2. QED
    BY <1>6, <1>7, <1>8, <2>1
<1>10. QED
  BY <1>9 DEF Nth

LEMMA NthIsUnique ==
  ASSUME NEW L \in Nat, NEW K \in SUBSET (1..L), NEW i \in K, NEW j \in K,
         Cardinality(K \cap 1..i) = Cardinality(K \cap 1..j)
  PROVE  i = j
<1>1. ASSUME NEW a \in K, NEW b \in K, a < b, Cardinality(K \cap 1..a) = Cardinality(K \cap 1..b)
      PROVE  FALSE
  <2>1. IsFiniteSet(K \cap 1..b)
    <3>1. IsFiniteSet(1..b)
      BY FS_Interval
    <3>2. QED
      BY <3>1, FS_Intersection
  <2>2. K \cap 1..a \subseteq K \cap 1..b
    BY <1>1
  <2>3. K \cap 1..a = K \cap 1..b
    BY <1>1, <2>1, <2>2, FS_Subset
  <2>4. a \in Nat /\ b \in Nat /\ b \in 1..b /\ b \notin 1..a
    BY <1>1
  <2>5. QED
    BY <1>1, <2>3, <2>4
<1>2. i \in Nat /\ j \in Nat
  OBVIOUS
<1>3. QED
  BY <1>1, <1>2

(* Selecting takes the elements at the places, and nothing else.           *)
LEMMA SelectKeeps ==
  ASSUME NEW E, NEW s \in Seq(E), NEW places \in SUBSET DOMAIN s
  PROVE  /\ Select(s, places) \in Seq(E)
         /\ Len(Select(s, places)) = Cardinality(places)
         /\ Cardinality(places) \in 0..Len(s)
         /\ \A n \in DOMAIN Select(s, places) :
              Nth(places, n) \in places /\ Select(s, places)[n] = s[Nth(places, n)]
         /\ \A i \in places : \E n \in DOMAIN Select(s, places) : Nth(places, n) = i
         /\ \A m, n \in DOMAIN Select(s, places) : m < n => Nth(places, m) < Nth(places, n)
<1> DEFINE L == Len(s)
           N == Cardinality(places)
           r == Select(s, places)
<1>1. /\ L \in Nat /\ places \in SUBSET (1..L) /\ DOMAIN s = 1..L
      /\ \A i \in 1..L : s[i] \in E
  OBVIOUS
<1> HIDE DEF L
<1>2. IsFiniteSet(places) /\ N \in 0..L
  <2> DEFINE T == 1..L
  <2>1. IsFiniteSet(T) /\ Cardinality(T) = L
    <3>1. 1 \in Int /\ L \in Int
      BY <1>1
    <3>2. IsFiniteSet(1..L) /\ Cardinality(1..L) = IF 1 > L THEN 0 ELSE L - 1 + 1
      BY <3>1, FS_Interval
    <3>3. QED
      BY <1>1, <3>2
  <2>2. places \in SUBSET T
    BY <1>1
  <2> HIDE DEF T
  <2>3. IsFiniteSet(places) /\ Cardinality(places) <= Cardinality(T)
    BY <2>1, <2>2, FS_Subset
  <2>4. Cardinality(places) \in Nat
    BY <2>3, FS_CardinalityType
  <2>5. QED
    BY <1>1, <2>1, <2>3, <2>4
<1>3. r = [n \in 1..N |-> s[Nth(places, n)]]
  BY DEF Select
<1> HIDE DEF r
<1>4. \A n \in 1..N : Nth(places, n) \in places /\ Cardinality(places \cap 1..Nth(places, n)) = n
  BY <1>1, NthExists
<1>5. r \in Seq(E) /\ Len(r) = N /\ DOMAIN r = 1..N
  <2>1. \A n \in 1..N : s[Nth(places, n)] \in E
    BY <1>1, <1>4
  <2>2. N \in Nat
    BY <1>1, <1>2
  <2> HIDE DEF N
  <2>3. r \in [1..N -> E]
    BY <1>3, <2>1
  <2>4. QED
    BY <2>2, <2>3
<1>6. \A n \in 1..N : r[n] = s[Nth(places, n)]
  BY <1>3
<1>7. ASSUME NEW i \in places PROVE \E n \in 1..N : Nth(places, n) = i
  <2> DEFINE n == Cardinality(places \cap 1..i)
  <2>1. n \in 1..N
    <3>1. i \in places \cap 1..i
      BY <1>1
    <3>2. IsFiniteSet(places \cap 1..i) /\ n <= N
      BY <1>2, FS_Intersection
    <3>3. n \in Nat /\ n # 0
      BY <3>1, <3>2, FS_CardinalityType, FS_EmptySet
    <3>4. QED
      BY <1>1, <1>2, <3>2, <3>3
  <2>2. Nth(places, n) \in places /\ Cardinality(places \cap 1..Nth(places, n)) = n
    BY <1>4, <2>1
  <2>3. Nth(places, n) = i
    BY <1>1, <2>2, NthIsUnique
  <2>4. QED
    BY <2>1, <2>3
<1>8. ASSUME NEW m \in 1..N, NEW n \in 1..N, m < n PROVE Nth(places, m) < Nth(places, n)
  <2> DEFINE a == Nth(places, m)
             b == Nth(places, n)
  <2>1. a \in places /\ b \in places /\ Cardinality(places \cap 1..a) = m
        /\ Cardinality(places \cap 1..b) = n
    BY <1>4
  <2> HIDE DEF a, b
  <2>2. a \in Nat /\ b \in Nat /\ m \in Nat /\ n \in Nat
    BY <1>1, <1>2, <2>1
  <2>3. ASSUME b <= a PROVE FALSE
    <3>1. places \cap 1..b \subseteq places \cap 1..a
      BY <2>2, <2>3
    <3>2. IsFiniteSet(places \cap 1..a)
      BY <1>2, FS_Intersection
    <3>3. Cardinality(places \cap 1..b) <= Cardinality(places \cap 1..a)
      BY <3>1, <3>2, FS_Subset
    <3>4. QED
      BY <1>8, <2>1, <2>2, <3>3
  <2>4. QED
    BY <2>2, <2>3 DEF a, b
<1>9. QED
  BY <1>2, <1>4, <1>5, <1>6, <1>7, <1>8 DEF r, L

(* Selecting every place changes nothing.                                  *)
LEMMA SelectAll ==
  ASSUME NEW E, NEW s \in Seq(E) PROVE Select(s, DOMAIN s) = s
<1> DEFINE L == Len(s)
           D == 1..L
<1>1. L \in Nat /\ DOMAIN s = D
  OBVIOUS
<1> HIDE DEF L
<1>2. ASSUME NEW n \in 0..L PROVE Cardinality(1..n) = n
  <2>1. 1 \in Int /\ n \in Int
    BY <1>1
  <2>2. Cardinality(1..n) = IF 1 > n THEN 0 ELSE n - 1 + 1
    BY <2>1, FS_Interval
  <2>3. QED
    BY <1>1, <2>2
<1>3. ASSUME NEW n \in 1..L PROVE Nth(D, n) = n
  <2>1. n \in 1..Cardinality(D) /\ D \in SUBSET (1..L)
    BY <1>1, <1>2
  <2>2. Nth(D, n) \in D /\ Cardinality(D \cap 1..Nth(D, n)) = n
    <3> HIDE DEF D
    <3>1. QED
      BY <1>1, <2>1, NthExists
  <2>3. \A m \in D : D \cap 1..m = 1..m /\ m \in 0..L
    BY <1>1
  <2>4. QED
    BY <1>2, <2>2, <2>3
<1>4. Cardinality(D) = L
  BY <1>1, <1>2
<1>5. Select(s, D) = [n \in 1..L |-> s[n]]
  BY <1>3, <1>4 DEF Select
<1>6. QED
  BY <1>1, <1>5 DEF L

-----------------------------------------------------------------------------
(* Sums.  SumFunction takes the elements of the domain away one by one, in *)
(* some order; what it computes does not depend on it.                     *)

One(s)  == CHOOSE x \in s : TRUE
Rest(s) == s \ {One(s)}
(* The sums over the subsets of the domain, by recursion.                  *)
IsSums(f, D, g) == g = [s \in D |-> IF s = {} THEN 0 ELSE f[One(s)] + g[Rest(s)]]
Sums(f) == CHOOSE g : IsSums(f, SUBSET DOMAIN f, g)

LEMMA SumIsRecursive ==
  ASSUME NEW f PROVE SumFunction(f) = Sums(f)[DOMAIN f]
BY DEF SumFunction, SumFunctionOnSet, FoldFunctionOnSet, MapThenFoldSet, Sums, IsSums, One, Rest

(* Taking one away.                                                        *)
LEMMA OneLess ==
  ASSUME NEW S, IsFiniteSet(S), NEW s \in SUBSET S
  PROVE  /\ IsFiniteSet(s) /\ Cardinality(s) \in 0..Cardinality(S)
         /\ s # {} => One(s) \in s
         /\ \A x \in s : s \ {x} \in SUBSET S /\ Cardinality(s \ {x}) = Cardinality(s) - 1
<1>1. IsFiniteSet(s) /\ Cardinality(s) <= Cardinality(S)
  BY FS_Subset
<1>2. Cardinality(s) \in Nat /\ Cardinality(S) \in Nat
  BY <1>1, FS_CardinalityType
<1>3. \A x \in s : Cardinality(s \ {x}) = Cardinality(s) - 1
  BY <1>1, FS_RemoveElement
<1>4. QED
  BY <1>1, <1>2, <1>3 DEF One

(* What holds of every subset that is no larger than those it holds of,    *)
(* holds of all: no smallest one is left.                                  *)
Inherited(S, Good) ==
    \A s \in SUBSET S :
       (\A t \in SUBSET S : Cardinality(t) < Cardinality(s) => t \in Good) => s \in Good

LEMMA SubsetsBySize ==
  ASSUME NEW S, IsFiniteSet(S), NEW Good, Inherited(S, Good)
  PROVE  \A s \in SUBSET S : s \in Good
<1> DEFINE Bad == {n \in 0..Cardinality(S) : \E s \in SUBSET S : Cardinality(s) = n /\ s \notin Good}
<1>1. Bad = {}
  <2> SUFFICES ASSUME Bad # {} PROVE FALSE
    OBVIOUS
  <2>1. PICK m \in Bad : \A k \in Bad : m <= k
    <3>1. Bad \in SUBSET Nat
      OBVIOUS
    <3> HIDE DEF Bad
    <3>2. QED
      BY <3>1, LeastNatural
  <2>2. PICK s \in SUBSET S : Cardinality(s) = m /\ s \notin Good
    OBVIOUS
  <2>3. ASSUME NEW t \in SUBSET S, Cardinality(t) < Cardinality(s) PROVE t \in Good
    <3>1. Cardinality(t) \in 0..Cardinality(S) /\ m \in Nat
      BY OneLess
    <3>2. Cardinality(t) \notin Bad
      <4> HIDE DEF Bad
      <4>1. QED
        BY <2>1, <2>2, <2>3, <3>1
    <3>3. QED
      BY <3>1, <3>2
  <2>4. QED
    BY <2>2, <2>3 DEF Inherited
<1>2. \A s \in SUBSET S : Cardinality(s) \in 0..Cardinality(S)
  BY OneLess
<1>3. QED
  BY <1>1, <1>2

(* There are such sums, built up from the sets with one element.           *)
LEMMA SumsExist ==
  ASSUME NEW f, IsFiniteSet(DOMAIN f)
  PROVE  IsSums(f, SUBSET DOMAIN f, Sums(f))
<1> DEFINE S == DOMAIN f
           Small(n) == {s \in SUBSET S : Cardinality(s) <= n}
           Bad == {n \in 0..Cardinality(S) : ~\E g : IsSums(f, Small(n), g)}
<1>1. Cardinality(S) \in Nat
  BY FS_CardinalityType
<1>2. ASSUME NEW n \in 0..Cardinality(S), \A k \in 0..Cardinality(S) : k < n => k \notin Bad
      PROVE  \E g : IsSums(f, Small(n), g)
  <2>1. CASE n = 0
    <3>1. \A s \in Small(0) : s = {}
      <4>1. ASSUME NEW s \in Small(0) PROVE s = {}
        <5>1. IsFiniteSet(s) /\ Cardinality(s) \in Nat /\ Cardinality(s) <= 0
          BY OneLess
        <5>2. Cardinality(s) = 0
          BY <5>1
        <5>3. QED
          BY <5>1, <5>2, FS_EmptySet
      <4>2. QED
        BY <4>1
    <3> HIDE DEF Small
    <3>2. IsSums(f, Small(0), [s \in Small(0) |-> 0])
      BY <3>1 DEF IsSums
    <3>3. QED
      BY <2>1, <3>2
  <2>2. CASE n # 0
    <3>1. n - 1 \in 0..Cardinality(S) /\ n - 1 < n
      BY <1>1, <2>2
    <3>2. PICK g : IsSums(f, Small(n - 1), g)
      BY <1>2, <3>1
    <3> DEFINE h == [s \in Small(n) |-> IF s = {} THEN 0 ELSE f[One(s)] + g[Rest(s)]]
    <3>3. ASSUME NEW s \in Small(n), s # {} PROVE Rest(s) \in Small(n - 1) /\ Rest(s) \in Small(n)
      <4>1. /\ Cardinality(s) \in Nat /\ Cardinality(s) <= n /\ n \in Nat
            /\ Rest(s) \in SUBSET S /\ Cardinality(Rest(s)) = Cardinality(s) - 1
        BY <1>1, <3>3, OneLess DEF Rest
      <4>2. QED
        BY <4>1
    <3>4. ASSUME NEW s \in Small(n - 1), s \in Small(n) PROVE h[s] = g[s]
      BY <3>2, <3>4 DEF IsSums
    <3>5. IsSums(f, Small(n), h)
      <4>1. h = [s \in Small(n) |-> IF s = {} THEN 0 ELSE f[One(s)] + h[Rest(s)]]
        <5>1. \A s \in Small(n) : s # {} => h[Rest(s)] = g[Rest(s)]
          BY <3>3, <3>4
        <5>2. h = [s \in Small(n) |-> IF s = {} THEN 0 ELSE f[One(s)] + g[Rest(s)]]
          OBVIOUS
        <5> HIDE DEF h, Small
        <5>3. QED
          BY <5>1, <5>2
      <4>2. QED
        BY <4>1 DEF IsSums
    <3>6. QED
      BY <3>5
  <2>3. QED
    BY <2>1, <2>2
<1>3. Bad = {}
  <2> SUFFICES ASSUME Bad # {} PROVE FALSE
    OBVIOUS
  <2>1. Bad \in SUBSET Nat
    BY <1>1
  <2>2. PICK m \in Bad : \A k \in Bad : m <= k
    <3> HIDE DEF Bad
    <3>1. QED
      BY <2>1, LeastNatural
  <2> HIDE DEF Small
  <2>3. m \in 0..Cardinality(S)
    OBVIOUS
  <2> HIDE DEF Bad
  <2>4. \A k \in 0..Cardinality(S) : k < m => k \notin Bad
    BY <1>1, <2>2, <2>3
  <2>5. \E g : IsSums(f, Small(m), g)
    BY <1>2, <2>4 DEF Bad
  <2>6. QED
    BY <2>5 DEF Bad
<1>4. \E g : IsSums(f, Small(Cardinality(S)), g)
  <2> HIDE DEF Small
  <2>1. Cardinality(S) \in 0..Cardinality(S)
    BY <1>1
  <2>2. QED
    BY <1>3, <2>1
<1>5. Small(Cardinality(S)) = SUBSET S
  BY <1>1, OneLess
<1>6. QED
  BY <1>4, <1>5 DEF Sums

(* The sum of a set is any of its elements and the sum of the others.      *)
LEMMA SumsStep ==
  ASSUME NEW S, IsFiniteSet(S), NEW f \in [S -> Nat]
  PROVE  /\ Sums(f)[{}] = 0
         /\ \A s \in SUBSET S : /\ Sums(f)[s] \in Nat
                                /\ \A x \in s : Sums(f)[s] = f[x] + Sums(f)[s \ {x}]
<1> DEFINE I == Sums(f)
           Right(s) == I[s] \in Nat /\ \A x \in s : I[s] = f[x] + I[s \ {x}]
           Good == {s \in SUBSET S : Right(s)}
<1>1. I = [s \in SUBSET S |-> IF s = {} THEN 0 ELSE f[One(s)] + I[Rest(s)]]
  BY SumsExist DEF IsSums
<1>2. \A s \in SUBSET S : I[s] = IF s = {} THEN 0 ELSE f[One(s)] + I[s \ {One(s)}]
  BY <1>1 DEF Rest
<1> HIDE DEF I
<1>3. ASSUME NEW s \in SUBSET S,
             \A t \in SUBSET S : Cardinality(t) < Cardinality(s) => Right(t)
      PROVE  Right(s)
  <2>1. CASE s = {}
    <3>1. I[s] = 0
      BY <1>2, <2>1
    <3>2. QED
      BY <2>1, <3>1
  <2>2. CASE s # {}
    <3> DEFINE y == One(s)
    <3>1. y \in s /\ y \in S /\ I[s] = f[y] + I[s \ {y}]
      BY <1>2, <2>2, OneLess
    <3> HIDE DEF y
    <3>2. \A x \in s : Right(s \ {x})
      <4>1. \A x \in s : /\ s \ {x} \in SUBSET S /\ Cardinality(s \ {x}) = Cardinality(s) - 1
                         /\ Cardinality(s) \in Nat
        BY OneLess
      <4>2. \A x \in s : Cardinality(s \ {x}) < Cardinality(s)
        BY <4>1
      <4> HIDE DEF Right
      <4>3. QED
        BY <1>3, <4>1, <4>2
    <3>3. f[y] \in Nat /\ I[s \ {y}] \in Nat
      BY <3>1, <3>2
    <3>4. ASSUME NEW x \in s, x # y PROVE I[s] = f[x] + I[s \ {x}]
      <4>1. I[s \ {y}] = f[x] + I[(s \ {y}) \ {x}]
        BY <3>1, <3>2, <3>4
      <4>2. I[s \ {x}] = f[y] + I[(s \ {x}) \ {y}]
        BY <3>1, <3>2, <3>4
      <4>3. I[(s \ {y}) \ {x}] = I[(s \ {x}) \ {y}]
        <5>1. (s \ {y}) \ {x} = (s \ {x}) \ {y}
          OBVIOUS
        <5>2. QED
          BY <5>1
      <4>4. I[(s \ {y}) \ {x}] \in Nat
        <5>1. Right(s \ {y}) /\ x \in s \ {y}
          BY <3>1, <3>2, <3>4
        <5>2. Cardinality((s \ {y}) \ {x}) < Cardinality(s) /\ (s \ {y}) \ {x} \in SUBSET S
          <6>1. /\ Cardinality(s \ {y}) = Cardinality(s) - 1 /\ Cardinality(s) \in Nat
                /\ s \ {y} \in SUBSET S
            BY <3>1, OneLess
          <6>2. Cardinality((s \ {y}) \ {x}) = Cardinality(s \ {y}) - 1
            <7>1. IsFiniteSet(s \ {y}) /\ x \in s \ {y}
              BY <3>4, OneLess
            <7>2. QED
              BY <7>1, FS_RemoveElement
          <6>3. QED
            BY <6>1, <6>2
        <5>3. QED
          BY <1>3, <5>2
      <4>5. f[x] \in Nat /\ f[y] \in Nat
        BY <3>1, <3>4
      <4>6. QED
        BY <3>1, <4>1, <4>2, <4>3, <4>4, <4>5
    <3>5. I[s] \in Nat
      BY <3>1, <3>3
    <3>6. QED
      BY <3>1, <3>4, <3>5
  <2>3. QED
    BY <2>1, <2>2
<1>4. \A s \in SUBSET S : s \in Good
  <2>1. \A s \in SUBSET S :
           (\A t \in SUBSET S : Cardinality(t) < Cardinality(s) => t \in Good) => s \in Good
    <3> HIDE DEF Right
    <3>1. QED
      BY <1>3
  <2> HIDE DEF Good
  <2>2. Inherited(S, Good)
    BY <2>1 DEF Inherited
  <2>3. QED
    BY <2>2, SubsetsBySize
<1>5. \A s \in SUBSET S : Right(s)
  BY <1>4
<1>6. QED
  BY <1>2, <1>5 DEF I

LEMMA SumOfNothing ==
  ASSUME NEW f, DOMAIN f = {} PROVE SumFunction(f) = 0
<1>1. IsFiniteSet({}) /\ f \in [{} -> Nat]
  <2>1. \E S : S = DOMAIN f
    OBVIOUS
  <2>2. f = [x \in DOMAIN f |-> f[x]]
    OBVIOUS
  <2>3. QED
    BY FS_EmptySet
<1>2. QED
  BY <1>1, SumsStep, SumIsRecursive

(* A sum of fewer and smaller numbers is smaller.                          *)
LEMMA SumAtMost ==
  ASSUME NEW T, IsFiniteSet(T), NEW S \in SUBSET T, NEW f \in [S -> Nat], NEW g \in [T -> Nat],
         \A x \in S : f[x] <= g[x]
  PROVE  /\ SumFunction(f) \in Nat /\ SumFunction(g) \in Nat
         /\ SumFunction(f) <= SumFunction(g)
<1> DEFINE F == Sums(f)
           G == Sums(g)
           Right(s) == F[s \cap S] <= G[s]
           Good == {s \in SUBSET T : Right(s)}
<1>1. IsFiniteSet(S)
  BY FS_Subset
<1>2. /\ F[{}] = 0
      /\ \A s \in SUBSET S : F[s] \in Nat /\ \A x \in s : F[s] = f[x] + F[s \ {x}]
  <2> HIDE DEF Right, Good, G
  <2>1. IsFiniteSet(S) /\ f \in [S -> Nat]
    BY <1>1
  <2>2. QED
    BY <2>1, SumsStep
<1>3. /\ G[{}] = 0
      /\ \A s \in SUBSET T : G[s] \in Nat /\ \A x \in s : G[s] = g[x] + G[s \ {x}]
  BY SumsStep
<1> HIDE DEF F, G
<1>4. ASSUME NEW s \in SUBSET T, \A t \in SUBSET T : Cardinality(t) < Cardinality(s) => Right(t)
      PROVE  Right(s)
  <2>1. CASE s = {}
    <3>1. s \cap S = {}
      BY <2>1
    <3>2. QED
      BY <1>2, <1>3, <2>1, <3>1
  <2>2. CASE s # {}
    <3>1. PICK x \in s : TRUE
      BY <2>2
    <3>2. s \ {x} \in SUBSET T /\ Cardinality(s \ {x}) < Cardinality(s)
      <4>1. Cardinality(s \ {x}) = Cardinality(s) - 1 /\ Cardinality(s) \in Nat
        BY OneLess
      <4>2. QED
        BY <4>1
    <3>3. F[(s \ {x}) \cap S] <= G[s \ {x}]
      BY <1>4, <3>2
    <3>4. G[s] = g[x] + G[s \ {x}] /\ g[x] \in Nat /\ G[s \ {x}] \in Nat
      BY <1>3, <3>2
    <3>5. F[(s \ {x}) \cap S] \in Nat
      BY <1>2
    <3>6. CASE x \in S
      <4>1. s \cap S \in SUBSET S /\ x \in s \cap S
        BY <3>6
      <4>2. (s \cap S) \ {x} = (s \ {x}) \cap S
        OBVIOUS
      <4>3. F[s \cap S] = f[x] + F[(s \ {x}) \cap S]
        BY <1>2, <4>1, <4>2
      <4>4. f[x] \in Nat /\ f[x] <= g[x]
        BY <3>6
      <4>5. QED
        BY <3>3, <3>4, <3>5, <4>3, <4>4
    <3>7. CASE x \notin S
      <4>1. s \cap S = (s \ {x}) \cap S
        BY <3>7
      <4>2. F[s \cap S] = F[(s \ {x}) \cap S]
        BY <4>1
      <4>3. QED
        BY <3>3, <3>4, <3>5, <4>2
    <3>8. QED
      BY <3>6, <3>7
  <2>3. QED
    BY <2>1, <2>2
<1>5. \A s \in SUBSET T : s \in Good
  <2>1. \A s \in SUBSET T :
           (\A t \in SUBSET T : Cardinality(t) < Cardinality(s) => t \in Good) => s \in Good
    <3> HIDE DEF Right
    <3>1. QED
      BY <1>4
  <2> HIDE DEF Good
  <2>2. Inherited(T, Good)
    BY <2>1 DEF Inherited
  <2>3. QED
    BY <2>2, SubsetsBySize
<1>6. Right(T)
  BY <1>5
<1>7. T \cap S = S
  OBVIOUS
<1>8. SumFunction(f) = F[S] /\ SumFunction(g) = G[T]
  BY SumIsRecursive DEF F, G
<1>9. QED
  BY <1>2, <1>3, <1>6, <1>7, <1>8

(* The parts of a set, counted one by one, are the set.                    *)
LEMMA SumOfParts ==
  ASSUME NEW C, IsFiniteSet(C), NEW kind,
         NEW M, M = {kind[i] : i \in C}, NEW f,
         f = [m \in M |-> Cardinality({i \in C : kind[i] = m})]
  PROVE  SumFunction(f) = Cardinality(C)
<1> DEFINE F == Sums(f)
           Of(s) == {i \in C : kind[i] \in s}
           Right(s) == F[s] = Cardinality(Of(s))
           Good == {s \in SUBSET M : Right(s)}
<1>1. IsFiniteSet(M)
  <2> DEFINE k == [i \in C |-> kind[i]]
  <2>1. k \in Surjection(C, M)
    BY DEF Surjection
  <2>2. QED
    BY <2>1, FS_Surjection
<1>2. ASSUME NEW s PROVE IsFiniteSet(Of(s)) /\ Cardinality(Of(s)) \in Nat
  <2>1. Of(s) \in SUBSET C
    OBVIOUS
  <2> HIDE DEF Of
  <2>2. QED
    BY <2>1, FS_Subset, FS_CardinalityType
<1>3. ASSUME NEW m \in M PROVE f[m] = Cardinality(Of({m})) /\ f[m] \in Nat
  <2>1. Of({m}) = {i \in C : kind[i] = m}
    OBVIOUS
  <2> HIDE DEF Of
  <2>2. QED
    BY <1>2, <2>1
<1>4. f \in [M -> Nat]
  BY <1>3
<1>5. /\ F[{}] = 0
      /\ \A s \in SUBSET M : \A x \in s : F[s] = f[x] + F[s \ {x}]
  <2>1. \A g \in [M -> Nat] :
          /\ Sums(g)[{}] = 0
          /\ \A s \in SUBSET M : Sums(g)[s] \in Nat
                                 /\ \A x \in s : Sums(g)[s] = g[x] + Sums(g)[s \ {x}]
    <3> HIDE DEF F, Of, Right, Good
    <3>1. QED
      BY <1>1, SumsStep
  <2>2. QED
    BY <1>4, <2>1
<1> HIDE DEF F
<1>6. ASSUME NEW s \in SUBSET M, \A t \in SUBSET M : Cardinality(t) < Cardinality(s) => Right(t)
      PROVE  Right(s)
  <2>1. CASE s = {}
    <3>1. Of(s) = {}
      BY <2>1
    <3> HIDE DEF Of
    <3>2. QED
      BY <1>5, <2>1, <3>1, FS_EmptySet
  <2>2. CASE s # {}
    <3>1. PICK x \in s : TRUE
      BY <2>2
    <3>2. s \ {x} \in SUBSET M /\ Cardinality(s \ {x}) < Cardinality(s)
      <4>1. Cardinality(s \ {x}) = Cardinality(s) - 1 /\ Cardinality(s) \in Nat
        BY <1>1, OneLess
      <4>2. QED
        BY <4>1
    <3>3. F[s \ {x}] = Cardinality(Of(s \ {x}))
      BY <1>6, <3>2
    <3>4. Of(s) = Of({x}) \cup Of(s \ {x}) /\ Of({x}) \cap Of(s \ {x}) = {}
      OBVIOUS
    <3> HIDE DEF Of
    <3>5. Cardinality(Of(s)) = Cardinality(Of({x})) + Cardinality(Of(s \ {x}))
      <4>1. Cardinality(Of({x}) \cup Of(s \ {x}))
              = Cardinality(Of({x})) + Cardinality(Of(s \ {x})) - Cardinality(Of({x}) \cap Of(s \ {x}))
        BY <1>2, FS_Union
      <4>2. Cardinality(Of({x}) \cap Of(s \ {x})) = 0
        BY <3>4, FS_EmptySet
      <4>3. Cardinality(Of({x})) \in Nat /\ Cardinality(Of(s \ {x})) \in Nat
        BY <1>2
      <4>4. Cardinality(Of(s)) = Cardinality(Of({x}) \cup Of(s \ {x}))
        BY <3>4
      <4>5. QED
        BY <4>1, <4>2, <4>3, <4>4
    <3>6. F[s] = f[x] + F[s \ {x}] /\ f[x] = Cardinality(Of({x}))
      BY <1>3, <1>5
    <3>7. QED
      BY <1>2, <3>3, <3>5, <3>6
  <2>3. QED
    BY <2>1, <2>2
<1>7. \A s \in SUBSET M : s \in Good
  <2>1. \A s \in SUBSET M :
           (\A t \in SUBSET M : Cardinality(t) < Cardinality(s) => t \in Good) => s \in Good
    <3> HIDE DEF Right
    <3>1. QED
      BY <1>6
  <2> HIDE DEF Good
  <2>2. Inherited(M, Good)
    BY <2>1 DEF Inherited
  <2>3. QED
    BY <1>1, <2>2, SubsetsBySize
<1>8. Right(M)
  <2>1. M \in SUBSET M
    OBVIOUS
  <2> HIDE DEF Right
  <2>2. QED
    BY <1>7, <2>1
<1>9. Of(M) = C
  OBVIOUS
<1>10. SumFunction(f) = F[M]
  BY SumIsRecursive DEF F
<1>11. QED
  BY <1>8, <1>9, <1>10

(* A sum of bounded numbers is at most the bound times their number.       *)
LEMMA SumBounded ==
  ASSUME NEW S, IsFiniteSet(S), NEW max \in Nat, NEW f \in [S -> 0..max]
  PROVE  SumFunction(f) \in Nat /\ SumFunction(f) <= max * Cardinality(S)
<1> DEFINE F == Sums(f)
           Right(s) == F[s] \in Nat /\ F[s] <= max * Cardinality(s)
           Good == {s \in SUBSET S : Right(s)}
<1>1. f \in [S -> Nat]
  OBVIOUS
<1>2. /\ F[{}] = 0
      /\ \A s \in SUBSET S : F[s] \in Nat /\ \A x \in s : F[s] = f[x] + F[s \ {x}]
  <2>1. \A g \in [S -> Nat] :
          /\ Sums(g)[{}] = 0
          /\ \A s \in SUBSET S : Sums(g)[s] \in Nat
                                 /\ \A x \in s : Sums(g)[s] = g[x] + Sums(g)[s \ {x}]
    <3> HIDE DEF F, Right, Good
    <3>1. QED
      BY SumsStep
  <2>2. QED
    BY <1>1, <2>1
<1> HIDE DEF F
<1>3. ASSUME NEW s \in SUBSET S, \A t \in SUBSET S : Cardinality(t) < Cardinality(s) => Right(t)
      PROVE  Right(s)
  <2>1. CASE s = {}
    <3>1. Cardinality(s) = 0
      BY <2>1, FS_EmptySet
    <3>2. QED
      BY <1>2, <2>1, <3>1
  <2>2. CASE s # {}
    <3>1. PICK x \in s : TRUE
      BY <2>2
    <3>2. /\ s \ {x} \in SUBSET S /\ Cardinality(s \ {x}) = Cardinality(s) - 1
          /\ Cardinality(s) \in Nat
      BY OneLess
    <3>3. F[s \ {x}] \in Nat /\ F[s \ {x}] <= max * (Cardinality(s) - 1)
      BY <1>3, <3>2
    <3>4. F[s] = f[x] + F[s \ {x}] /\ f[x] \in Nat /\ f[x] <= max
      BY <1>2
    <3>5. max * Cardinality(s) = max * (Cardinality(s) - 1) + max
      BY <3>2
    <3>6. max * (Cardinality(s) - 1) \in Int /\ max * Cardinality(s) \in Int
      BY <3>2
    <3>7. QED
      BY <1>2, <3>3, <3>4, <3>5, <3>6
  <2>3. QED
    BY <2>1, <2>2
<1>4. \A s \in SUBSET S : s \in Good
  <2>1. \A s \in SUBSET S :
           (\A t \in SUBSET S : Cardinality(t) < Cardinality(s) => t \in Good) => s \in Good
    <3> HIDE DEF Right
    <3>1. QED
      BY <1>3
  <2> HIDE DEF Good
  <2>2. Inherited(S, Good)
    BY <2>1 DEF Inherited
  <2>3. QED
    BY <2>2, SubsetsBySize
<1>5. Right(S)
  BY <1>4
<1>6. SumFunction(f) = F[S]
  BY SumIsRecursive DEF F
<1>7. QED
  BY <1>5, <1>6

(* The same for every function of a set.                                   *)
LEMMA SumsOf ==
  ASSUME NEW D, IsFiniteSet(D)
  PROVE  \A h \in [D -> Nat] :
           /\ Sums(h)[{}] = 0
           /\ \A s \in SUBSET D : /\ Sums(h)[s] \in Nat
                                  /\ \A y \in s : Sums(h)[s] = h[y] + Sums(h)[s \ {y}]
BY SumsStep

(* A sum with one number more.                                             *)
SumsGrow(S, x) ==
    \A f \in [S -> Nat], g \in [S \cup {x} -> Nat] :
       (\A s \in S : g[s] = f[s]) =>
          SumFunction(f) \in Nat /\ SumFunction(g) = g[x] + SumFunction(f)

LEMMA SumOfOneMore ==
  ASSUME NEW S, IsFiniteSet(S), NEW x, x \notin S PROVE SumsGrow(S, x)
<1> SUFFICES ASSUME NEW f \in [S -> Nat], NEW g \in [S \cup {x} -> Nat], \A s \in S : g[s] = f[s]
             PROVE  SumFunction(f) \in Nat /\ SumFunction(g) = g[x] + SumFunction(f)
  BY DEF SumsGrow
<1> DEFINE T == S \cup {x}
           F == Sums(f)
           G == Sums(g)
           Right(s) == F[s] = G[s]
           Good == {s \in SUBSET S : Right(s)}
<1>1. IsFiniteSet(T)
  BY FS_AddElement
<1>2. /\ F[{}] = 0
      /\ \A s \in SUBSET S : F[s] \in Nat /\ \A y \in s : F[s] = f[y] + F[s \ {y}]
  BY SumsOf
<1>3. /\ G[{}] = 0
      /\ \A s \in SUBSET T : G[s] \in Nat /\ \A y \in s : G[s] = g[y] + G[s \ {y}]
  <2>1. g \in [T -> Nat]
    OBVIOUS
  <2> HIDE DEF T
  <2>2. QED
    BY <1>1, <2>1, SumsOf
<1> HIDE DEF F, G
<1>4. ASSUME NEW s \in SUBSET S, \A t \in SUBSET S : Cardinality(t) < Cardinality(s) => Right(t)
      PROVE  Right(s)
  <2>1. CASE s = {}
    BY <1>2, <1>3, <2>1
  <2>2. CASE s # {}
    <3>1. PICK y \in s : TRUE
      BY <2>2
    <3>2. s \ {y} \in SUBSET S /\ Cardinality(s \ {y}) < Cardinality(s)
      <4>1. Cardinality(s \ {y}) = Cardinality(s) - 1 /\ Cardinality(s) \in Nat
        BY OneLess
      <4>2. QED
        BY <4>1
    <3>3. F[s \ {y}] = G[s \ {y}]
      BY <1>4, <3>2
    <3>4. F[s] = f[y] + F[s \ {y}]
      BY <1>2
    <3>5. G[s] = g[y] + G[s \ {y}]
      BY <1>3
    <3>6. f[y] = g[y]
      OBVIOUS
    <3>7. QED
      BY <3>3, <3>4, <3>5, <3>6
  <2>3. QED
    BY <2>1, <2>2
<1>5. \A s \in SUBSET S : s \in Good
  <2>1. \A s \in SUBSET S :
           (\A t \in SUBSET S : Cardinality(t) < Cardinality(s) => t \in Good) => s \in Good
    <3> HIDE DEF Right
    <3>1. QED
      BY <1>4
  <2> HIDE DEF Good
  <2>2. Inherited(S, Good)
    BY <2>1 DEF Inherited
  <2>3. QED
    BY <2>2, SubsetsBySize
<1>6. F[S] = G[S] /\ F[S] \in Nat
  BY <1>2, <1>5
<1>7. T \ {x} = S /\ x \in T
  OBVIOUS
<1>8. G[T] = g[x] + G[S]
  <2> HIDE DEF T
  <2>1. QED
    BY <1>3, <1>7
<1>9. SumFunction(f) = F[S] /\ SumFunction(g) = G[T]
  BY SumIsRecursive DEF F, G
<1>10. QED
  BY <1>6, <1>8, <1>9

(* Two sets without a common element.                                      *)
LEMMA DisjointUnion ==
  ASSUME NEW S, IsFiniteSet(S), NEW T, IsFiniteSet(T), S \cap T = {}
  PROVE  Cardinality(S \cup T) = Cardinality(S) + Cardinality(T)
<1>1. Cardinality(S \cup T) = Cardinality(S) + Cardinality(T) - Cardinality(S \cap T)
  BY FS_Union
<1>2. Cardinality(S \cap T) = 0
  BY FS_EmptySet
<1>3. Cardinality(S) \in Nat /\ Cardinality(T) \in Nat
  BY FS_CardinalityType
<1>4. QED
  BY <1>1, <1>2, <1>3

-----------------------------------------------------------------------------
(* The calendar.                                                           *)

(* Years that begin in March: how many days came before year y of them,    *)
(* and which of them a day falls in.                                       *)
YearStart(y) == 365 * y + y \div 4 - y \div 100 + y \div 400
MarchYear(c) == IF c.m <= 2 THEN c.y - 1 ELSE c.y
MarchMonth(c) == (c.m + 9) % 12
DayOfYear(c) == (153 * MarchMonth(c) + 2) \div 5 + c.d - 1

Dates == [y : Int, m : Int, d : Int]

(* Which days a month has, counted from March.                             *)
LEMMA MonthsOfTheYear ==
  ASSUME NEW c \in Dates, InCalendar(c)
  PROVE  /\ MarchYear(c) \in Int /\ MarchMonth(c) \in 0..11 /\ MarchMonth(c) \in Int
         /\ c.d \in 1..31
         /\ c.m = IF MarchMonth(c) < 10 THEN MarchMonth(c) + 3 ELSE MarchMonth(c) - 9
         /\ MarchMonth(c) = 11 => c.d <= IF IsLeap(MarchYear(c) + 1) THEN 29 ELSE 28
         /\ MarchMonth(c) \in {1, 3, 6, 8} => c.d <= 30
<1>1. c.y \in Int /\ c.m \in 1..12 /\ c.d \in 1..DaysInMonth(c.y, c.m)
  BY DEF Dates, InCalendar
<1>2. DaysInMonth(c.y, c.m) \in 28..31
  BY <1>1 DEF DaysInMonth
<1>3. c.m = 2 <=> MarchMonth(c) = 11
  BY <1>1 DEF MarchMonth
<1>4. c.m \in {4, 6, 9, 11} <=> MarchMonth(c) \in {1, 3, 6, 8}
  BY <1>1 DEF MarchMonth
<1>5. c.m = 2 => c.d <= IF IsLeap(c.y) THEN 29 ELSE 28
  BY <1>1 DEF DaysInMonth
<1>6. c.m \in {4, 6, 9, 11} => c.d <= 30
  BY <1>1 DEF DaysInMonth
<1>7. c.m = 2 => MarchYear(c) + 1 = c.y
  BY <1>1 DEF MarchYear
<1>8. MarchYear(c) \in Int /\ MarchMonth(c) \in 0..11 /\ MarchMonth(c) \in Int
  BY <1>1 DEF MarchYear, MarchMonth
<1>9. c.m = IF MarchMonth(c) < 10 THEN MarchMonth(c) + 3 ELSE MarchMonth(c) - 9
  BY <1>1 DEF MarchMonth
<1>10. c.d \in 1..31
  BY <1>1, <1>2
<1>11. QED
  BY <1>3, <1>4, <1>5, <1>6, <1>7, <1>8, <1>9, <1>10

LEMMA ToDaysIs ==
  ASSUME NEW c \in Dates, InCalendar(c)
  PROVE  ToDays(c) = YearStart(MarchYear(c)) + DayOfYear(c) - 719468
<1> DEFINE y == MarchYear(c)
<1>1. y \in Int
  BY MonthsOfTheYear
<1>2. ToDays(c) = (y \div 400) * 146097 + (y % 400) * 365 + (y % 400) \div 4 - (y % 400) \div 100
                  + DayOfYear(c) - 719468
  BY DEF ToDays, MarchYear, DayOfYear, MarchMonth
<1> HIDE DEF y
<1>3. (y \div 400) * 146097 + (y % 400) * 365 + (y % 400) \div 4 - (y % 400) \div 100 = YearStart(y)
  BY <1>1 DEF YearStart
<1>4. DayOfYear(c) \in Int
  BY MonthsOfTheYear DEF DayOfYear
<1>5. QED
  BY <1>1, <1>2, <1>3, <1>4 DEF y, YearStart

LEMMA YearsGrow ==
  ASSUME NEW y \in Int
  PROVE  /\ YearStart(y) \in Int
         /\ YearStart(y + 1) = YearStart(y) + (IF IsLeap(y + 1) THEN 366 ELSE 365)
<1>1. YearStart(y) \in Int
  BY DEF YearStart
<1>2. (y + 1) \div 4 = IF (y + 1) % 4 = 0 THEN y \div 4 + 1 ELSE y \div 4
  OBVIOUS
<1>3. (y + 1) \div 100 = IF (y + 1) % 100 = 0 THEN y \div 100 + 1 ELSE y \div 100
  OBVIOUS
<1>4. (y + 1) \div 400 = IF (y + 1) % 400 = 0 THEN y \div 400 + 1 ELSE y \div 400
  OBVIOUS
<1>5. (y + 1) % 400 = 0 => (y + 1) % 100 = 0
  OBVIOUS
<1>6. (y + 1) % 100 = 0 => (y + 1) % 4 = 0
  OBVIOUS
<1>7. YearStart(y + 1) = YearStart(y) + (IF IsLeap(y + 1) THEN 366 ELSE 365)
  BY <1>2, <1>3, <1>4, <1>5, <1>6 DEF YearStart, IsLeap
<1>8. QED
  BY <1>1, <1>7

LEMMA LaterYears ==
  ASSUME NEW y \in Int, NEW z \in Int, y < z
  PROVE  YearStart(y + 1) <= YearStart(z)
BY DEF YearStart

(* A day of the year is below the length of its year.                      *)
IsDayOf(y, n) == n \in 0..365 /\ n <= IF IsLeap(y + 1) THEN 365 ELSE 364

LEMMA DaysOfTheYear ==
  ASSUME NEW c \in Dates, InCalendar(c)
  PROVE  /\ MarchYear(c) \in Int /\ YearStart(MarchYear(c)) \in Int
         /\ IsDayOf(MarchYear(c), DayOfYear(c))
         /\ DayOfYear(c) \in Int /\ DayOfYear(c) \in 0..365
<1>1. /\ MarchMonth(c) \in 0..11 /\ c.d \in 1..31
      /\ MarchMonth(c) = 11 => c.d <= IF IsLeap(MarchYear(c) + 1) THEN 29 ELSE 28
  BY MonthsOfTheYear
<1>2. MarchYear(c) \in Int
  BY MonthsOfTheYear
<1>3. YearStart(MarchYear(c)) \in Int
  BY <1>2, YearsGrow
<1>4. QED
  BY <1>1, <1>2, <1>3 DEF DayOfYear, IsDayOf

(* The way back from a day of the year.                                    *)
LEMMA MonthOfTheDay ==
  ASSUME NEW c \in Dates, InCalendar(c)
  PROVE  /\ (5 * DayOfYear(c) + 2) \div 153 = MarchMonth(c)
         /\ DayOfYear(c) - (153 * MarchMonth(c) + 2) \div 5 + 1 = c.d
<1>1. /\ MarchMonth(c) \in 0..11 /\ c.d \in 1..31
      /\ MarchMonth(c) = 11 => c.d <= 29
      /\ MarchMonth(c) \in {1, 3, 6, 8} => c.d <= 30
  BY MonthsOfTheYear
<1>2. QED
  BY <1>1 DEF DayOfYear

(* The way back from a day of four hundred years: of c centuries, q times  *)
(* four years, r years and n days.                                         *)
YearOf(doe) == (doe - doe \div 1460 + doe \div 36524 - doe \div 146096) \div 365

Cycle(doe, c, q, r, n) ==
    /\ c \in 0..3 /\ q \in 0..24 /\ r \in 0..3 /\ n \in 0..365
    /\ n = 365 => r = 3 /\ (q = 24 => c = 3)
    /\ doe \in Int /\ doe = 36524 * c + 1461 * q + 365 * r + n

LEMMA CenturiesOfTheDay ==
  ASSUME NEW c, NEW q, NEW r, NEW n, NEW doe, Cycle(doe, c, q, r, n)
  PROVE  0 <= doe /\ doe < 146097 /\ YearOf(doe) = 100 * c + 4 * q + r
<1> USE DEF Cycle
<1>1. doe < 146097 /\ 0 <= doe
  OBVIOUS
<1>2. doe \div 36524 - doe \div 146096 = c
  <2>1. CASE doe = 146096
    <3>1. c = 3
      BY <2>1
    <3>2. QED
      BY <2>1, <3>1
  <2>2. CASE doe < 146096
    <3>1. doe < 36524 * (c + 1) /\ 36524 * c <= doe
      BY <2>2
    <3>2. doe \div 36524 = c
      BY <3>1
    <3>3. doe \div 146096 = 0
      BY <1>1, <2>2
    <3>4. QED
      BY <3>2, <3>3
  <2>3. QED
    BY <1>1, <2>1, <2>2
<1> DEFINE rest == 24 * c + q + 365 * r + n
           e == IF rest >= 1460 THEN 1 ELSE 0
<1>3. rest \in Int /\ 0 <= rest /\ rest < 2920 /\ doe = 1460 * (25 * c + q) + rest
  OBVIOUS
<1>4. (n = 365 => e = 1) /\ (e = 1 => n > 0) /\ e \in 0..1
  OBVIOUS
<1>5. doe \div 1460 = 25 * c + q + e
  <2> HIDE DEF rest
  <2>1. CASE rest >= 1460
    BY <1>3, <2>1
  <2>2. CASE rest < 1460
    BY <1>3, <2>2
  <2>3. QED
    BY <1>3, <2>1, <2>2
<1> HIDE DEF e
<1>6. doe - doe \div 1460 + doe \div 36524 - doe \div 146096 = 365 * (100 * c + 4 * q + r) + n - e
  <2>1. doe \div 1460 \in Int /\ doe \div 36524 \in Int /\ doe \div 146096 \in Int
    OBVIOUS
  <2>2. doe - doe \div 1460 + doe \div 36524 - doe \div 146096
          = doe - doe \div 1460 + (doe \div 36524 - doe \div 146096)
    BY <2>1
  <2>3. QED
    BY <1>2, <1>4, <1>5, <2>2
<1>7. (365 * (100 * c + 4 * q + r) + n - e) \div 365 = 100 * c + 4 * q + r
  BY <1>4
<1>8. YearOf(doe) = 100 * c + 4 * q + r
  BY ONLY <1>6, <1>7, SMT DEF YearOf
<1>9. QED
  BY <1>1, <1>8

DayOfCycle(Y, n) == 365 * Y + Y \div 4 - Y \div 100 + n

LEMMA YearOfTheDay ==
  ASSUME NEW Y \in 0..399, NEW n, IsDayOf(Y, n)
  PROVE  /\ DayOfCycle(Y, n) \in Int /\ 0 <= DayOfCycle(Y, n) /\ DayOfCycle(Y, n) < 146097
         /\ YearOf(DayOfCycle(Y, n)) = Y
<1> DEFINE doe == DayOfCycle(Y, n)
           c == Y \div 100
           q == (Y % 100) \div 4
           r == Y % 4
<1>1. /\ c \in 0..3 /\ q \in 0..24 /\ r \in 0..3 /\ Y = 100 * c + 4 * q + r
      /\ Y \div 4 = 25 * c + q
  OBVIOUS
<1>2. n \in 0..365
  BY DEF IsDayOf
<1>3. doe = 36524 * c + 1461 * q + 365 * r + n
  BY <1>1, <1>2 DEF DayOfCycle
<1>4. n = 365 => r = 3 /\ (q = 24 => c = 3)
  BY <1>1 DEF IsLeap, IsDayOf
<1> HIDE DEF c, q, r, doe
<1>5. 0 <= doe /\ doe < 146097 /\ YearOf(doe) = 100 * c + 4 * q + r
  <2>1. Cycle(doe, c, q, r, n)
    BY <1>1, <1>2, <1>3, <1>4 DEF Cycle
  <2>2. QED
    BY <2>1, CenturiesOfTheDay
<1>6. 100 * c + 4 * q + r = Y
  BY <1>1
<1>7. doe \in Int
  BY <1>1, <1>2, <1>3
<1>8. QED
  BY <1>5, <1>6, <1>7 DEF doe

(* The ledger's way back undoes the plans' way to a day.                   *)
LEMMA ThereAndBack ==
  ASSUME NEW c \in Dates, InCalendar(c)
  PROVE  ToDays(c) \in Int /\ CivilFromDays(ToDays(c)) = c
<1> DEFINE y == MarchYear(c)
           E == y \div 400
           Y == y % 400
           n == DayOfYear(c)
           mp == MarchMonth(c)
           z == ToDays(c) + 719468
           doe == DayOfCycle(Y, n)
<1>1. y \in Int /\ n \in 0..365 /\ IsDayOf(y, n) /\ mp \in 0..11
  BY MonthsOfTheYear, DaysOfTheYear
<1>2. E \in Int /\ Y \in 0..399 /\ y = 400 * E + Y
  BY <1>1
<1>3. IsLeap(y + 1) <=> IsLeap(Y + 1)
  BY <1>2 DEF IsLeap
<1>4. YearStart(y) = 146097 * E + (365 * Y + Y \div 4 - Y \div 100)
  <2> HIDE DEF y, E, Y
  <2>1. y \div 4 = 100 * E + Y \div 4 /\ y \div 100 = 4 * E + Y \div 100
    BY <1>2
  <2>2. y \div 400 = E
    BY <1>2
  <2>3. QED
    BY <1>2, <2>1, <2>2 DEF YearStart
<1>5. ToDays(c) = YearStart(y) + n - 719468
  BY ToDaysIs
<1> HIDE DEF y, E, Y, n, mp
<1>6. ToDays(c) \in Int /\ doe \in Int /\ z = 146097 * E + doe
  BY <1>1, <1>2, <1>4, <1>5 DEF DayOfCycle
<1>7. IsDayOf(Y, n)
  BY <1>1, <1>3 DEF IsDayOf
<1>8. 0 <= doe /\ doe < 146097 /\ YearOf(doe) = Y
  BY <1>2, <1>7, YearOfTheDay
<1>9. (5 * n + 2) \div 153 = mp /\ n - (153 * mp + 2) \div 5 + 1 = c.d
  BY MonthOfTheDay DEF n, mp
<1>10. doe - (365 * Y + Y \div 4 - Y \div 100) = n
  BY <1>1, <1>2 DEF DayOfCycle
<1> HIDE DEF doe, z
<1>11. z \div 146097 = E /\ z - E * 146097 = doe
  BY <1>2, <1>6, <1>8
<1>12. /\ c.m = IF mp < 10 THEN mp + 3 ELSE mp - 9
       /\ c.y = Y + E * 400 + (IF c.m <= 2 THEN 1 ELSE 0)
  <2>1. c.m = IF mp < 10 THEN mp + 3 ELSE mp - 9
    BY MonthsOfTheYear DEF mp
  <2>2. y = IF c.m <= 2 THEN c.y - 1 ELSE c.y
    BY DEF y, MarchYear
  <2>3. c.y \in Int
    BY DEF Dates
  <2>4. QED
    BY <1>2, <2>1, <2>2, <2>3
<1>13. CivilFromDays(ToDays(c)) = Date(c.y, c.m, c.d)
  <2>1. CivilFromDays(ToDays(c)) =
          LET yoe == YearOf(doe)
              doy == doe - (365 * yoe + yoe \div 4 - yoe \div 100)
              mpp == (5 * doy + 2) \div 153
              m   == IF mpp < 10 THEN mpp + 3 ELSE mpp - 9
          IN  Date(yoe + E * 400 + (IF m <= 2 THEN 1 ELSE 0), m, doy - (153 * mpp + 2) \div 5 + 1)
    BY <1>11 DEF CivilFromDays, YearOf, z
  <2>2. QED
    BY <1>8, <1>9, <1>10, <1>12, <2>1
<1>14. c = Date(c.y, c.m, c.d)
  BY DEF Dates, Date
<1>15. QED
  BY <1>6, <1>13, <1>14

LEMMA TheNextDay ==
  ASSUME NEW c \in Dates, InCalendar(c)
  PROVE  /\ Tomorrow(c) \in Dates /\ InCalendar(Tomorrow(c)) /\ Tomorrow(c).y >= c.y
         /\ ToDays(Tomorrow(c)) = ToDays(c) + 1
<1> DEFINE t == Tomorrow(c)
<1>1. c.y \in Int /\ c.m \in 1..12 /\ c.d \in 1..DaysInMonth(c.y, c.m)
  BY DEF Dates, InCalendar
<1>2. \A y \in Int, m \in 1..12 : DaysInMonth(y, m) \in 28..31
  BY DEF DaysInMonth
<1>3. CASE c.d < DaysInMonth(c.y, c.m)
  <2>1. t.y = c.y /\ t.m = c.m /\ t.d = c.d + 1 /\ t \in Dates
    BY <1>1, <1>2, <1>3 DEF Tomorrow, Date, Dates
  <2>2. InCalendar(t)
    BY <1>1, <1>2, <1>3, <2>1 DEF InCalendar
  <2>3. MarchYear(t) = MarchYear(c) /\ DayOfYear(t) = DayOfYear(c) + 1
    BY <1>1, <1>2, <2>1 DEF MarchYear, DayOfYear, MarchMonth
  <2>4. YearStart(MarchYear(c)) \in Int /\ DayOfYear(c) \in Int
    BY DaysOfTheYear
  <2>5. QED
    BY <1>1, <2>1, <2>2, <2>3, <2>4, ToDaysIs
<1>4. CASE c.d = DaysInMonth(c.y, c.m) /\ c.m < 12
  <2>1. t.y = c.y /\ t.m = c.m + 1 /\ t.d = 1 /\ t \in Dates
    BY <1>1, <1>4 DEF Tomorrow, Date, Dates
  <2>2. InCalendar(t)
    BY <1>1, <1>2, <1>4, <2>1 DEF InCalendar
  <2>3. YearStart(MarchYear(c)) \in Int /\ DayOfYear(c) \in Int
    BY DaysOfTheYear
  <2>4. CASE c.m # 2
    <3>1. MarchYear(t) = MarchYear(c)
      BY <1>1, <2>1, <2>4 DEF MarchYear
    <3>2. DayOfYear(t) = DayOfYear(c) + 1
      BY <1>1, <1>4, <2>1, <2>4 DEF DayOfYear, MarchMonth, DaysInMonth
    <3>3. QED
      BY <1>1, <2>1, <2>2, <2>3, <3>1, <3>2, ToDaysIs
  <2>5. CASE c.m = 2
    <3>1. MarchYear(c) = c.y - 1 /\ MarchYear(t) = c.y
      BY <1>1, <2>1, <2>5 DEF MarchYear
    <3>2. DayOfYear(t) = 0 /\ DayOfYear(c) = IF IsLeap(c.y) THEN 365 ELSE 364
      BY <1>1, <1>4, <2>1, <2>5 DEF DayOfYear, MarchMonth, DaysInMonth
    <3>3. c.y - 1 \in Int /\ (c.y - 1) + 1 = c.y
      BY <1>1
    <3>4. YearStart(c.y) = YearStart(c.y - 1) + (IF IsLeap(c.y) THEN 366 ELSE 365)
      BY <3>3, YearsGrow
    <3>5. QED
      BY <1>1, <2>1, <2>2, <2>3, <3>1, <3>2, <3>4, ToDaysIs
  <2>6. QED
    BY <2>4, <2>5
<1>5. CASE c.d = DaysInMonth(c.y, c.m) /\ c.m = 12
  <2>1. t.y = c.y + 1 /\ t.m = 1 /\ t.d = 1 /\ t \in Dates
    BY <1>1, <1>5 DEF Tomorrow, Date, Dates
  <2>2. InCalendar(t)
    BY <1>1, <1>2, <2>1 DEF InCalendar
  <2>3. MarchYear(t) = MarchYear(c) /\ DayOfYear(t) = DayOfYear(c) + 1
    BY <1>1, <1>5, <2>1 DEF MarchYear, DayOfYear, MarchMonth, DaysInMonth
  <2>4. YearStart(MarchYear(c)) \in Int /\ DayOfYear(c) \in Int
    BY DaysOfTheYear
  <2>5. QED
    BY <1>1, <2>1, <2>2, <2>3, <2>4, ToDaysIs
<1>6. QED
  BY <1>1, <1>2, <1>3, <1>4, <1>5

LEMMA PricesAgree ==
  ASSUME NEW c \in Dates, InCalendar(c), c.y >= 1
  PROVE  PriceDays(c) = ToDays(c)
<1> DEFINE y == MarchYear(c)
<1>1. c.y \in Int /\ c.m \in 1..12 /\ y \in Int /\ y >= 0
  BY DEF Dates, InCalendar, MarchYear
<1>2. (IF c.m > 2 THEN c.m - 3 ELSE c.m + 9) = (c.m + 9) % 12
  BY <1>1
<1> HIDE DEF y
<1>3. y - (y \div 400) * 400 = y % 400
  BY <1>1
<1>4. QED
  BY <1>1, <1>2, <1>3 DEF PriceDays, ToDays, y, MarchYear

(* A month of the year begins after all days of an earlier one.            *)
LEMMA MonthsGrow ==
  ASSUME NEW i \in 0..11, NEW j \in 0..11, i < j,
         NEW x \in 1..31, i \in {1, 3, 6, 8} => x <= 30
  PROVE  (153 * i + 2) \div 5 + x <= (153 * j + 2) \div 5
<1>1. (153 * i + 2) \div 5 + x <= (153 * (i + 1) + 2) \div 5
  OBVIOUS
<1>2. (153 * (i + 1) + 2) \div 5 <= (153 * j + 2) \div 5
  OBVIOUS
<1>3. QED
  BY <1>1, <1>2

(* The order of the calendar is that of the days.                          *)
LEMMA DaysInOrder ==
  ASSUME NEW a \in Dates, InCalendar(a), NEW b \in Dates, InCalendar(b)
  PROVE  Before(a, b) <=> ToDays(a) < ToDays(b)
<1>1. ASSUME NEW p \in Dates, InCalendar(p), NEW q \in Dates, InCalendar(q), Before(p, q)
      PROVE  ToDays(p) < ToDays(q)
  <2> DEFINE P  == MarchYear(p)
             Q  == MarchYear(q)
             i  == MarchMonth(p)
             j  == MarchMonth(q)
             m  == DayOfYear(p)
             n  == DayOfYear(q)
  <2>1. P \in Int /\ Q \in Int /\ i \in 0..11 /\ j \in 0..11 /\ m \in Int /\ n \in Int /\ 0 <= n
    BY <1>1, MonthsOfTheYear, DaysOfTheYear
  <2>2. /\ p.d \in 1..31 /\ q.d \in 1..31 /\ IsDayOf(P, m)
        /\ i \in {1, 3, 6, 8} => p.d <= 30
    BY <1>1, MonthsOfTheYear, DaysOfTheYear
  <2>3. \/ P < Q
        \/ P = Q /\ i < j
        \/ P = Q /\ i = j /\ p.d < q.d
    <3>1. p.y \in Int /\ q.y \in Int /\ p.m \in 1..12 /\ q.m \in 1..12
      BY <1>1 DEF Dates, InCalendar
    <3>2. QED
      BY <1>1, <2>2, <3>1 DEF Before, MarchYear, MarchMonth
  <2>4. m = (153 * i + 2) \div 5 + p.d - 1 /\ n = (153 * j + 2) \div 5 + q.d - 1
    BY DEF DayOfYear
  <2>5. ToDays(p) = YearStart(P) + m - 719468 /\ ToDays(q) = YearStart(Q) + n - 719468
    BY <1>1, ToDaysIs
  <2> HIDE DEF P, Q, i, j, m, n
  <2>6. YearStart(P) \in Int /\ YearStart(Q) \in Int
    BY <2>1, YearsGrow
  <2>7. CASE P < Q
    <3>1. YearStart(P + 1) \in Int /\ YearStart(P + 1) <= YearStart(Q)
      <4>1. YearStart(P + 1) <= YearStart(Q)
        BY <2>1, <2>7, LaterYears
      <4>2. P + 1 \in Int
        BY <2>1
      <4>3. QED
        BY <4>1, <4>2, YearsGrow
    <3>2. YearStart(P + 1) = YearStart(P) + (IF IsLeap(P + 1) THEN 366 ELSE 365)
      BY <2>1, YearsGrow
    <3>3. YearStart(P) + m < YearStart(P + 1)
      BY <2>1, <2>2, <2>6, <3>2 DEF IsDayOf
    <3>4. QED
      BY <2>1, <2>5, <2>6, <3>1, <3>3
  <2>8. CASE P = Q /\ i = j /\ p.d < q.d
    BY <2>1, <2>2, <2>4, <2>5, <2>6, <2>8
  <2>9. CASE P = Q /\ i < j
    <3>1. (153 * i + 2) \div 5 + p.d <= (153 * j + 2) \div 5
      BY <2>1, <2>2, <2>9, MonthsGrow
    <3>2. m < n
      BY <2>1, <2>2, <2>4, <3>1
    <3>3. QED
      BY <2>1, <2>5, <2>6, <2>9, <3>2
  <2>10. QED
    BY <2>3, <2>7, <2>8, <2>9
<1>2. Before(a, b) \/ Before(b, a) \/ a = b
  <2>1. a.y \in Int /\ b.y \in Int /\ a.m \in Int /\ b.m \in Int /\ a.d \in Int /\ b.d \in Int
    BY DEF Dates
  <2>2. a.y = b.y /\ a.m = b.m /\ a.d = b.d => a = b
    BY DEF Dates
  <2>3. QED
    BY <2>1, <2>2 DEF Before
<1>3. ToDays(a) \in Int /\ ToDays(b) \in Int
  BY ThereAndBack
<1>4. QED
  BY <1>1, <1>2, <1>3

(* On every day since 1970: what civil_from_unix of the ledger gives is a  *)
(* date of the calendar, Date::to_days of the plans and days_from_civil of *)
(* the price table lead back from it to that day, and the next day has the *)
(* next date.                                                              *)
THEOREM EveryDayIsADate ==
  ASSUME NEW day \in Nat
  PROVE  CivilFromDays(day) \in Dates /\ OneCalendar(day)
<1> DEFINE Good == {n \in 0..day : \E c \in Dates : InCalendar(c) /\ c.y >= 1970 /\ ToDays(c) = n}
<1>1. 0 \in Good
  <2> DEFINE c == Date(1970, 1, 1)
  <2>1. c \in Dates /\ c.y = 1970 /\ c.m = 1 /\ c.d = 1
    BY DEF Date, Dates
  <2>2. InCalendar(c)
    BY <2>1 DEF InCalendar, DaysInMonth
  <2>3. ToDays(c) = 0
    BY <2>1 DEF ToDays
  <2>4. QED
    BY <2>1, <2>2, <2>3
<1>2. ASSUME NEW n \in 1..day, n - 1 \in Good PROVE n \in Good
  <2>1. PICK c \in Dates : InCalendar(c) /\ c.y >= 1970 /\ ToDays(c) = n - 1
    BY <1>2
  <2>2. /\ Tomorrow(c) \in Dates /\ InCalendar(Tomorrow(c)) /\ Tomorrow(c).y >= c.y
        /\ ToDays(Tomorrow(c)) = n
    BY <2>1, TheNextDay
  <2>3. Tomorrow(c).y >= 1970
    BY <2>1, <2>2 DEF Dates
  <2>4. QED
    BY <2>2, <2>3
<1>3. day \in Good
  <2> HIDE DEF Good
  <2>1. \A i \in 0..day : i \in Good
    BY <1>1, <1>2, CountUp
  <2>2. QED
    BY <2>1
<1>4. PICK c \in Dates : InCalendar(c) /\ c.y >= 1970 /\ ToDays(c) = day
  BY <1>3
<1>5. CivilFromDays(day) = c
  BY <1>4, ThereAndBack
<1>6. PriceDays(c) = day
  <2>1. c.y >= 1
    BY <1>4 DEF Dates
  <2>2. QED
    BY <1>4, <2>1, PricesAgree
<1>7. CivilFromDays(day + 1) = Tomorrow(c)
  <2>1. Tomorrow(c) \in Dates /\ InCalendar(Tomorrow(c)) /\ ToDays(Tomorrow(c)) = day + 1
    BY <1>4, TheNextDay
  <2>2. QED
    BY <2>1, ThereAndBack
<1>8. QED
  BY <1>4, <1>5, <1>6, <1>7 DEF OneCalendar

(* Months, counted through the years.                                      *)
Month(c) == c.y * 12 + c.m - 1

LEMMA MonthsInOrder ==
  ASSUME NEW a \in Dates, InCalendar(a), NEW b \in Dates, InCalendar(b)
  PROVE  /\ Month(a) < Month(b) => Before(a, b)
         /\ Before(a, b) => Month(a) <= Month(b)
         /\ Before(a, b) => ~Before(b, a)
<1>1. a.y \in Int /\ b.y \in Int /\ a.m \in 1..12 /\ b.m \in 1..12 /\ a.d \in Int /\ b.d \in Int
  BY DEF Dates, InCalendar
<1>2. QED
  BY <1>1 DEF Before, Month

LEMMA AddedMonths ==
  ASSUME NEW c \in Dates, InCalendar(c), NEW n \in Int
  PROVE  /\ AddMonths(c, n) \in Dates /\ InCalendar(AddMonths(c, n))
         /\ Month(c) \in Int /\ Month(AddMonths(c, n)) = Month(c) + n
         /\ AddMonths(c, n).d = Least(c.d, DaysInMonth(AddMonths(c, n).y, AddMonths(c, n).m))
<1> DEFINE t == Month(c) + n
           y == t \div 12
           m == (t % 12) + 1
           d == Least(c.d, DaysInMonth(y, m))
<1>1. c.y \in Int /\ c.m \in Int /\ c.d \in Int /\ 1 <= c.d
  BY DEF Dates, InCalendar
<1>2. t \in Int /\ Month(c) \in Int
  BY <1>1 DEF Month
<1>3. y \in Int /\ m \in 1..12 /\ m \in Int /\ t = y * 12 + m - 1
  <2> HIDE DEF t
  <2>1. QED
    BY <1>2
<1>4. AddMonths(c, n) = Date(y, m, d)
  <2>1. c.y * 12 + (c.m - 1) + n = t
    BY <1>1 DEF Month
  <2>2. QED
    BY <2>1 DEF AddMonths
<1> HIDE DEF y, m
<1>5. DaysInMonth(y, m) \in 28..31
  BY <1>3 DEF DaysInMonth
<1>6. d \in Int /\ d \in 1..DaysInMonth(y, m)
  BY <1>1, <1>5 DEF Least
<1> HIDE DEF d
<1>7. /\ Date(y, m, d).y = y /\ Date(y, m, d).m = m /\ Date(y, m, d).d = d
      /\ Date(y, m, d) \in Dates
  BY <1>3, <1>6 DEF Date, Dates
<1>8. InCalendar(Date(y, m, d))
  BY <1>3, <1>6, <1>7 DEF InCalendar
<1>9. Month(Date(y, m, d)) = t
  BY <1>3, <1>7 DEF Month
<1>10. QED
  BY <1>2, <1>4, <1>7, <1>8, <1>9 DEF d

(* A month and a day of it make one date.                                  *)
LEMMA SameMonthSameDay ==
  ASSUME NEW a \in Dates, InCalendar(a), NEW b \in Dates, InCalendar(b), Month(a) = Month(b)
  PROVE  a.y = b.y /\ a.m = b.m /\ (a.d = b.d => a = b)
<1>1. /\ a.y \in Int /\ a.m \in Int /\ 1 <= a.m /\ a.m <= 12
      /\ b.y \in Int /\ b.m \in Int /\ 1 <= b.m /\ b.m <= 12
  BY DEF Dates, InCalendar
<1>2. a.y = b.y /\ a.m = b.m
  BY <1>1 DEF Month
<1>3. QED
  BY <1>2 DEF Dates

LEMMA NoMonthsLater ==
  ASSUME NEW c \in Dates, InCalendar(c)
  PROVE  AddMonths(c, 0) = c
<1> DEFINE a == AddMonths(c, 0)
<1>1. a \in Dates /\ InCalendar(a) /\ Month(a) = Month(c) /\ a.d = Least(c.d, DaysInMonth(a.y, a.m))
  BY AddedMonths
<1> HIDE DEF a
<1>2. a.y = c.y /\ a.m = c.m
  BY <1>1, SameMonthSameDay
<1>3. a.d = c.d
  BY <1>1, <1>2 DEF Least, InCalendar, Dates
<1>4. QED
  BY <1>1, <1>3, SameMonthSameDay DEF a
=============================================================================
