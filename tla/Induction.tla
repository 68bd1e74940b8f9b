----------------------------- MODULE Induction -----------------------------
(***************************************************************************)
(* Induction over numbers, stated about sets.  The induction theorems of   *)
(* the library take a predicate as a parameter, which the provers cannot   *)
(* instantiate; with the set of the numbers that have a property in its    *)
(* place, the well-foundedness of < gives the same.  The last part counts  *)
(* and cuts sequences.                                                     *)
(***************************************************************************)
EXTENDS Integers, Sequences, FiniteSetsExt, FiniteSetTheorems, SequenceTheorems,
        WellFoundedInduction, TLAPS

(* A set of natural numbers that is not empty has a least one.             *)
LEMMA LeastNumber ==
  ASSUME NEW S \in SUBSET Nat, S # {}
  PROVE  \E n \in S : \A m \in S : n <= m
<1> DEFINE R == {p \in Nat \X Nat : p[1] < p[2]}
<1>1. IsWellFoundedOn(R, Nat)
  BY NatLessThanWellFounded DEF OpToRel
<1>2. PICK n \in S : \A m \in S : <<m, n>> \notin R
  <2> HIDE DEF R
  <2> QED BY <1>1, WFMin
<1>3. ASSUME NEW m \in S PROVE n <= m
  <2>1. <<m, n>> \notin R
    BY <1>2
  <2>2. m \in Nat /\ n \in Nat /\ <<m, n>> \in Nat \X Nat
    OBVIOUS
  <2>3. ~ (m < n)
    BY <2>1, <2>2
  <2> QED BY <2>2, <2>3
<1> QED BY <1>3

(* A set of numbers up to n that is not empty has a greatest one.          *)
LEMMA GreatestNumber ==
  ASSUME NEW n \in Nat, NEW S \in SUBSET (0 .. n), S # {}
  PROVE  \E m \in S : \A k \in S : k <= m
<1> DEFINE T == {n - k : k \in S}
<1>0. \A k \in S : k \in 0 .. n
  OBVIOUS
<1>1. T \in SUBSET Nat /\ T # {}
  <2>1. \A k \in S : n - k \in Nat
    BY <1>0
  <2> QED BY <2>1
<1>2. PICK d \in T : \A e \in T : d <= e
  BY <1>1, LeastNumber
<1>3. PICK m \in S : d = n - m
  BY <1>2
<1>4. ASSUME NEW k \in S PROVE k <= m
  <2>1. d <= n - k
    BY <1>2
  <2>2. k \in 0 .. n /\ m \in 0 .. n
    <3> HIDE DEF T
    <3> QED BY <1>0
  <2>3. k \in Int /\ m \in Int
    BY <2>2
  <2> HIDE DEF T
  <2> QED BY <1>3, <2>1, <2>3
<1> QED BY <1>4

LEMMA MinIsLeast ==
  ASSUME NEW S \in SUBSET Nat, S # {}
  PROVE  Min(S) \in S /\ \A m \in S : Min(S) <= m
<1>1. \E x \in S : \A y \in S : x <= y
  BY LeastNumber
<1> QED BY <1>1 DEF Min

LEMMA MaxIsGreatest ==
  ASSUME NEW n \in Nat, NEW S \in SUBSET (0 .. n), S # {}
  PROVE  Max(S) \in S /\ \A m \in S : m <= Max(S)
<1>1. PICK m \in S : \A k \in S : k <= m
  BY GreatestNumber
<1>2. \A k \in S : k \in 0 .. n
  OBVIOUS
<1>3. \A k \in S : m >= k
  BY <1>1, <1>2
<1>4. Max(S) \in S /\ \A k \in S : Max(S) >= k
  BY <1>3 DEF Max
<1> QED BY <1>2, <1>4

LEMMA MaxOf ==
  ASSUME NEW n \in Nat, NEW S \in SUBSET (1 .. n), NEW i \in S, \A j \in S : j <= i
  PROVE  Max(S) = i
<1>1. S \in SUBSET (0 .. n) /\ S # {} /\ \A j \in S : j \in Int
  OBVIOUS
<1>2. Max(S) \in S /\ \A j \in S : j <= Max(S)
  BY <1>1, MaxIsGreatest
<1>3. i <= Max(S) /\ Max(S) <= i /\ Max(S) \in Int /\ i \in Int
  BY <1>1, <1>2
<1> QED BY ONLY <1>3

(* Induction from 0 up to n.                                               *)
LEMMA UpTo ==
  ASSUME NEW n \in Nat, NEW S, 0 \in S, \A i \in 0 .. n - 1 : i \in S => i + 1 \in S
  PROVE  0 .. n \subseteq S
<1> SUFFICES ASSUME (0 .. n) \ S # {} PROVE FALSE
  OBVIOUS
<1>1. (0 .. n) \ S \in SUBSET Nat
  OBVIOUS
<1>2. PICK i \in (0 .. n) \ S : \A j \in (0 .. n) \ S : i <= j
  BY <1>1, LeastNumber
<1>3. i # 0 /\ i - 1 \in 0 .. n - 1
  BY <1>2
<1>4. i - 1 \in S
  BY <1>2, <1>3
<1>5. i - 1 + 1 \in S
  BY <1>3, <1>4
<1> QED BY <1>2, <1>5

\* What holds of a number whenever it holds of all the smaller ones holds of
\* all numbers up to any bound.
LEMMA CourseOfValues ==
  ASSUME NEW n \in Nat, NEW S, \A i \in 1 .. n : 1 .. i - 1 \subseteq S => i \in S
  PROVE  1 .. n \subseteq S
<1> SUFFICES ASSUME (1 .. n) \ S # {} PROVE FALSE
  OBVIOUS
<1>1. (1 .. n) \ S \in SUBSET Nat
  OBVIOUS
<1>2. PICK i \in (1 .. n) \ S : \A j \in (1 .. n) \ S : i <= j
  BY <1>1, LeastNumber
<1>3. \A j \in 1 .. i - 1 : j \in S
  <2> SUFFICES ASSUME NEW j \in 1 .. i - 1, j \notin S PROVE FALSE
    OBVIOUS
  <2>1. j \in (1 .. n) \ S /\ j < i
    BY <1>2
  <2>2. i <= j
    BY <1>2, <2>1
  <2> QED BY <1>2, <2>1, <2>2
<1>4. i \in S
  BY <1>2, <1>3
<1> QED BY <1>2, <1>4

(* Induction from the end of a sequence of length n, in steps of any size.  *)
LEMMA FromTheEnd ==
  ASSUME NEW n \in Nat, NEW S, n + 1 \in S, n + 2 \in S,
         \A i \in 1 .. n : i + 1 .. n + 2 \subseteq S => i \in S
  PROVE  1 .. n + 2 \subseteq S
<1> DEFINE T == {k \in 1 .. n : n + 1 - k \in S}
<1>1. ASSUME NEW k \in 1 .. n, 1 .. k - 1 \subseteq T PROVE k \in T
  <2> DEFINE i == n + 1 - k
  <2>1. i \in 1 .. n
    OBVIOUS
  <2>2. ASSUME NEW j \in i + 1 .. n + 2 PROVE j \in S
    <3>1. CASE j <= n
      <4>1. n + 1 - j \in 1 .. k - 1
        BY <3>1
      <4>2. n + 1 - j \in T
        BY <1>1, <4>1
      <4>3. n + 1 - (n + 1 - j) = j
        OBVIOUS
      <4> QED BY <4>2, <4>3
    <3>2. CASE j = n + 1 \/ j = n + 2
      BY <3>2
    <3> QED BY <3>1, <3>2
  <2>3. i \in S
    <3>1. i + 1 .. n + 2 \subseteq S
      BY <2>2
    <3> HIDE DEF i
    <3> QED BY <2>1, <3>1
  <2> QED BY <2>3
<1>2. 1 .. n \subseteq T
  <2> HIDE DEF T
  <2> QED BY <1>1, CourseOfValues
<1>3. ASSUME NEW i \in 1 .. n PROVE i \in S
  <2>1. n + 1 - i \in 1 .. n /\ n + 1 - (n + 1 - i) = i
    OBVIOUS
  <2>2. n + 1 - i \in T
    BY <1>2, <2>1
  <2> QED BY <2>1, <2>2
<1>4. ASSUME NEW i \in 1 .. n + 2 PROVE i \in 1 .. n \/ i = n + 1 \/ i = n + 2
  OBVIOUS
<1> QED BY <1>3, <1>4

(* A function defined by recursion towards the end of a sequence of length  *)
(* n, in steps of any size, exists.                                         *)
Jumps(f, n, tok, next) ==
  f = [i \in 1 .. n + 2 |-> IF i > n THEN <<>> ELSE tok[i] \o f[next[i]]]

LEMMA JumpsExist ==
  ASSUME NEW n \in Nat, NEW tok, NEW next, \A i \in 1 .. n : next[i] \in i + 1 .. n + 2
  PROVE  \E f : Jumps(f, n, tok, next)
<1> DEFINE D == 1 .. n + 2
           Right(f, i) == f[i] = IF i > n THEN <<>> ELSE tok[i] \o f[next[i]]
           Good(f, m) == f = [i \in D |-> f[i]] /\ \A i \in D : i > n - m => Right(f, i)
           S == {m \in 0 .. n : \E f : Good(f, m)}
<1>1. 0 \in S
  <2> DEFINE f == [i \in D |-> <<>>]
  <2>1. \A i \in D : i > n => Right(f, i)
    OBVIOUS
  <2>2. f = [i \in D |-> f[i]]
    OBVIOUS
  <2>3. Good(f, 0)
    <3> HIDE DEF f, Right, D
    <3>1. n - 0 = n
      OBVIOUS
    <3> QED BY <2>1, <2>2, <3>1
  <2> HIDE DEF Good
  <2> QED BY <2>3
<1>2. ASSUME NEW m \in 0 .. n - 1, m \in S PROVE m + 1 \in S
  <2>1. PICK f : Good(f, m)
    BY <1>2
  <2> DEFINE p == n - m
             g == [i \in D |-> IF i = p THEN tok[p] \o f[next[p]] ELSE f[i]]
  <2>2. p \in 1 .. n /\ next[p] \in D /\ next[p] # p /\ m + 1 \in 0 .. n /\ n - (m + 1) = p - 1
    OBVIOUS
  <2>3. ASSUME NEW i \in D, i > p - 1 PROVE Right(g, i)
    <3>1. CASE i = p
      <4>1. g[i] = tok[p] \o f[next[p]] /\ g[next[p]] = f[next[p]]
        <5> HIDE DEF p, D
        <5> QED BY <2>2, <2>3, <3>1
      <4>2. ~ (i > n)
        BY <2>2, <3>1
      <4> HIDE DEF p, g
      <4> QED BY <3>1, <4>1, <4>2
    <3>2. CASE i # p
      <4>1. i > n - m
        BY <2>3, <3>2
      <4>2. Right(f, i)
        BY <2>1, <4>1
      <4>3. g[i] = f[i]
        <5> HIDE DEF p, D
        <5> QED BY <2>3, <3>2
      <4>4. CASE i > n
        <5> HIDE DEF g
        <5> QED BY <4>2, <4>3, <4>4
      <4>5. CASE i <= n
        <5>1. next[i] \in D /\ next[i] # p
          <6>1. i \in 1 .. n
            BY <4>5
          <6>2. next[i] \in i + 1 .. n + 2
            BY <6>1
          <6> QED BY <6>1, <6>2, <4>1
        <5>2. g[next[i]] = f[next[i]]
          <6> HIDE DEF p, D
          <6> QED BY <5>1
        <5>3. ~ (i > n)
          BY <4>5
        <5> HIDE DEF g
        <5> QED BY <4>2, <4>3, <5>2, <5>3
      <4>6. i > n \/ i <= n
        OBVIOUS
      <4> QED BY <4>4, <4>5, <4>6
    <3> QED BY <3>1, <3>2
  <2>4. g = [i \in D |-> g[i]]
    <3> HIDE DEF D, p
    <3> QED OBVIOUS
  <2>5. Good(g, m + 1)
    <3> HIDE DEF g, Right, D
    <3> QED BY <2>2, <2>3, <2>4
  <2> HIDE DEF Good
  <2> QED BY <2>2, <2>5
<1>3. 0 .. n \subseteq S
  <2> HIDE DEF S
  <2> QED BY <1>1, <1>2, UpTo
<1>4. PICK f : Good(f, n)
  <2> HIDE DEF Good
  <2> QED BY <1>3
<1>5. \A i \in D : Right(f, i)
  <2>1. \A i \in D : i > n - n
    OBVIOUS
  <2> HIDE DEF D, Right
  <2> QED BY <1>4, <2>1
<1>6. [i \in D |-> f[i]] = [i \in D |-> IF i > n THEN <<>> ELSE tok[i] \o f[next[i]]]
  <2> HIDE DEF D
  <2> QED BY <1>5
<1>7. Jumps(f, n, tok, next)
  <2> HIDE DEF Right
  <2>1. f = [i \in D |-> f[i]]
    BY <1>4
  <2> QED BY <1>6, <2>1 DEF Jumps
<1> QED BY <1>7

(* A function defined by recursion from lo up to n exists.                  *)
Recurs(f, lo, n, a, move) == f = [i \in lo .. n |-> IF i = lo THEN a ELSE move[i][f[i - 1]]]

(* A recursive function of an integer from lo to lo + d exists when its     *)
(* steps are given by a function.                                           *)
LEMMA RecursionExists ==
  ASSUME NEW lo \in Int, NEW d \in Nat, NEW a, NEW move
  PROVE  \E f : Recurs(f, lo, lo + d, a, move)
<1> DEFINE S == {m \in 0 .. d : \E f : Recurs(f, lo, lo + m, a, move)}
<1>1. 0 \in S
  <2> DEFINE f == [i \in lo .. lo |-> a]
  <2>1. f = [i \in lo .. lo |-> IF i = lo THEN a ELSE move[i][f[i - 1]]]
    <3>1. \A i \in lo .. lo : i = lo
      OBVIOUS
    <3> HIDE DEF f
    <3>2. [i \in lo .. lo |-> a] = [i \in lo .. lo |-> IF i = lo THEN a ELSE move[i][f[i - 1]]]
      BY ONLY <3>1
    <3> QED BY <3>2 DEF f
  <2>2. lo + 0 = lo /\ 0 \in 0 .. d
    OBVIOUS
  <2>3. Recurs(f, lo, lo + 0, a, move)
    <3> HIDE DEF f
    <3> QED BY <2>1, <2>2 DEF Recurs
  <2> QED BY <2>2, <2>3
<1>2. ASSUME NEW m \in 0 .. d - 1, m \in S PROVE m + 1 \in S
  <2>1. PICK f : Recurs(f, lo, lo + m, a, move)
    BY <1>2
  <2> DEFINE n == lo + m
             D == lo .. n + 1
             g == [i \in D |-> IF i = n + 1 THEN move[n + 1][f[n]] ELSE f[i]]
  <2>2. ASSUME NEW i \in D PROVE g[i] = IF i = lo THEN a ELSE move[i][g[i - 1]]
    <3>1. CASE i = n + 1
      <4>1. n \in D /\ n # n + 1 /\ i # lo /\ i - 1 = n
        BY <3>1
      <4> HIDE DEF n, D
      <4> QED BY <2>2, <3>1, <4>1
    <3>2. CASE i # n + 1
      <4>1. i \in lo .. lo + m /\ g[i] = f[i]
        BY <2>2, <3>2
      <4>2. f[i] = IF i = lo THEN a ELSE move[i][f[i - 1]]
        <5> DEFINE E == lo .. lo + m
        <5>1. f = [j \in E |-> IF j = lo THEN a ELSE move[j][f[j - 1]]] /\ i \in E
          BY <2>1, <4>1 DEF Recurs
        <5> HIDE DEF E
        <5> QED BY <5>1
      <4>3. CASE i = lo
        BY <4>1, <4>2, <4>3
      <4>4. CASE i # lo
        <5>1. i - 1 \in D /\ i - 1 # n + 1
          BY <4>1, <4>4
        <5>2. g[i - 1] = f[i - 1]
          <6> HIDE DEF D, n
          <6> QED BY <5>1
        <5> HIDE DEF g
        <5> QED BY <4>1, <4>2, <4>4, <5>2
      <4> QED BY <4>3, <4>4
    <3> QED BY <3>1, <3>2
  <2>3. [i \in D |-> g[i]] = [i \in D |-> IF i = lo THEN a ELSE move[i][g[i - 1]]]
    <3> HIDE DEF D, g
    <3> QED BY <2>2
  <2>4. g = [i \in D |-> g[i]]
    <3> HIDE DEF D, n
    <3> QED OBVIOUS
  <2>5. D = lo .. lo + (m + 1) /\ m + 1 \in 0 .. d
    OBVIOUS
  <2>6. Recurs(g, lo, lo + (m + 1), a, move)
    <3> HIDE DEF g, D
    <3> QED BY <2>3, <2>4, <2>5 DEF Recurs
  <2> QED BY <2>5, <2>6
<1>3. d \in S
  <2> HIDE DEF S
  <2>1. 0 .. d \subseteq S
    BY <1>1, <1>2, UpTo
  <2> QED BY <2>1
<1> QED BY <1>3

(* Going through a sequence with a state in St.                            *)
Folds(f, n, St, a, move) ==
  /\ f = [i \in 0 .. n |-> IF i = 0 THEN a ELSE move[i][f[i - 1]]]
  /\ f[0] = a /\ \A i \in 1 .. n : f[i] = move[i][f[i - 1]]
  /\ \A i \in 0 .. n : f[i] \in St

LEMMA FoldStays ==
  ASSUME NEW n \in Nat, NEW St, NEW f, f[0] \in St, \A i \in 1 .. n : f[i - 1] \in St => f[i] \in St
  PROVE  \A i \in 0 .. n : f[i] \in St
<1> DEFINE S == {i \in 0 .. n : f[i] \in St}
<1>1. 0 \in S
  OBVIOUS
<1>2. ASSUME NEW i \in 0 .. n - 1, i \in S PROVE i + 1 \in S
  <2>1. i + 1 \in 1 .. n /\ i + 1 \in 0 .. n /\ (i + 1) - 1 = i
    OBVIOUS
  <2>2. f[i + 1] \in St
    <3> DEFINE j == i + 1
    <3>1. j \in 1 .. n /\ f[j - 1] \in St
      BY <1>2, <2>1
    <3> HIDE DEF j
    <3>2. f[j] \in St
      BY <3>1
    <3> QED BY <3>2 DEF j
  <2> QED BY <2>1, <2>2
<1>3. 0 .. n \subseteq S
  <2> HIDE DEF S
  <2> QED BY <1>1, <1>2, UpTo
<1> QED BY <1>3

LEMMA FoldExists ==
  ASSUME NEW n \in Nat, NEW St, NEW a \in St, NEW move,
         \A i \in 1 .. n : \A x \in St : move[i][x] \in St
  PROVE  \E f : Folds(f, n, St, a, move)
<1> DEFINE lo == 0
<1>0. lo \in Int
  OBVIOUS
<1> HIDE DEF lo
<1>1. PICK f : Recurs(f, lo, lo + n, a, move)
  BY <1>0, RecursionExists
<1> USE DEF lo
<1>2. 0 + n = n
  OBVIOUS
<1>3. f = [i \in 0 .. n |-> IF i = 0 THEN a ELSE move[i][f[i - 1]]]
  BY <1>1, <1>2 DEF Recurs
<1> DEFINE D == 0 .. n
<1>4. 0 \in D /\ \A i \in 1 .. n : i \in D /\ i # 0
  OBVIOUS
<1>5. f[0] = a /\ \A i \in 1 .. n : f[i] = move[i][f[i - 1]]
  <2>1. f = [i \in D |-> IF i = 0 THEN a ELSE move[i][f[i - 1]]]
    BY <1>3
  <2>2. \A i \in D : f[i] = IF i = 0 THEN a ELSE move[i][f[i - 1]]
    <3> HIDE DEF D
    <3> QED BY <2>1
  <2> HIDE DEF D
  <2> QED BY <1>4, <2>2
<1>6. \A i \in 0 .. n : f[i] \in St
  <2>1. \A i \in 1 .. n : f[i - 1] \in St => f[i] \in St
    BY <1>5
  <2> QED BY <1>5, <2>1, FoldStays
<1> QED BY <1>3, <1>5, <1>6 DEF Folds

-----------------------------------------------------------------------------
(* How many of the first i elements are a.                                  *)
Count(u, a, i) == Cardinality({j \in 1 .. i : u[j] = a})

LEMMA CountStep ==
  ASSUME NEW u, NEW a, NEW i \in Nat
  PROVE  /\ Count(u, a, 0) = 0 /\ Count(u, a, i) \in Nat
         /\ Count(u, a, i + 1) = Count(u, a, i) + (IF u[i + 1] = a THEN 1 ELSE 0)
<1> DEFINE C(l) == {j \in 1 .. l : u[j] = a}
<1>1. C(0) = {}
  OBVIOUS
<1>2. IsFiniteSet(C(i)) /\ Cardinality(C(i)) \in Nat
  <2>1. IsFiniteSet(1 .. i)
    BY FS_Interval
  <2>2. C(i) \subseteq 1 .. i
    OBVIOUS
  <2> HIDE DEF C
  <2> QED BY <2>1, <2>2, FS_Subset, FS_CardinalityType
<1>3. Cardinality(C(i + 1)) = Cardinality(C(i)) + (IF u[i + 1] = a THEN 1 ELSE 0)
  <2>1. CASE u[i + 1] = a
    <3>1. C(i + 1) = C(i) \cup {i + 1} /\ i + 1 \notin C(i)
      <4>1. \A j : j \in 1 .. i + 1 <=> j \in 1 .. i \/ j = i + 1
        OBVIOUS
      <4>2. i + 1 \notin 1 .. i
        OBVIOUS
      <4> QED BY <2>1, <4>1, <4>2
    <3> HIDE DEF C
    <3>2. Cardinality(C(i) \cup {i + 1}) = Cardinality(C(i)) + 1
      BY <1>2, <3>1, FS_AddElement
    <3> QED BY <2>1, <3>1, <3>2
  <2>2. CASE u[i + 1] # a
    <3>1. C(i + 1) = C(i)
      <4>1. \A j : j \in 1 .. i + 1 <=> j \in 1 .. i \/ j = i + 1
        OBVIOUS
      <4> QED BY <2>2, <4>1
    <3> HIDE DEF C
    <3> QED BY <1>2, <2>2, <3>1
  <2> QED BY <2>1, <2>2
<1>4. Count(u, a, 0) = 0
  BY <1>1, FS_EmptySet DEF Count
<1> HIDE DEF C
<1>5. \A l : Count(u, a, l) = Cardinality(C(l))
  BY DEF Count, C
<1> QED BY <1>2, <1>3, <1>4, <1>5

(* A sequence that begins another one.                                      *)
Begins(a, b) == Len(a) <= Len(b) /\ \A i \in 1 .. Len(a) : b[i] = a[i]

LEMMA BeginsOn ==
  ASSUME NEW P, NEW x \in Seq(P), NEW y \in Seq(P), NEW z \in Seq(P), Begins(x, y), Begins(y, z)
  PROVE  Begins(x, z)
<1>1. Len(x) \in Nat /\ Len(y) \in Nat /\ Len(z) \in Nat /\ Len(x) <= Len(y) /\ Len(y) <= Len(z)
  BY DEF Begins
<1>2. \A i \in 1 .. Len(x) : i \in 1 .. Len(y)
  BY <1>1
<1>3. \A i \in 1 .. Len(x) : z[i] = x[i]
  BY <1>2 DEF Begins
<1> QED BY <1>1, <1>3 DEF Begins

LEMMA SubSeqGrows ==
  ASSUME NEW P, NEW c \in Seq(P), NEW i \in 1 .. Len(c), NEW b \in 0 .. i - 1
  PROVE  Append(SubSeq(c, b + 1, i - 1), c[i]) = SubSeq(c, b + 1, i)
<1> DEFINE a == b + 1
           j == i - 1
           v == SubSeq(c, a, j)
<1>1. Len(c) \in Nat /\ a \in 1 .. Len(c) /\ i \in a .. Len(c) /\ a \in Int /\ j \in Int /\ j <= Len(c) /\ a >= 1
  OBVIOUS
<1>2. c[i] \in P /\ \A k \in a .. j : c[k] \in P
  <2>1. \A k \in a .. j : k \in 1 .. Len(c)
    BY <1>1
  <2> QED BY <2>1
<1> HIDE DEF a
<1>3. SubSeq(c, a, i) = SubSeq(c, a, i - 1) \o <<c[i]>>
  BY <1>1, SubSeqRecursiveSecond
<1>4. v \in Seq(P)
  <2> HIDE DEF j
  <2> QED BY <1>1, <1>2, SubSeqProperties
<1> HIDE DEF v
<1>5. Append(v, c[i]) = v \o <<c[i]>>
  BY <1>2, <1>4, AppendIsConcat
<1> QED BY <1>3, <1>5 DEF v, j, a

LEMMA BeginIs ==
  ASSUME NEW P, NEW s \in Seq(P), NEW m \in 0 .. Len(s)
  PROVE  SubSeq(s, 1, m) \in Seq(P) /\ Len(SubSeq(s, 1, m)) = m /\ Begins(SubSeq(s, 1, m), s)
<1> DEFINE c == SubSeq(s, 1, m)
<1>1. m \in Nat /\ Len(s) \in Nat /\ m <= Len(s) /\ \A k \in 1 .. m : k \in 1 .. Len(s)
  OBVIOUS
<1>2. \A k \in 1 .. m : s[k] \in P
  BY <1>1
<1>3. /\ c \in Seq(P) /\ Len(c) = (IF 1 <= m THEN m - 1 + 1 ELSE 0)
      /\ \A k \in 1 .. m - 1 + 1 : c[k] = s[1 + k - 1]
  BY <1>1, <1>2, SubSeqProperties
<1>4. (IF 1 <= m THEN m - 1 + 1 ELSE 0) = m /\ m - 1 + 1 = m /\ \A k \in 1 .. m : 1 + k - 1 = k
  BY <1>1
<1> HIDE DEF c
<1>5. c \in Seq(P) /\ Len(c) = m /\ \A k \in 1 .. m : s[k] = c[k]
  BY <1>3, <1>4
<1> QED BY <1>1, <1>5 DEF Begins, c

(* A sequence with one element more.                                        *)
LEMMA Lengthened ==
  ASSUME NEW P, NEW s \in Seq(P), NEW e \in P
  PROVE  /\ s \o <<e>> \in Seq(P) /\ Len(s \o <<e>>) = Len(s) + 1
         /\ \A k \in 1 .. Len(s) : (s \o <<e>>)[k] = s[k]
         /\ (s \o <<e>>)[Len(s) + 1] = e
<1> DEFINE b == <<e>>
<1>1. b \in Seq(P) /\ Len(b) = 1 /\ b[1] = e
  OBVIOUS
<1> HIDE DEF b
<1> DEFINE x == s \o b
<1>2. /\ x \in Seq(P) /\ Len(x) = Len(s) + 1
      /\ \A k \in 1 .. Len(s) + 1 : x[k] = IF k <= Len(s) THEN s[k] ELSE b[k - Len(s)]
  <2>1. s \in Seq(P) /\ b \in Seq(P)
    BY <1>1
  <2>2. /\ s \o b \in Seq(P) /\ Len(s \o b) = Len(s) + Len(b)
        /\ \A i \in 1 .. Len(s) + Len(b) : (s \o b)[i] = IF i <= Len(s) THEN s[i] ELSE b[i - Len(s)]
    BY ONLY <2>1, ConcatProperties
  <2> QED BY <1>1, <2>2
<1>3. Len(s) \in Nat
  OBVIOUS
<1> HIDE DEF x
<1>4. \A k \in 1 .. Len(s) : x[k] = s[k]
  BY <1>2, <1>3
<1>5. x[Len(s) + 1] = b[1]
  BY <1>2, <1>3
<1> QED BY <1>1, <1>2, <1>4, <1>5 DEF x, b
=============================================================================
