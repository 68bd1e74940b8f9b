-------------------------- MODULE TelemetryProofs --------------------------
(***************************************************************************)
(* What Telemetry promises, for any threads, windows and bounds.  A deque  *)
(* is only looked at through how many of its entries are not before a      *)
(* given time: recording adds one where it should, and pruning by a time   *)
(* takes none that a later reader would count.                             *)
(***************************************************************************)
EXTENDS Telemetry, Induction, FiniteSetTheorems

-----------------------------------------------------------------------------
(* Finite sets of positions.                                                *)
LEMMA PositionsFinite ==
  ASSUME NEW n \in Nat, NEW S \in SUBSET (1 .. n)
  PROVE  IsFiniteSet(S) /\ Cardinality(S) \in Nat /\ Cardinality(S) <= n
<1>1. IsFiniteSet(1 .. n) /\ Cardinality(1 .. n) = n
  BY FS_Interval
<1> QED BY <1>1, FS_Subset, FS_CardinalityType

LEMMA CountTo ==
  ASSUME NEW n \in Nat
  PROVE  Cardinality(1 .. n) = n
BY FS_Interval

LEMMA SinceFinite ==
  ASSUME NEW d, d \in Seq(Nat), NEW time \in Int
  PROVE  /\ Since(d, time) \subseteq 1 .. Len(d)
         /\ IsFiniteSet(Since(d, time)) /\ Cardinality(Since(d, time)) \in Nat
         /\ Cardinality(Since(d, time)) <= Len(d)
<1>1. Since(d, time) \in SUBSET (1 .. Len(d)) /\ Len(d) \in Nat
  BY DEF Since
<1> QED BY <1>1, PositionsFinite

(* Pruning leaves the entries from the first one inside the window on.      *)
Suffix(d, k) == [i \in 1 .. Len(d) + 1 - k |-> d[i + k - 1]]

LEMMA PrunedIsSuffix ==
  ASSUME NEW d, d \in Seq(Nat), NEW now \in Nat, NEW window \in Nat
  PROVE  \E k \in 1 .. Len(d) + 1 :
           /\ Pruned(d, now, window) = Suffix(d, k)
           /\ \A i \in 1 .. k - 1 : d[i] < now - window
           /\ k <= Len(d) => d[k] >= now - window
<1> DEFINE I == {i \in 1 .. Len(d) : now - d[i] <= window}
           first == IF I # {} THEN Min(I) ELSE 0
<1>1. Pruned(d, now, window) = IF first = 0 THEN <<>> ELSE SubSeq(d, first, Len(d))
  BY DEF Pruned, SelectInSeq
<1>2. Len(d) \in Nat /\ I \in SUBSET Nat /\ \A i \in 1 .. Len(d) : d[i] \in Nat
  OBVIOUS
<1>3. CASE I = {}
  <2>1. first = 0
    BY <1>3
  <2> HIDE DEF first
  <2>2. Pruned(d, now, window) = Suffix(d, Len(d) + 1)
    BY <1>1, <1>2, <2>1 DEF Suffix
  <2>3. \A i \in 1 .. Len(d) : d[i] < now - window
    BY <1>2, <1>3
  <2> QED BY <1>2, <2>2, <2>3
<1>4. CASE I # {}
  <2>1. PICK k : k = Min(I)
    OBVIOUS
  <2>2. first = k
    BY <1>4, <2>1
  <2>3. k \in I /\ \A m \in I : k <= m
    <3> HIDE DEF I
    <3> QED BY <1>2, <1>4, <2>1, MinIsLeast
  <2>4. k \in 1 .. Len(d) /\ now - d[k] <= window
    BY <2>3
  <2> HIDE DEF first
  <2>5. Pruned(d, now, window) = Suffix(d, k)
    <3>1. Pruned(d, now, window) = SubSeq(d, k, Len(d))
      BY <1>1, <2>2, <2>4
    <3>2. Len(d) + 1 - k = IF k <= Len(d) THEN Len(d) - k + 1 ELSE 0
      BY <1>2, <2>4
    <3> QED BY <1>2, <2>4, <3>1 DEF Suffix
  <2>6. ASSUME NEW i \in 1 .. k - 1 PROVE d[i] < now - window
    <3>1. i \in 1 .. Len(d) /\ ~ (k <= i)
      BY <2>4
    <3>2. i \notin I
      <4> HIDE DEF I
      <4> QED BY <2>3, <3>1
    <3>3. ~ (now - d[i] <= window)
      BY <3>1, <3>2
    <3>4. d[i] \in Nat
      BY <1>2, <3>1
    <3> HIDE DEF I
    <3> QED BY <3>3, <3>4
  <2>7. d[k] >= now - window
    BY <1>2, <2>4
  <2> QED BY <1>2, <2>4, <2>5, <2>6, <2>7
<1> QED BY <1>3, <1>4

\* p is d without what comes before its position k.
FrontDropped(p, d, k) ==
  /\ Len(p) = Len(d) + 1 - k
  /\ \A i \in 1 .. Len(p) : i + k - 1 \in k .. Len(d) /\ p[i] = d[i + k - 1]

LEMMA SuffixFacts ==
  ASSUME NEW d, d \in Seq(Nat), NEW k \in 1 .. Len(d) + 1, NEW p, p = Suffix(d, k)
  PROVE  p \in Seq(Nat) /\ FrontDropped(p, d, k)
<1>1. \A i \in 1 .. Len(d) + 1 - k : i + k - 1 \in k .. Len(d) /\ d[i + k - 1] \in Nat
  OBVIOUS
<1>2. Len(d) + 1 - k \in Nat
  OBVIOUS
<1> QED BY <1>1, <1>2 DEF Suffix, FrontDropped

(* What is cut off in front does not count for a time after it.             *)
LEMMA SuffixCount ==
  ASSUME NEW d, d \in Seq(Nat), NEW k \in 1 .. Len(d) + 1, NEW p, p = Suffix(d, k),
         NEW time \in Int, \A i \in 1 .. k - 1 : d[i] < time
  PROVE  Cardinality(Since(p, time)) = Cardinality(Since(d, time))
<1> DEFINE S == Since(p, time)
           T == Since(d, time)
           f == [i \in S |-> i + k - 1]
<1>1. /\ p \in Seq(Nat) /\ Len(p) = Len(d) + 1 - k /\ Len(d) \in Nat
      /\ \A i \in 1 .. Len(p) : i + k - 1 \in k .. Len(d) /\ p[i] = d[i + k - 1]
  <2>1. p \in Seq(Nat) /\ FrontDropped(p, d, k)
    BY SuffixFacts
  <2> QED BY <2>1 DEF FrontDropped
<1>2. \A i \in 1 .. Len(d) : d[i] \in Nat
  OBVIOUS
<1>3. S = {i \in 1 .. Len(p) : p[i] >= time} /\ T = {i \in 1 .. Len(d) : d[i] >= time}
  <2>1. DOMAIN p = 1 .. Len(p) /\ DOMAIN d = 1 .. Len(d)
    BY <1>1
  <2> QED BY <2>1 DEF Since
<1>4. IsFiniteSet(S)
  BY <1>1, SinceFinite
<1> HIDE DEF S, T
<1>5. f \in [S -> T]
  <2>1. ASSUME NEW i \in S PROVE i + k - 1 \in T
    <3>1. i \in 1 .. Len(p) /\ p[i] >= time
      BY <1>3
    <3>2. i + k - 1 \in k .. Len(d) /\ d[i + k - 1] >= time
      BY <1>1, <3>1
    <3>3. i + k - 1 \in 1 .. Len(d)
      BY <3>2
    <3> QED BY <1>3, <3>2, <3>3
  <2> QED BY <2>1
<1>6. ASSUME NEW i \in S, NEW j \in S, f[i] = f[j] PROVE i = j
  <2>1. i \in Int /\ j \in Int /\ k \in Int
    BY <1>3
  <2>2. i + k - 1 = j + k - 1
    BY <1>6
  <2> QED BY <2>1, <2>2
<1>7. \A j \in T : \E i \in S : f[i] = j
  <2> SUFFICES ASSUME NEW j \in T PROVE \E i \in S : f[i] = j
    OBVIOUS
  <2>1. j \in 1 .. Len(d) /\ d[j] >= time
    BY <1>3
  <2>2. j >= k
    <3>1. ~ (j \in 1 .. k - 1)
      BY <1>2, <2>1
    <3> QED BY <2>1, <3>1
  <2> DEFINE i == j - k + 1
  <2>3. i \in 1 .. Len(p) /\ i + k - 1 = j
    BY <1>1, <2>1, <2>2
  <2>4. i \in S
    BY <1>1, <1>3, <2>1, <2>3
  <2>5. f[i] = j
    BY <2>3, <2>4
  <2> QED BY <2>4, <2>5
<1>8. f \in Bijection(S, T)
  <2> HIDE DEF f
  <2> QED BY <1>5, <1>6, <1>7 DEF Bijection, Injection, Surjection, IsInjective
<1>9. ExistsBijection(S, T)
  BY <1>8 DEF ExistsBijection
<1> QED BY <1>4, <1>9, FS_Bijection DEF S, T

(* One more position.                                                       *)
LEMMA OneMore ==
  ASSUME NEW n \in Nat, NEW S \in SUBSET (1 .. n)
  PROVE  Cardinality(S \cup {n + 1}) = Cardinality(S) + 1
<1>1. IsFiniteSet(S) /\ n + 1 \notin S
  BY PositionsFinite
<1> QED BY <1>1, FS_AddElement

(* A deque counts one more request, put there or not, or pruned.            *)
Counts(before, after, more) == after = before + (IF more THEN 1 ELSE 0)

LEMMA AppendCount ==
  ASSUME NEW d, d \in Seq(Nat), NEW now \in Nat, NEW e, e = Append(d, now), NEW time \in Int
  PROVE  Counts(Cardinality(Since(d, time)), Cardinality(Since(e, time)), now >= time)
<1>1. /\ e \in Seq(Nat) /\ Len(d) \in Nat /\ Len(e) = Len(d) + 1
      /\ e[Len(d) + 1] = now /\ \A i \in 1 .. Len(d) : e[i] = d[i]
  OBVIOUS
<1>2. Since(d, time) = {i \in 1 .. Len(d) : d[i] >= time}
      /\ Since(e, time) = {i \in 1 .. Len(d) + 1 : e[i] >= time}
  BY <1>1 DEF Since
<1>3. Since(d, time) \in SUBSET (1 .. Len(d)) /\ Cardinality(Since(d, time)) \in Nat
  BY SinceFinite
<1>4. CASE now >= time
  <2>1. Since(e, time) = Since(d, time) \cup {Len(d) + 1}
    BY <1>1, <1>2, <1>4
  <2> QED BY <1>1, <1>3, <1>4, <2>1, OneMore DEF Counts
<1>5. CASE ~(now >= time)
  <2>1. Since(e, time) = Since(d, time)
    BY <1>1, <1>2, <1>5
  <2> QED BY <1>3, <1>5, <2>1 DEF Counts
<1> QED BY <1>4, <1>5

-----------------------------------------------------------------------------
(* A deque after a request recorded at time now: an entry put at the back   *)
(* or not, then old ones taken from the front.                              *)
Ascending(d) == \A i \in 1 .. Len(d) : \A j \in 1 .. Len(d) : i < j => d[i] <= d[j]

Between(d, from, to) == \A i \in 1 .. Len(d) : from <= d[i] /\ d[i] <= to

EndsWith(d, time) == d # <<>> /\ d[Len(d)] = time

Put(d, now, put) == IF put THEN Append(d, now) ELSE d

LEMMA PutFacts ==
  ASSUME NEW d, d \in Seq(Nat), NEW now \in Nat, NEW put \in BOOLEAN, NEW e, e = Put(d, now, put)
  PROVE  /\ e \in Seq(Nat) /\ Len(e) <= Len(d) + 1
         /\ \A c \in Nat : now <= c /\ Between(d, 0, c) => Between(e, 0, c)
         /\ Ascending(d) /\ Between(d, 0, now) => Ascending(e)
         /\ put => EndsWith(e, now)
<1>1. CASE put
  <2>1. /\ e \in Seq(Nat) /\ Len(d) \in Nat /\ Len(e) = Len(d) + 1
        /\ e[Len(d) + 1] = now /\ \A i \in 1 .. Len(d) : e[i] = d[i]
    BY <1>1 DEF Put
  <2>2. e # <<>> /\ e[Len(e)] = now
    BY <2>1
  <2>0. \A i \in 1 .. Len(d) : d[i] \in Nat
    OBVIOUS
  <2>3. ASSUME Ascending(d), Between(d, 0, now),
               NEW i \in 1 .. Len(d) + 1, NEW j \in 1 .. Len(d) + 1, i < j
        PROVE  e[i] <= e[j]
    <3>0. i \in 1 .. Len(d)
      BY <2>1, <2>3
    <3>1. i \in 1 .. Len(d) /\ e[i] = d[i] /\ d[i] <= now
      BY <2>1, <2>3, <3>0 DEF Between
    <3>2. CASE j \in 1 .. Len(d)
      <4>1. d[i] <= d[j]
        BY <2>3, <3>1, <3>2 DEF Ascending
      <4> QED BY <2>1, <3>1, <3>2, <4>1
    <3>3. CASE j = Len(d) + 1
      BY <2>1, <3>1, <3>3
    <3> QED BY <2>1, <3>2, <3>3
  <2>4. ASSUME NEW c \in Nat, now <= c, Between(d, 0, c), NEW i \in 1 .. Len(d) + 1
        PROVE  0 <= e[i] /\ e[i] <= c
    <3>1. CASE i \in 1 .. Len(d)
      <4>1. 0 <= d[i] /\ d[i] <= c
        BY <2>4, <3>1 DEF Between
      <4> QED BY <2>1, <3>1, <4>1
    <3>2. CASE i = Len(d) + 1
      BY <2>1, <2>4, <3>2
    <3> QED BY <2>1, <3>1, <3>2
  <2>5. Ascending(d) /\ Between(d, 0, now) => Ascending(e)
    BY <2>1, <2>3 DEF Ascending
  <2>6. \A c \in Nat : now <= c /\ Between(d, 0, c) => Between(e, 0, c)
    BY <2>1, <2>4 DEF Between
  <2>7. Len(e) <= Len(d) + 1 /\ EndsWith(e, now)
    BY <2>1, <2>2 DEF EndsWith
  <2> QED BY <2>1, <2>5, <2>6, <2>7
<1>2. CASE ~put
  <2>1. e = d /\ Len(d) \in Nat
    BY <1>2 DEF Put
  <2>2. Len(e) <= Len(d) + 1
    BY <2>1
  <2> QED BY <1>2, <2>1, <2>2
<1> QED BY <1>1, <1>2

LEMMA PutUpTo ==
  ASSUME NEW d, d \in Seq(Nat), NEW now \in Nat, NEW put \in BOOLEAN, NEW e, e = Put(d, now, put),
         NEW c \in Nat, now <= c, Between(d, 0, c)
  PROVE  Between(e, 0, c)
BY PutFacts

LEMMA PruneFacts ==
  ASSUME NEW d, d \in Seq(Nat), NEW now \in Nat, NEW window \in Nat,
         NEW p, p = Pruned(d, now, window)
  PROVE  /\ p \in Seq(Nat) /\ Len(p) <= Len(d)
         /\ \A c \in Nat : Between(d, 0, c) => Between(p, 0, c)
         /\ Ascending(d) /\ Between(d, 0, now) => Ascending(p) /\ Between(p, now - window, now)
         /\ EndsWith(d, now) => EndsWith(p, now)
<1>1. PICK k \in 1 .. Len(d) + 1 :
           /\ p = Suffix(d, k)
           /\ \A i \in 1 .. k - 1 : d[i] < now - window
           /\ k <= Len(d) => d[k] >= now - window
  BY PrunedIsSuffix
<1>0. p = Suffix(d, k)
  BY <1>1
<1>2. /\ p \in Seq(Nat) /\ Len(p) = Len(d) + 1 - k /\ Len(d) \in Nat
      /\ \A i \in 1 .. Len(p) : i + k - 1 \in k .. Len(d) /\ p[i] = d[i + k - 1]
  <2>1. p \in Seq(Nat) /\ FrontDropped(p, d, k)
    BY <1>0, SuffixFacts
  <2> QED BY <2>1 DEF FrontDropped
<1>3. \A i \in 1 .. Len(d) : d[i] \in Nat
  OBVIOUS
<1>7. \A c \in Nat : Between(d, 0, c) => Between(p, 0, c)
  <2> SUFFICES ASSUME NEW c \in Nat, Between(d, 0, c), NEW i \in 1 .. Len(p)
               PROVE  0 <= p[i] /\ p[i] <= c
    BY DEF Between
  <2>1. i + k - 1 \in 1 .. Len(d) /\ p[i] = d[i + k - 1]
    BY <1>2
  <2> QED BY <2>1 DEF Between
<1>5. ASSUME Ascending(d), Between(d, 0, now) PROVE Ascending(p) /\ Between(p, now - window, now)
  <2>1. ASSUME NEW i \in 1 .. Len(p), NEW j \in 1 .. Len(p), i < j PROVE p[i] <= p[j]
    <3>1. i + k - 1 \in 1 .. Len(d) /\ j + k - 1 \in 1 .. Len(d) /\ i + k - 1 < j + k - 1
      BY <1>2, <2>1
    <3>2. d[i + k - 1] <= d[j + k - 1]
      BY <1>5, <3>1 DEF Ascending
    <3> QED BY <1>2, <3>2
  <2>2. ASSUME NEW i \in 1 .. Len(p) PROVE now - window <= p[i] /\ p[i] <= now
    <3> PICK m : m = i + k - 1
      OBVIOUS
    <3>0. m \in k .. Len(d) /\ p[i] = d[m]
      BY <1>2
    <3>a. k \in Nat /\ k >= 1 /\ Len(d) \in Nat
      BY <1>2
    <3>1. k \in 1 .. Len(d) /\ m \in 1 .. Len(d) /\ (m = k \/ k < m)
      BY ONLY <3>0, <3>a
    <3>2. d[k] >= now - window /\ d[m] <= now
      <4>1. d[k] >= now - window
        <5>1. k <= Len(d)
          BY ONLY <3>1, <3>a
        <5> QED BY <1>1, <5>1
      <4>2. d[m] <= now
        BY ONLY <1>5, <3>1 DEF Between
      <4> QED BY ONLY <4>1, <4>2
    <3>4. d[k] \in Nat /\ d[m] \in Nat
      BY ONLY <1>3, <3>1
    <3>3. d[k] <= d[m]
      <4>1. m = k => d[k] <= d[m]
        BY ONLY <3>4
      <4> QED BY <1>5, <3>1, <4>1 DEF Ascending
    <3>5. now \in Int /\ now - window \in Int
      OBVIOUS
    <3>6. now - window <= d[m] /\ d[m] <= now
      BY ONLY <3>2, <3>3, <3>4, <3>5
    <3> QED BY ONLY <3>0, <3>6
  <2> QED BY <2>1, <2>2 DEF Ascending, Between
<1>6. ASSUME EndsWith(d, now) PROVE EndsWith(p, now)
  <2>1. Len(d) # 0 /\ d[Len(d)] = now
    BY <1>6 DEF EndsWith
  <2>2. k <= Len(d)
    <3>1. ~ (Len(d) \in 1 .. k - 1)
      BY <1>1, <2>1
    <3> QED BY <1>2, <2>1, <3>1
  <2>3. Len(p) \in 1 .. Len(p) /\ Len(p) + k - 1 = Len(d)
    BY <1>2, <2>2
  <2>4. p[Len(p)] = now
    BY <1>2, <2>1, <2>3
  <2>5. p # <<>>
    BY <2>3
  <2> QED BY <2>4, <2>5 DEF EndsWith
<1>8. Len(p) <= Len(d)
  BY <1>2
<1> QED BY <1>2, <1>5, <1>6, <1>7, <1>8

LEMMA PruneCount ==
  ASSUME NEW d, d \in Seq(Nat), NEW now \in Nat, NEW window \in Nat,
         NEW p, p = Pruned(d, now, window), NEW time \in Int, time >= now - window
  PROVE  Cardinality(Since(p, time)) = Cardinality(Since(d, time))
<1>1. PICK k \in 1 .. Len(d) + 1 :
           p = Suffix(d, k) /\ \A i \in 1 .. k - 1 : d[i] < now - window
  BY PrunedIsSuffix
<1>2. \A i \in 1 .. k - 1 : d[i] < time
  <2>1. \A i \in 1 .. k - 1 : d[i] \in Nat
    OBVIOUS
  <2> QED BY <1>1, <2>1
<1> QED BY <1>1, <1>2, SuffixCount

LEMMA RecordCount ==
  ASSUME NEW d, d \in Seq(Nat), NEW now \in Nat, NEW window \in Nat, NEW put \in BOOLEAN,
         NEW p, p = Pruned(Put(d, now, put), now, window), NEW time \in Int, time >= now - window
  PROVE  Counts(Cardinality(Since(d, time)), Cardinality(Since(p, time)), put /\ now >= time)
<1>1. PICK e : e = Put(d, now, put)
  OBVIOUS
<1>2. e \in Seq(Nat)
  BY <1>1, PutFacts
<1>3. Cardinality(Since(p, time)) = Cardinality(Since(e, time))
  BY <1>1, <1>2, PruneCount
<1>4. Cardinality(Since(d, time)) \in Nat
  BY SinceFinite
<1>5. CASE put
  <2>0. e = Append(d, now)
    BY <1>1, <1>5 DEF Put
  <2>1. Counts(Cardinality(Since(d, time)), Cardinality(Since(e, time)), now >= time)
    BY <2>0, AppendCount
  <2> QED BY <1>3, <1>5, <2>1 DEF Counts
<1>6. CASE ~put
  BY <1>1, <1>3, <1>4, <1>6 DEF Put, Counts
<1> QED BY <1>5, <1>6

-----------------------------------------------------------------------------
(* The invariant.                                                           *)
Requests == [now : Nat, error : BOOLEAN]

Busy == {t \in Threads : thread[t] # Away}

InOrder == \A i \in 1 .. Len(log) - 1 : log[i].now <= log[i + 1].now

(* A time no recorded request pruned by.                                    *)
Kept(time, window) == \A i \in 1 .. Len(log) : time >= log[i].now - window

Covers(d, window, failed) ==
  \A time \in Int :
    Kept(time, window) => Cardinality(Since(d, time)) = Cardinality(RecordedSince(failed, time))

(* With requests in order a deque is in order, too, and starts inside the   *)
(* window of the last one.                                                  *)
Fresh(d, window) ==
  InOrder /\ log # <<>> =>
    Ascending(d) /\ Between(d, log[Len(log)].now - window, log[Len(log)].now)

DequeOK(d, window, failed) ==
  /\ d \in Seq(Nat) /\ Len(d) <= Len(log)
  /\ Between(d, 0, clock)
  /\ Covers(d, window, failed)
  /\ Fresh(d, window)

ThreadOK(t) == thread[t] = Away \/ (thread[t] \in Requests /\ thread[t].now <= clock)

LogOK == log \in Seq(Requests) /\ \A i \in 1 .. Len(log) : log[i].now <= clock

TelInv ==
  /\ clock \in Nat /\ clock <= MaxTime
  /\ LogOK
  /\ thread = [t \in Threads |-> thread[t]] /\ \A t \in Threads : ThreadOK(t)
  /\ Len(log) + Cardinality(Busy) <= MaxRequests
  /\ DequeOK(hits, HitsWindow, FALSE)
  /\ DequeOK(latencies, LatenciesWindow, FALSE)
  /\ DequeOK(errors, ErrorsWindow, TRUE)
  /\ log # <<>> => EndsWith(hits, log[Len(log)].now)

LEMMA Windows ==
  ASSUME TelemetryAssumption
  PROVE  /\ HitsWindow \in Nat /\ LatenciesWindow \in Nat /\ ErrorsWindow \in Nat
         /\ RateWindow \in Nat /\ MaxTime \in Nat /\ MaxRequests \in Nat
BY DEF TelemetryAssumption

(* Whether a request counts, and how many of a log do.                      *)
Fits(r, failed, time) == (failed => r.error) /\ r.now >= time

Tally(l, failed, time) == {i \in DOMAIN l : Fits(l[i], failed, time)}

LEMMA TallyOfLog ==
  ASSUME NEW failed, NEW time
  PROVE  RecordedSince(failed, time) = Tally(log, failed, time)
BY DEF RecordedSince, Tally, Fits

LEMMA TallyAppend ==
  ASSUME NEW l, l \in Seq(Requests), NEW r \in Requests, NEW m, m = Append(l, r),
         NEW failed, NEW time
  PROVE  Counts(Cardinality(Tally(l, failed, time)), Cardinality(Tally(m, failed, time)),
                Fits(r, failed, time))
<1>1. /\ Len(l) \in Nat /\ Len(m) = Len(l) + 1 /\ m[Len(l) + 1] = r
      /\ \A i \in 1 .. Len(l) : m[i] = l[i]
      /\ DOMAIN l = 1 .. Len(l) /\ DOMAIN m = 1 .. Len(l) + 1
  OBVIOUS
<1>2. Tally(l, failed, time) \in SUBSET (1 .. Len(l))
  BY <1>1 DEF Tally
<1>3. Cardinality(Tally(l, failed, time)) \in Nat
  BY <1>1, <1>2, PositionsFinite
<1>4. CASE Fits(r, failed, time)
  <2>1. Tally(m, failed, time) = Tally(l, failed, time) \cup {Len(l) + 1}
    BY <1>1, <1>4 DEF Tally
  <2> QED BY <1>1, <1>2, <1>4, <2>1, OneMore DEF Counts
<1>5. CASE ~Fits(r, failed, time)
  <2>1. Tally(m, failed, time) = Tally(l, failed, time)
    BY <1>1, <1>5 DEF Tally
  <2> QED BY <1>3, <1>5, <2>1 DEF Counts
<1> QED BY <1>4, <1>5

(* The log after one more request.                                          *)
LEMMA LogGrows ==
  ASSUME LogOK, NEW r \in Requests, log' = Append(log, r)
  PROVE  /\ log' \in Seq(Requests) /\ Len(log) \in Nat /\ Len(log') = Len(log) + 1
         /\ log'[Len(log')] = r /\ log' # <<>>
         /\ \A i \in 1 .. Len(log) : log'[i] = log[i]
<1>1. log \in Seq(Requests)
  BY DEF LogOK
<1> QED BY <1>1

LEMMA OrderOfMore ==
  ASSUME LogOK, NEW r \in Requests, log' = Append(log, r), InOrder'
  PROVE  InOrder /\ (log # <<>> => log[Len(log)].now <= r.now)
<1>1. /\ Len(log) \in Nat /\ Len(log') = Len(log) + 1 /\ log'[Len(log')] = r
      /\ \A i \in 1 .. Len(log) : log'[i] = log[i]
  BY LogGrows
<1>2. \A i \in 1 .. Len(log) : log'[i].now <= log'[i + 1].now
  BY <1>1 DEF InOrder
<1>3. InOrder
  <2> SUFFICES ASSUME NEW i \in 1 .. Len(log) - 1 PROVE log[i].now <= log[i + 1].now
    BY DEF InOrder
  <2>1. log'[i].now <= log'[i + 1].now
    BY <1>1, <1>2
  <2> QED BY <1>1, <2>1
<1>4. log # <<>> => log[Len(log)].now <= r.now
  <2> SUFFICES ASSUME log # <<>> PROVE log[Len(log)].now <= r.now
    OBVIOUS
  <2>1. Len(log) \in 1 .. Len(log)
    BY <1>1 DEF LogOK
  <2>2. log'[Len(log)].now <= log'[Len(log) + 1].now
    BY <1>2, <2>1
  <2> QED BY <1>1, <2>1, <2>2
<1> QED BY <1>3, <1>4

(* One deque under the mutex.                                               *)
LEMMA DequeRecord ==
  ASSUME clock \in Nat, LogOK, NEW r \in Requests, r.now <= clock,
         log' = Append(log, r), clock' = clock,
         NEW window \in Nat, NEW failed \in BOOLEAN, NEW put \in BOOLEAN, put <=> (failed => r.error),
         NEW d, DequeOK(d, window, failed),
         NEW p, p = Pruned(Put(d, r.now, put), r.now, window)
  PROVE  DequeOK(p, window, failed)' /\ (put => EndsWith(p, r.now))
<1> PICK e : e = Put(d, r.now, put)
  OBVIOUS
<1>1. d \in Seq(Nat) /\ r.now \in Nat /\ Len(d) <= Len(log) /\ Between(d, 0, clock)
  BY DEF DequeOK, Requests
<1>2. /\ e \in Seq(Nat) /\ Len(e) <= Len(d) + 1
      /\ Between(e, 0, clock)
      /\ Ascending(d) /\ Between(d, 0, r.now) => Ascending(e)
      /\ put => EndsWith(e, r.now)
  <2>1. /\ e \in Seq(Nat) /\ Len(e) <= Len(d) + 1
        /\ Ascending(d) /\ Between(d, 0, r.now) => Ascending(e)
        /\ put => EndsWith(e, r.now)
    BY <1>1, PutFacts
  <2>2. Between(e, 0, clock)
    BY <1>1, PutUpTo
  <2> QED BY <2>1, <2>2
<1>3. ASSUME Between(d, 0, r.now) PROVE Between(e, 0, r.now)
  <2>1. r.now <= r.now
    BY <1>1
  <2> QED BY <1>1, <1>3, <2>1, PutUpTo
<1>4. /\ p \in Seq(Nat) /\ Len(p) <= Len(e)
      /\ Between(p, 0, clock)
      /\ Ascending(e) /\ Between(e, 0, r.now) => Ascending(p) /\ Between(p, r.now - window, r.now)
      /\ EndsWith(e, r.now) => EndsWith(p, r.now)
  BY <1>1, <1>2, PruneFacts
<1>5. /\ log' \in Seq(Requests) /\ Len(log) \in Nat /\ Len(log') = Len(log) + 1
      /\ log'[Len(log')] = r /\ log' # <<>>
      /\ \A i \in 1 .. Len(log) : log'[i] = log[i]
  BY LogGrows
<1>6. Len(p) <= Len(log')
  BY <1>1, <1>2, <1>4, <1>5
<1>7. Covers(p, window, failed)'
  <2> SUFFICES ASSUME NEW time \in Int, Kept(time, window)'
               PROVE  Cardinality(Since(p, time)) = Cardinality(RecordedSince(failed, time))'
    BY DEF Covers, Since
  <2>1. \A i \in 1 .. Len(log') : time >= log'[i].now - window
    BY DEF Kept
  <2>2. time >= r.now - window
    <3>1. Len(log') \in 1 .. Len(log')
      BY <1>5
    <3> QED BY <1>5, <2>1, <3>1
  <2>3. Kept(time, window)
    <3>1. \A i \in 1 .. Len(log) : i \in 1 .. Len(log') /\ log'[i] = log[i]
      BY <1>5
    <3> QED BY <2>1, <3>1 DEF Kept
  <2>4. Cardinality(Since(d, time)) = Cardinality(Tally(log, failed, time))
    BY <2>3, TallyOfLog DEF DequeOK, Covers
  <2>5. Counts(Cardinality(Since(d, time)), Cardinality(Since(p, time)), put /\ r.now >= time)
    BY <1>1, <2>2, RecordCount
  <2>6. Counts(Cardinality(Tally(log, failed, time)), Cardinality(Tally(log', failed, time)),
               Fits(r, failed, time))
    BY TallyAppend DEF LogOK
  <2>7. Fits(r, failed, time) <=> put /\ r.now >= time
    BY Zenon DEF Fits
  <2>8. RecordedSince(failed, time)' = Tally(log', failed, time)
    BY DEF RecordedSince, Tally, Fits
  <2> QED BY <2>4, <2>5, <2>6, <2>7, <2>8 DEF Counts
<1>8. Fresh(p, window)'
  <2> SUFFICES ASSUME InOrder' PROVE Ascending(p) /\ Between(p, r.now - window, r.now)
    BY <1>5 DEF Fresh, Ascending, Between
  <2>1. InOrder /\ (log # <<>> => log[Len(log)].now <= r.now)
    BY OrderOfMore
  <2>2. Ascending(d) /\ Between(d, 0, r.now)
    <3>1. CASE log = <<>>
      <4>1. Len(d) = 0
        BY <1>1, <3>1
      <4> QED BY <4>1 DEF Ascending, Between
    <3>2. CASE log # <<>>
      <4> DEFINE last == log[Len(log)].now
      <4>1. Ascending(d) /\ Between(d, last - window, last)
        BY <2>1, <3>2 DEF DequeOK, Fresh
      <4>2. last \in Nat /\ last <= r.now
        <5>1. log \in Seq(Requests) /\ Len(log) \in 1 .. Len(log)
          BY <3>2 DEF LogOK
        <5>2. log[Len(log)] \in Requests
          BY <5>1
        <5> QED BY <2>1, <3>2, <5>2 DEF Requests
      <4> HIDE DEF last
      <4>3. \A i \in 1 .. Len(d) : d[i] \in Nat /\ d[i] <= last
        BY <1>1, <4>1 DEF Between
      <4>4. Between(d, 0, r.now)
        <5>1. \A i \in 1 .. Len(d) : 0 <= d[i] /\ d[i] <= r.now
          BY ONLY <1>1, <4>2, <4>3
        <5> QED BY ONLY <5>1 DEF Between
      <4> QED BY <4>1, <4>4
    <3> QED BY <3>1, <3>2
  <2> QED BY <1>2, <1>3, <1>4, <2>2
<1> QED BY <1>2, <1>4, <1>6, <1>7, <1>8 DEF DequeOK, Between

-----------------------------------------------------------------------------
(* The invariant, action by action.                                         *)
LEMMA InitInv ==
  ASSUME TelemetryAssumption, TelemetryInit
  PROVE  TelInv
<1>1. clock = 0 /\ hits = <<>> /\ latencies = <<>> /\ errors = <<>> /\ log = <<>>
  BY DEF TelemetryInit
<1>2. thread = [t \in Threads |-> thread[t]] /\ \A t \in Threads : ThreadOK(t)
  BY DEF TelemetryInit, ThreadOK
<1>3. Len(log) + Cardinality(Busy) <= MaxRequests
  <2>1. Busy = {} /\ Len(log) = 0
    BY <1>1 DEF TelemetryInit, Busy
  <2> QED BY <2>1, FS_EmptySet, Windows
<1>4. ASSUME NEW window \in Nat, NEW failed PROVE DequeOK(<<>>, window, failed)
  <2>1. \A time \in Int : Since(<<>>, time) = {} /\ RecordedSince(failed, time) = {}
    BY <1>1 DEF Since, RecordedSince
  <2>2. Covers(<<>>, window, failed)
    BY <2>1 DEF Covers
  <2> QED BY <1>1, <2>2 DEF DequeOK, Between, Fresh
<1>5. LogOK
  BY <1>1 DEF LogOK
<1>6. /\ DequeOK(<<>>, HitsWindow, FALSE) /\ DequeOK(<<>>, LatenciesWindow, FALSE)
      /\ DequeOK(<<>>, ErrorsWindow, TRUE)
  BY <1>4, Windows
<1>7. clock \in Nat /\ clock <= MaxTime
  BY <1>1, Windows
<1> QED BY <1>1, <1>2, <1>3, <1>5, <1>6, <1>7 DEF TelInv

(* What holds of a deque goes on holding while only the clock moves on.     *)
LEMMA DequeRests ==
  ASSUME NEW d, NEW window \in Nat, NEW failed, DequeOK(d, window, failed),
         clock \in Nat, clock' \in Nat, clock <= clock', log' = log
  PROVE  DequeOK(d, window, failed)'
<1>1. d \in Seq(Nat) /\ Len(d) <= Len(log) /\ Between(d, 0, clock)
  BY DEF DequeOK
<1>2. Between(d, 0, clock')
  <2>1. \A i \in 1 .. Len(d) : d[i] \in Nat /\ d[i] <= clock
    BY <1>1 DEF Between
  <2> QED BY <2>1 DEF Between
<1>3. Covers(d, window, failed)'
  BY DEF DequeOK, Covers, Kept, Since, RecordedSince
<1>4. Fresh(d, window)'
  BY DEF DequeOK, Fresh, InOrder, Ascending, Between
<1> QED BY <1>1, <1>2, <1>3, <1>4 DEF DequeOK, Between

LEMMA DequesRest ==
  ASSUME TelemetryAssumption, TelInv, clock' \in Nat, clock <= clock',
         UNCHANGED <<hits, latencies, errors, log>>
  PROVE  /\ DequeOK(hits, HitsWindow, FALSE)'
         /\ DequeOK(latencies, LatenciesWindow, FALSE)'
         /\ DequeOK(errors, ErrorsWindow, TRUE)'
         /\ LogOK'
         /\ (log # <<>> => EndsWith(hits, log[Len(log)].now))'
<1>1. PICK h, l, e : h = hits /\ l = latencies /\ e = errors
  OBVIOUS
<1>2. DequeOK(h, HitsWindow, FALSE)' /\ DequeOK(l, LatenciesWindow, FALSE)' /\ DequeOK(e, ErrorsWindow, TRUE)'
  BY <1>1, DequeRests, Windows DEF TelInv
<1>3. LogOK'
  <2>1. \A i \in 1 .. Len(log) : log[i].now \in Nat /\ log[i].now <= clock
    <3>1. \A i \in 1 .. Len(log) : log[i] \in Requests
      BY DEF TelInv, LogOK
    <3> QED BY <3>1 DEF TelInv, LogOK, Requests
  <2>2. \A i \in 1 .. Len(log) : log[i].now <= clock'
    BY <2>1 DEF TelInv
  <2> QED BY <2>2 DEF TelInv, LogOK
<1>4. (log # <<>> => EndsWith(hits, log[Len(log)].now))'
  BY DEF TelInv, EndsWith
<1>5. h' = h /\ l' = l /\ e' = e /\ hits' = h /\ latencies' = l /\ errors' = e
  BY <1>1
<1>6. /\ DequeOK(h, HitsWindow, FALSE)' = DequeOK(hits, HitsWindow, FALSE)'
      /\ DequeOK(l, LatenciesWindow, FALSE)' = DequeOK(latencies, LatenciesWindow, FALSE)'
      /\ DequeOK(e, ErrorsWindow, TRUE)' = DequeOK(errors, ErrorsWindow, TRUE)'
  BY <1>5, Zenon
<1> QED BY <1>2, <1>3, <1>4, <1>6

LEMMA BusyCount ==
  ASSUME TelemetryAssumption, TelInv
  PROVE  IsFiniteSet(Busy) /\ Cardinality(Busy) \in Nat /\ Len(log) \in Nat
<1>1. IsFiniteSet(Threads) /\ Busy \in SUBSET Threads
  BY DEF TelemetryAssumption, Busy
<1> QED BY <1>1, FS_Subset, FS_CardinalityType DEF TelInv, LogOK

LEMMA TickInv ==
  ASSUME TelemetryAssumption, TelInv, Tick
  PROVE  TelInv'
<1>1. clock' \in Nat /\ clock <= clock' /\ clock' <= MaxTime /\ UNCHANGED <<hits, latencies, errors, thread, log>>
  BY Windows DEF Tick, TelInv
<1>2. /\ DequeOK(hits, HitsWindow, FALSE)' /\ DequeOK(latencies, LatenciesWindow, FALSE)'
      /\ DequeOK(errors, ErrorsWindow, TRUE)' /\ LogOK'
      /\ (log # <<>> => EndsWith(hits, log[Len(log)].now))'
  BY <1>1, DequesRest
<1>3. ASSUME NEW t \in Threads PROVE ThreadOK(t)'
  <2>1. thread[t] = Away \/ (thread[t].now \in Nat /\ thread[t].now <= clock /\ thread[t] \in Requests)
    BY DEF TelInv, ThreadOK, Requests
  <2> QED BY <1>1, <2>1 DEF TelInv, ThreadOK, Away, Requests
<1>4. (Len(log) + Cardinality(Busy) <= MaxRequests)'
  BY <1>1 DEF TelInv, Busy, Away
<1> QED BY <1>1, <1>2, <1>3, <1>4 DEF TelInv

LEMMA ThreadMoves ==
  ASSUME TelInv, NEW t \in Threads, NEW x, thread' = [thread EXCEPT ![t] = x]
  PROVE  /\ thread'[t] = x
         /\ \A u \in Threads \ {t} : thread'[u] = thread[u]
         /\ thread' = [u \in Threads |-> thread'[u]]
BY DEF TelInv

LEMMA ReadClockInv ==
  ASSUME TelemetryAssumption, TelInv, NEW t \in Threads, NEW error \in BOOLEAN, ReadClock(t, error)
  PROVE  TelInv'
<1> PICK x : x = [now |-> clock, error |-> error]
  OBVIOUS
<1>1. /\ thread[t] = Away /\ thread' = [thread EXCEPT ![t] = x]
      /\ UNCHANGED <<clock, hits, latencies, errors, log>>
      /\ Len(log) + Cardinality(Busy) < MaxRequests
  BY DEF ReadClock, Busy
<1>2. x \in Requests /\ x.now = clock /\ x # Away /\ clock \in Nat
  BY DEF Requests, Away, TelInv
<1>3. /\ DequeOK(hits, HitsWindow, FALSE)' /\ DequeOK(latencies, LatenciesWindow, FALSE)'
      /\ DequeOK(errors, ErrorsWindow, TRUE)' /\ LogOK'
      /\ (log # <<>> => EndsWith(hits, log[Len(log)].now))'
  <2>1. clock <= clock' /\ clock' \in Nat
    BY <1>1, <1>2
  <2> QED BY <1>1, <2>1, DequesRest
<1>4. /\ thread'[t] = x
      /\ \A u \in Threads \ {t} : thread'[u] = thread[u]
      /\ thread' = [u \in Threads |-> thread'[u]]
  BY <1>1, ThreadMoves
<1>5. ASSUME NEW u \in Threads PROVE ThreadOK(u)'
  <2>1. CASE u = t
    <3>1. x.now <= clock'
      BY <1>1, <1>2
    <3> QED BY <1>2, <1>4, <2>1, <3>1 DEF ThreadOK, Requests
  <2>2. CASE u # t
    BY <1>1, <1>4, <2>2 DEF TelInv, ThreadOK, Away, Requests
  <2> QED BY <2>1, <2>2
<1>6. (Len(log) + Cardinality(Busy) <= MaxRequests)'
  <2>1. Busy' = Busy \cup {t} /\ t \notin Busy
    BY <1>1, <1>2, <1>4 DEF Busy, Away
  <2>2. ASSUME NEW B, IsFiniteSet(B), t \notin B PROVE Cardinality(B \cup {t}) = Cardinality(B) + 1
    BY <2>2, FS_AddElement
  <2>3. Cardinality(Busy') = Cardinality(Busy) + 1
    BY <2>1, <2>2, BusyCount
  <2> QED BY <1>1, <2>3, BusyCount, Windows
<1> QED BY <1>1, <1>3, <1>4, <1>5, <1>6 DEF TelInv

LEMMA RecordInv ==
  ASSUME TelemetryAssumption, TelInv, NEW t \in Threads, Record(t)
  PROVE  TelInv'
<1> PICK r, h, l, e : r = thread[t] /\ h = hits /\ l = latencies /\ e = errors
  OBVIOUS
<1>1. /\ thread[t] # Away /\ thread' = [thread EXCEPT ![t] = Away]
      /\ hits' = Pruned(Append(h, r.now), r.now, HitsWindow)
      /\ latencies' = Pruned(Append(l, r.now), r.now, LatenciesWindow)
      /\ errors' = Pruned(IF r.error THEN Append(e, r.now) ELSE e, r.now, ErrorsWindow)
      /\ log' = Append(log, r) /\ clock' = clock
  BY Zenon DEF Record
<1>2. r \in Requests /\ r.now <= clock /\ r.error \in BOOLEAN /\ clock \in Nat /\ LogOK
  BY <1>1 DEF TelInv, ThreadOK, Requests
<1>3. DequeOK(hits, HitsWindow, FALSE)' /\ EndsWith(hits', r.now)
  <2> PICK p : p = hits'
    OBVIOUS
  <2> PICK put \in BOOLEAN : put
    OBVIOUS
  <2>1. p = Pruned(Put(h, r.now, put), r.now, HitsWindow)
    BY <1>1 DEF Put
  <2>2. put <=> (FALSE => r.error)
    OBVIOUS
  <2>3. DequeOK(h, HitsWindow, FALSE)
    BY DEF TelInv
  <2>4. DequeOK(p, HitsWindow, FALSE)' /\ (put => EndsWith(p, r.now))
    BY <1>1, <1>2, <2>1, <2>2, <2>3, DequeRecord, Windows
  <2> QED BY <2>4 DEF DequeOK, Between, Covers, Since, Fresh, Ascending, EndsWith
<1>4. DequeOK(latencies, LatenciesWindow, FALSE)'
  <2> PICK p : p = latencies'
    OBVIOUS
  <2> PICK put \in BOOLEAN : put
    OBVIOUS
  <2>1. p = Pruned(Put(l, r.now, put), r.now, LatenciesWindow)
    BY <1>1 DEF Put
  <2>2. put <=> (FALSE => r.error)
    OBVIOUS
  <2>3. DequeOK(l, LatenciesWindow, FALSE)
    BY DEF TelInv
  <2>4. DequeOK(p, LatenciesWindow, FALSE)'
    BY <1>1, <1>2, <2>1, <2>2, <2>3, DequeRecord, Windows
  <2> QED BY <2>4 DEF DequeOK, Between, Covers, Since, Fresh, Ascending
<1>5. DequeOK(errors, ErrorsWindow, TRUE)'
  <2> PICK p : p = errors'
    OBVIOUS
  <2> PICK put \in BOOLEAN : put = r.error
    BY <1>2
  <2>1. p = Pruned(Put(e, r.now, put), r.now, ErrorsWindow)
    BY <1>1, Zenon DEF Put
  <2>2. put <=> (TRUE => r.error)
    OBVIOUS
  <2>3. DequeOK(e, ErrorsWindow, TRUE)
    BY DEF TelInv
  <2>4. DequeOK(p, ErrorsWindow, TRUE)'
    BY <1>1, <1>2, <2>1, <2>2, <2>3, DequeRecord, Windows
  <2> QED BY <2>4 DEF DequeOK, Between, Covers, Since, Fresh, Ascending
<1>6. /\ log' \in Seq(Requests) /\ Len(log) \in Nat /\ Len(log') = Len(log) + 1
      /\ log'[Len(log')] = r /\ \A i \in 1 .. Len(log) : log'[i] = log[i]
  BY <1>1, <1>2, LogGrows
<1>7. LogOK'
  <2>1. \A i \in 1 .. Len(log') : log'[i].now <= clock'
    BY <1>1, <1>2, <1>6 DEF LogOK
  <2> QED BY <1>6, <2>1 DEF LogOK
<1>8. /\ thread'[t] = Away
      /\ \A u \in Threads \ {t} : thread'[u] = thread[u]
      /\ thread' = [u \in Threads |-> thread'[u]]
  BY <1>1, ThreadMoves
<1>9. \A u \in Threads : ThreadOK(u)'
  BY <1>1, <1>8 DEF TelInv, ThreadOK, Away, Requests
<1>10. (Len(log) + Cardinality(Busy) <= MaxRequests)'
  <2>1. Busy' = Busy \ {t} /\ t \in Busy
    BY <1>1, <1>8 DEF Busy, Away
  <2>2. ASSUME NEW B, IsFiniteSet(B), t \in B PROVE Cardinality(B \ {t}) = Cardinality(B) - 1
    BY <2>2, FS_RemoveElement
  <2>3. Cardinality(Busy') = Cardinality(Busy) - 1
    BY <2>1, <2>2, BusyCount
  <2>4. Len(log) + Cardinality(Busy) <= MaxRequests
    BY DEF TelInv
  <2> QED BY <1>6, <2>3, <2>4, BusyCount, Windows
<1>11. (log # <<>> => EndsWith(hits, log[Len(log)].now))'
  BY <1>3, <1>6 DEF EndsWith
<1> QED BY <1>1, <1>2, <1>3, <1>4, <1>5, <1>7, <1>8, <1>9, <1>10, <1>11 DEF TelInv

LEMMA StepInv ==
  ASSUME TelemetryAssumption, TelInv, [TelemetryNext]_telVars
  PROVE  TelInv'
<1>1. CASE UNCHANGED telVars
  <2>1. /\ UNCHANGED <<clock, hits, latencies, errors, thread, log>>
        /\ clock \in Nat /\ clock' \in Nat /\ clock <= clock' /\ clock' <= MaxTime
    BY <1>1 DEF telVars, TelInv
  <2>2. /\ DequeOK(hits, HitsWindow, FALSE)' /\ DequeOK(latencies, LatenciesWindow, FALSE)'
        /\ DequeOK(errors, ErrorsWindow, TRUE)' /\ LogOK'
        /\ (log # <<>> => EndsWith(hits, log[Len(log)].now))'
    BY <2>1, DequesRest
  <2>3. \A t \in Threads : ThreadOK(t)'
    BY <2>1 DEF TelInv, ThreadOK, Away, Requests
  <2>4. (Len(log) + Cardinality(Busy) <= MaxRequests)'
    BY <2>1 DEF TelInv, Busy, Away
  <2> QED BY <2>1, <2>2, <2>3, <2>4 DEF TelInv
<1>2. CASE Tick
  BY <1>2, TickInv
<1>3. ASSUME NEW t \in Threads, Record(t) PROVE TelInv'
  BY <1>3, RecordInv
<1>4. ASSUME NEW t \in Threads, NEW error \in BOOLEAN, ReadClock(t, error) PROVE TelInv'
  BY <1>4, ReadClockInv
<1> QED BY <1>1, <1>2, <1>3, <1>4 DEF TelemetryNext

LEMMA Invariance == TelemetrySpec => []TelInv
<1>1. TelemetryInit => TelInv
  BY TelemetryAssumption, InitInv
<1>2. TelInv /\ [TelemetryNext]_telVars => TelInv'
  BY TelemetryAssumption, StepInv
<1> QED BY <1>1, <1>2, PTL DEF TelemetrySpec

-----------------------------------------------------------------------------
(* The clock, the threads' times and the deques' stay within their types    *)
(* and the log within its bound: Telemetry::record_request.                 *)
THEOREM Typing == TelemetrySpec => []TelTypeOK
<1>1. ASSUME TelInv PROVE TelTypeOK
  <2>1. clock \in 0 .. MaxTime
    BY <1>1, Windows, TelemetryAssumption DEF TelInv
  <2>2. ASSUME NEW d, d \in Seq(Nat), Between(d, 0, clock) PROVE Range(d) \subseteq 0 .. clock
    <3> SUFFICES ASSUME NEW i \in 1 .. Len(d) PROVE d[i] \in 0 .. clock
      BY <2>2 DEF Range
    <3>1. d[i] \in Nat /\ d[i] <= clock
      BY <2>2 DEF Between
    <3> QED BY <1>1, <3>1 DEF TelInv
  <2>3. \A d \in {hits, latencies, errors} : Range(d) \subseteq 0 .. clock /\ Len(d) <= Len(log)
    BY <1>1, <2>2 DEF TelInv, DequeOK
  <2>4. ASSUME NEW t \in Threads PROVE thread[t].now \in -1 .. clock /\ thread[t].error \in BOOLEAN
    <3>1. CASE thread[t] = Away
      <4>1. Away.now = -1 /\ Away.error = FALSE /\ clock \in Nat
        BY <1>1 DEF Away, TelInv
      <4>2. Away.now \in -1 .. clock
        BY <4>1
      <4>3. Away.error \in BOOLEAN
        BY <4>1
      <4> QED BY <3>1, <4>2, <4>3
    <3>2. CASE thread[t] \in Requests /\ thread[t].now <= clock
      BY <1>1, <3>2 DEF Requests, TelInv
    <3> QED BY <1>1, <3>1, <3>2 DEF TelInv, ThreadOK
  <2>5. Len(log) <= MaxRequests
    <3>1. Cardinality(Busy) \in Nat /\ Len(log) \in Nat /\ MaxRequests \in Nat
      BY <1>1, BusyCount, Windows, TelemetryAssumption
    <3>2. Len(log) + Cardinality(Busy) <= MaxRequests
      BY <1>1 DEF TelInv
    <3> QED BY <3>1, <3>2
  <2> QED BY <2>1, <2>3, <2>4, <2>5 DEF TelTypeOK
<1> QED BY <1>1, Invariance, PTL

(* A deque that covers the log has all that was recorded since a time by    *)
(* which nothing was pruned.                                                *)
LEMMA CompleteNow ==
  ASSUME TelInv, NEW d, NEW window \in Nat, NEW failed, DequeOK(d, window, failed)
  PROVE  Complete(d, window, failed)
<1>1. clock \in Nat /\ clock - window \in Int
  BY DEF TelInv
<1>2. Kept(clock - window, window)
  <2>1. \A i \in 1 .. Len(log) : log[i].now \in Nat /\ log[i].now <= clock
    <3>1. \A i \in 1 .. Len(log) : log[i] \in Requests
      BY DEF TelInv, LogOK
    <3> QED BY <3>1 DEF TelInv, LogOK, Requests
  <2> QED BY <1>1, <2>1 DEF Kept
<1> QED BY <1>1, <1>2 DEF Complete, DequeOK, Covers

(* No recorded request is lost before it leaves its window, in whatever     *)
(* order threads get the mutex: prune_old.                                  *)
THEOREM NothingIsLost == TelemetrySpec => []NothingUnderreported
<1>1. ASSUME TelInv PROVE NothingUnderreported
  <2>1. /\ Complete(hits, HitsWindow, FALSE)
        /\ Complete(latencies, LatenciesWindow, FALSE)
        /\ Complete(errors, ErrorsWindow, TRUE)
    BY <1>1, CompleteNow, Windows, TelemetryAssumption DEF TelInv
  <2>2. errors \in Seq(Nat) /\ clock - ErrorsWindow \in Int
    BY <1>1, Windows, TelemetryAssumption DEF TelInv, DequeOK
  <2>3. Cardinality(Since(errors, clock - ErrorsWindow)) <= Len(errors)
        /\ Cardinality(Since(errors, clock - ErrorsWindow)) \in Nat /\ Len(errors) \in Nat
    BY <2>2, SinceFinite
  <2> QED BY <2>1, <2>3 DEF NothingUnderreported, Complete, ErrorsLastMin
<1> QED BY <1>1, Invariance, PTL

(* In an ascending list the entries at or after an edge are those that      *)
(* follow the last entry before it, the k-th from the end.                  *)
AtOrAfter(d, n, edge) == {j \in 1 .. n : d[j] >= edge}

LEMMA AfterTheEdge ==
  ASSUME NEW n \in Nat, NEW d, NEW edge \in Int, NEW k \in 1 .. n,
         \A i \in 1 .. n : d[i] \in Nat,
         \A i, j \in 1 .. n : i < j => d[i] <= d[j],
         d[n - k + 1] < edge,
         \A m \in 1 .. n : d[n - m + 1] < edge => k <= m
  PROVE  AtOrAfter(d, n, edge) = n - k + 2 .. n
<1>1. ASSUME NEW j \in 1 .. n, j <= n - k + 1 PROVE ~ (d[j] >= edge)
  <2>1. n - k + 1 \in 1 .. n
    OBVIOUS
  <2>2. j = n - k + 1 \/ j < n - k + 1
    BY <1>1
  <2>3. d[j] <= d[n - k + 1]
    BY <2>1, <2>2
  <2> QED BY <2>1, <2>3
<1>2. ASSUME NEW j \in n - k + 2 .. n PROVE j \in 1 .. n /\ d[j] >= edge
  <2>1. j \in 1 .. n /\ n - j + 1 \in 1 .. n /\ n - (n - j + 1) + 1 = j /\ ~ (k <= n - j + 1)
    OBVIOUS
  <2>2. ~ (d[j] < edge)
    BY <2>1
  <2> QED BY <2>1, <2>2
<1>3. ASSUME NEW j \in 1 .. n, ~ (j <= n - k + 1) PROVE j \in n - k + 2 .. n
  BY <1>3
<1> QED BY <1>1, <1>2, <1>3 DEF AtOrAfter

LEMMA CountFrom ==
  ASSUME NEW n \in Nat, NEW k \in 1 .. n
  PROVE  Cardinality(n - k + 2 .. n) = k - 1
<1> PICK a : a = n - k + 2
  OBVIOUS
<1>1. a \in Int /\ n \in Int
  OBVIOUS
<1>2. Cardinality(a .. n) = IF a > n THEN 0 ELSE n - a + 1
  BY <1>1, FS_Interval
<1> QED BY <1>2

(* The entries before the edge, counted from the back: what the loop of     *)
(* RpsNow looks for.                                                        *)
LEMMA FromTheBack ==
  ASSUME NEW n \in Nat, NEW d, NEW back, NEW window \in Nat, NEW last \in Nat,
         \A i \in 1 .. n : d[i] \in Nat, d[n] = last,
         \A i \in 1 .. n : back[i] = d[n - i + 1],
         NEW i \in 1 .. n
  PROVE  d[n] - back[i] > window <=> d[n - i + 1] < last - window
<1>1. n - i + 1 \in 1 .. n
  OBVIOUS
<1>2. d[n - i + 1] \in Nat /\ back[i] = d[n - i + 1]
  BY <1>1
<1> QED BY <1>2

LEMMA ListOf ==
  ASSUME NEW d, d \in Seq(Nat), NEW last, EndsWith(d, last)
  PROVE  /\ Len(d) \in Nat /\ Len(d) >= 1 /\ d[Len(d)] = last
         /\ \A i \in 1 .. Len(d) : d[i] \in Nat
         /\ DOMAIN d = 1 .. Len(d)
         /\ Len(Reverse(d)) = Len(d)
         /\ \A i \in 1 .. Len(d) : Reverse(d)[i] = d[Len(d) - i + 1]
<1>1. Len(d) \in Nat /\ DOMAIN d = 1 .. Len(d) /\ \A i \in 1 .. Len(d) : d[i] \in Nat
  OBVIOUS
<1>2. Len(d) >= 1 /\ d[Len(d)] = last
  BY <1>1 DEF EndsWith
<1>3. Reverse(d) = [i \in 1 .. Len(d) |-> d[Len(d) - i + 1]]
  BY DEF Reverse
<1>4. Reverse(d) \in Seq(Nat) /\ Len(Reverse(d)) = Len(d)
  <2>1. \A i \in 1 .. Len(d) : d[Len(d) - i + 1] \in Nat
    <3> SUFFICES ASSUME NEW i \in 1 .. Len(d) PROVE d[Len(d) - i + 1] \in Nat
      OBVIOUS
    <3>1. Len(d) - i + 1 \in 1 .. Len(d)
      BY <1>1
    <3> QED BY <1>1, <3>1
  <2> QED BY <1>1, <1>3, <2>1
<1> QED BY <1>1, <1>2, <1>3, <1>4

(* The rate counts the entries from the first one in the last second on.    *)
LEMMA RateCount ==
  ASSUME TelemetryAssumption, NEW d, d \in Seq(Nat), Ascending(d), NEW last, EndsWith(d, last)
  PROVE  RpsNow(d) = Cardinality(Since(d, last - RateWindow))
<1> PICK n, back : n = Len(d) /\ back = Reverse(d)
  OBVIOUS
<1> DEFINE I == {i \in 1 .. n : d[n] - back[i] > RateWindow}
           first == IF I # {} THEN Min(I) ELSE 0
           edge == last - RateWindow
<1>1. /\ n \in Nat /\ n >= 1 /\ d[n] = last /\ \A i \in 1 .. n : d[i] \in Nat
      /\ DOMAIN d = 1 .. n
      /\ Len(back) = n /\ \A i \in 1 .. n : back[i] = d[n - i + 1]
  BY ListOf
<1>2. RpsNow(d) = IF first = 0 THEN n ELSE first - 1
  BY <1>1 DEF RpsNow, SelectInSeq
<1>3. RateWindow \in Nat /\ last \in Nat /\ edge \in Int
  <2>1. RateWindow \in Nat
    BY Windows
  <2>2. last \in Nat
    BY ONLY <1>1
  <2> QED BY ONLY <2>1, <2>2
<1>4. \A i, j \in 1 .. n : i < j => d[i] <= d[j]
  BY DEF Ascending
<1>5. \A i \in 1 .. n : i \in I <=> d[n - i + 1] < edge
  BY ONLY <1>1, <1>3, FromTheBack
<1>6. I \in SUBSET Nat /\ \A i \in I : i \in 1 .. n
  BY ONLY <1>1
<1>7. Since(d, edge) = AtOrAfter(d, n, edge)
  BY ONLY <1>1 DEF Since, AtOrAfter
<1> HIDE DEF I, edge
<1>8. CASE I = {}
  <2>1. RpsNow(d) = n
    BY <1>2, <1>8
  <2>2. ASSUME NEW j \in 1 .. n PROVE d[j] >= edge
    <3>1. n - j + 1 \in 1 .. n /\ n - (n - j + 1) + 1 = j
      BY ONLY <1>1, <2>2
    <3>2. n - j + 1 \notin I
      BY ONLY <1>8
    <3>3. ~ (d[j] < edge)
      BY ONLY <1>5, <3>1, <3>2
    <3>4. d[j] \in Nat
      BY ONLY <1>1, <2>2
    <3> QED BY ONLY <1>3, <3>3, <3>4
  <2>3. Since(d, edge) = 1 .. n
    BY ONLY <1>7, <2>2 DEF AtOrAfter
  <2>4. Cardinality(1 .. n) = n
    BY ONLY <1>1, CountTo
  <2> QED BY <2>1, <2>3, <2>4 DEF edge
<1>9. CASE I # {}
  <2>1. PICK k : k = Min(I)
    OBVIOUS
  <2>2. k \in I /\ \A m \in I : k <= m
    BY ONLY <1>6, <1>9, <2>1, MinIsLeast
  <2>3. k \in 1 .. n
    BY ONLY <1>6, <2>2
  <2>4. first = k
    BY <1>9, <2>1
  <2> HIDE DEF first
  <2>5. RpsNow(d) = k - 1
    BY ONLY <1>1, <1>2, <2>3, <2>4
  <2>6. d[n - k + 1] < edge /\ \A m \in 1 .. n : d[n - m + 1] < edge => k <= m
    BY ONLY <1>5, <2>2, <2>3
  <2>7. AtOrAfter(d, n, edge) = n - k + 2 .. n
    <3>1. n \in Nat /\ edge \in Int /\ k \in 1 .. n
      BY ONLY <1>1, <1>3, <2>3
    <3>2. \A i \in 1 .. n : d[i] \in Nat
      BY ONLY <1>1
    <3> QED BY ONLY <1>4, <2>6, <3>1, <3>2, AfterTheEdge, Zenon
  <2>8. Cardinality(n - k + 2 .. n) = k - 1
    BY ONLY <1>1, <2>3, CountFrom
  <2>9. Cardinality(Since(d, edge)) = k - 1
    BY ONLY <1>7, <2>7, <2>8, Zenon
  <2> QED BY <2>5, <2>9 DEF edge
<1> QED BY <1>8, <1>9

(* In a log in order the last request is the latest.                        *)
LEMMA LastIsLatest ==
  ASSUME TelInv, InOrder, log # <<>>
  PROVE  \A i \in 1 .. Len(log) : log[i].now <= log[Len(log)].now
<1> PICK l, n : l = log /\ n = Len(log)
  OBVIOUS
<1>1. /\ n \in Nat /\ n >= 1 /\ \A i \in 1 .. n : l[i].now \in Nat
      /\ \A i \in 1 .. n - 1 : l[i].now <= l[i + 1].now
  <2>1. log \in Seq(Requests)
    BY DEF TelInv, LogOK
  <2>2. \A i \in 1 .. n : l[i] \in Requests
    BY <2>1
  <2> QED BY <2>1, <2>2 DEF InOrder, Requests
<1> DEFINE S == {k \in 0 .. n - 1 : l[n - k].now <= l[n].now}
<1>2. n - 1 \in Nat /\ 0 \in S
  BY <1>1
<1>3. ASSUME NEW k \in 0 .. n - 1 - 1, k \in S PROVE k + 1 \in S
  <2>1. n - (k + 1) \in 1 .. n - 1 /\ n - (k + 1) + 1 = n - k /\ n - k \in 1 .. n /\ n - (k + 1) \in 1 .. n
    BY <1>1
  <2>2. l[n - (k + 1)].now <= l[n - k].now
    BY <1>1, <2>1
  <2>3. l[n - (k + 1)].now \in Nat /\ l[n - k].now \in Nat /\ l[n].now \in Nat /\ l[n - k].now <= l[n].now
    BY <1>1, <1>3, <2>1
  <2>4. l[n - (k + 1)].now <= l[n].now
    BY <2>2, <2>3
  <2> QED BY <1>1, <2>4
<1> HIDE DEF S
<1>4. 0 .. n - 1 \subseteq S
  BY <1>2, <1>3, UpTo
<1>5. ASSUME NEW i \in 1 .. n PROVE l[i].now <= l[n].now
  <2>1. n - i \in S /\ n - (n - i) = i
    BY <1>1, <1>4
  <2> QED BY <2>1 DEF S
<1> QED BY <1>5

LEMMA CountKept ==
  ASSUME NEW d, NEW window, NEW failed, DequeOK(d, window, failed),
         NEW time \in Int, Kept(time, window)
  PROVE  Cardinality(Since(d, time)) = Cardinality(RecordedSince(failed, time))
BY DEF DequeOK, Covers

(* With requests recorded in the order of their times, METRICS reports      *)
(* exactly what had happened as of the last one: snapshot_json.             *)
THEOREM ReportIsExact == TelemetrySpec => []ReportExactAtLastRequest
<1>1. ASSUME TelInv PROVE ReportExactAtLastRequest
  <2> SUFFICES ASSUME log # <<>>, InOrder
               PROVE  LET last == Last(log).now
                      IN  /\ RpsNow(hits) = Cardinality(RecordedSince(FALSE, last - RateWindow))
                          /\ ErrorsLastMin = Cardinality(RecordedSince(TRUE, last - ErrorsWindow))
    BY DEF ReportExactAtLastRequest, InOrder
  <2> PICK last : last = log[Len(log)].now
    OBVIOUS
  <2>1. Last(log).now = last
    BY DEF Last
  <2>2. /\ HitsWindow \in Nat /\ ErrorsWindow \in Nat /\ RateWindow \in Nat /\ RateWindow <= HitsWindow
    BY Windows, TelemetryAssumption DEF TelemetryAssumption
  <2>3. last \in Nat
    <3>1. log \in Seq(Requests) /\ Len(log) \in 1 .. Len(log)
      BY <1>1 DEF TelInv, LogOK
    <3>2. log[Len(log)] \in Requests
      BY <3>1
    <3> QED BY <3>2 DEF Requests
  <2>4. \A i \in 1 .. Len(log) : log[i].now \in Nat /\ log[i].now <= last
    <3>1. \A i \in 1 .. Len(log) : log[i] \in Requests
      BY <1>1 DEF TelInv, LogOK
    <3> QED BY <1>1, <3>1, LastIsLatest DEF Requests
  <2>5. Kept(last - RateWindow, HitsWindow) /\ Kept(last - ErrorsWindow, ErrorsWindow)
    <3>1. \A i \in 1 .. Len(log) : last - RateWindow >= log[i].now - HitsWindow
      BY <2>2, <2>3, <2>4
    <3>2. \A i \in 1 .. Len(log) : last - ErrorsWindow >= log[i].now - ErrorsWindow
      BY <2>2, <2>3, <2>4
    <3> QED BY <3>1, <3>2 DEF Kept
  <2>6. RpsNow(hits) = Cardinality(Since(hits, last - RateWindow))
    <3>1. hits \in Seq(Nat) /\ Ascending(hits)
      BY <1>1 DEF TelInv, DequeOK, Fresh
    <3>2. EndsWith(hits, last)
      BY <1>1 DEF TelInv
    <3> QED BY <3>1, <3>2, TelemetryAssumption, RateCount
  <2>7. Cardinality(Since(hits, last - RateWindow)) = Cardinality(RecordedSince(FALSE, last - RateWindow))
    <3>1. last - RateWindow \in Int
      BY <2>2, <2>3
    <3>2. DequeOK(hits, HitsWindow, FALSE)
      BY <1>1 DEF TelInv
    <3> QED BY <2>5, <3>1, <3>2, CountKept
  <2>8. Len(errors) = Cardinality(Since(errors, last - ErrorsWindow))
    <3>1. /\ errors \in Seq(Nat) /\ Between(errors, last - ErrorsWindow, last)
      BY <1>1 DEF TelInv, DequeOK, Fresh
    <3>2. Since(errors, last - ErrorsWindow) = 1 .. Len(errors)
      <4>1. \A i \in 1 .. Len(errors) : errors[i] \in Nat /\ last - ErrorsWindow <= errors[i]
        BY <3>1 DEF Between
      <4> QED BY <2>2, <2>3, <3>1, <4>1 DEF Since
    <3>3. Len(errors) \in Nat
      BY <3>1
    <3>4. Cardinality(1 .. Len(errors)) = Len(errors)
      BY <3>3, CountTo
    <3> QED BY <3>2, <3>4
  <2>9. Cardinality(Since(errors, last - ErrorsWindow)) = Cardinality(RecordedSince(TRUE, last - ErrorsWindow))
    <3>1. last - ErrorsWindow \in Int
      BY <2>2, <2>3
    <3>2. DequeOK(errors, ErrorsWindow, TRUE)
      BY <1>1 DEF TelInv
    <3> QED BY <2>5, <3>1, <3>2, CountKept
  <2> QED BY <2>1, <2>6, <2>7, <2>8, <2>9 DEF ErrorsLastMin
<1> QED BY <1>1, Invariance, PTL
=============================================================================
