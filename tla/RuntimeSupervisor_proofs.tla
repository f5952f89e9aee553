---------------------- MODULE RuntimeSupervisor_proofs ----------------------
(***************************************************************************)
(* Proofs about RuntimeSupervisor, for any grace, window, restart budget   *)
(* and cooldown, any number of start-ups, of cycles that are cut short and *)
(* of state files that come out blank.                                     *)
(***************************************************************************)
EXTENDS RuntimeSupervisor, TableLemmas

-----------------------------------------------------------------------------
(* Lemmas about lists of ages.                                             *)

Ages == Seq(0 .. Window)

\* What a list of ages is.
LEMMA AgesAre ==
    ASSUME NEW s \in Ages
    PROVE  /\ Len(s) \in Nat /\ DOMAIN s = 1 .. Len(s)
           /\ \A i \in 1 .. Len(s) : s[i] \in Nat /\ s[i] \in 0 .. Window
<1>1. /\ Len(s) \in Nat /\ DOMAIN s = 1 .. Len(s)
      /\ \A i \in 1 .. Len(s) : s[i] \in 0 .. Window
  BY LenProperties, ElementOfSeq DEF Ages
<1>2. QED
  BY <1>1

\* A function on the first numbers is a sequence.
LEMMA FunctionIsList ==
    ASSUME NEW S, NEW n \in Nat, NEW f \in [1 .. n -> S]
    PROVE  f \in Seq(S) /\ Len(f) = n
OBVIOUS

\* Some first numbers, as many as they are.
LEMMA FirstNumbers ==
    ASSUME NEW n \in Nat, NEW S \in SUBSET (1 .. n),
           \A i \in S, j \in 1 .. n : j <= i => j \in S
    PROVE  /\ Cardinality(S) \in Nat /\ Cardinality(S) <= n
           /\ S = 1 .. Cardinality(S)
<1> DEFINE c == Cardinality(S)
<1>1. IsFiniteSet(1 .. n) /\ Cardinality(1 .. n) = n
  BY FS_Interval
<1>2. IsFiniteSet(S) /\ c \in Nat /\ c <= n
  BY <1>1, FS_Subset, FS_CardinalityType
<1>3. ASSUME NEW i \in S PROVE i <= c
  <2>1. (1 .. i) \in SUBSET S
    OBVIOUS
  <2>2. Cardinality(1 .. i) <= c
    BY <1>2, <2>1, FS_Subset
  <2>3. Cardinality(1 .. i) = i
    BY FS_Interval
  <2>4. QED
    BY <2>2, <2>3
<1> HIDE DEF c
<1>4. S \in SUBSET (1 .. c)
  BY <1>2, <1>3
<1>5. IsFiniteSet(1 .. c) /\ Cardinality(1 .. c) = c
  BY <1>2, FS_Interval
<1>6. S = 1 .. c
  BY <1>4, <1>5, FS_Subset DEF c
<1>7. QED
  BY <1>2, <1>6 DEF c

\* A moment later: what was in the window is a moment older, counted from the
\* newest, and what was at its edge has left.
LEMMA Aging ==
    ASSUME NEW s \in Ages, OldestFirst(s)
    PROVE  /\ OlderAll(s) \in Ages /\ OldestFirst(OlderAll(s))
           /\ Len(OlderAll(s)) <= Len(s)
           /\ \A k \in Nat : k < Len(s) =>
                 (k < Len(OlderAll(s)) <=> s[Len(s) - k] < Window)
           /\ \A k \in Nat : k < Len(OlderAll(s)) =>
                 OlderAll(s)[Len(OlderAll(s)) - k] = s[Len(s) - k] + 1
<1> DEFINE n == Len(s)
           S == {i \in DOMAIN s : s[i] >= Window}
           left == Cardinality(S)
<1>1. /\ n \in Nat /\ DOMAIN s = 1 .. n /\ \A i \in 1 .. n : s[i] \in 0 .. Window
      /\ Window \in Nat
  BY LenProperties, ElementOfSeq, SupervisorAssumption DEF Ages
<1>2. \A i \in S, j \in 1 .. n : j <= i => j \in S
  <2>1. SUFFICES ASSUME NEW i \in S, NEW j \in 1 .. n, j <= i PROVE j \in S
    OBVIOUS
  <2>2. i \in 1 .. n /\ s[i] >= Window /\ s[j] >= s[i]
    BY <1>1, <2>1 DEF OldestFirst
  <2>3. QED
    BY <1>1, <2>2
<1>3. S \in SUBSET (1 .. n)
  BY <1>1
<1>4. left \in Nat /\ left <= n /\ S = 1 .. left
  BY <1>1, <1>2, <1>3, FirstNumbers
<1>5. OlderAll(s) = [i \in 1 .. n - left |-> s[i + left] + 1]
  BY DEF OlderAll
<1>6. \A i \in 1 .. n : i <= left <=> s[i] >= Window
  <2>1. \A i \in 1 .. n : i \in S <=> s[i] >= Window
    BY <1>1
  <2>2. \A i \in 1 .. n : i \in 1 .. left <=> i <= left
    BY <1>1, <1>4
  <2>3. QED
    BY <1>4, <2>1, <2>2
<1> HIDE DEF n, S, left
<1>7. \A i \in 1 .. n - left : s[i + left] + 1 \in 0 .. Window
  <2>1. SUFFICES ASSUME NEW i \in 1 .. n - left PROVE s[i + left] + 1 \in 0 .. Window
    OBVIOUS
  <2>2. i + left \in 1 .. n /\ ~(i + left <= left)
    BY <1>1, <1>4
  <2>3. QED
    BY <1>1, <1>6, <2>2
<1>8. n - left \in Nat
  BY <1>1, <1>4
<1>9. /\ OlderAll(s) \in Ages /\ Len(OlderAll(s)) = n - left
      /\ DOMAIN OlderAll(s) = 1 .. n - left
  <2> DEFINE m == n - left
  <2>1. m \in Nat
    BY <1>8
  <2>2. OlderAll(s) = [i \in 1 .. m |-> s[i + left] + 1]
    BY <1>5
  <2>3. \A i \in 1 .. m : s[i + left] + 1 \in 0 .. Window
    BY <1>7
  <2> HIDE DEF m
  <2>4. OlderAll(s) \in [1 .. m -> 0 .. Window]
    BY <2>2, <2>3
  <2>5. OlderAll(s) \in Seq(0 .. Window) /\ Len(OlderAll(s)) = m
    BY <2>1, <2>4, FunctionIsList
  <2>6. QED
    BY <2>4, <2>5 DEF m, Ages
<1>10. OldestFirst(OlderAll(s))
  <2>1. SUFFICES ASSUME NEW i \in 1 .. n - left, NEW j \in 1 .. n - left, i <= j
                 PROVE  OlderAll(s)[i] >= OlderAll(s)[j]
    BY <1>9 DEF OldestFirst
  <2>2. i + left \in 1 .. n /\ j + left \in 1 .. n /\ i + left <= j + left
    BY <1>1, <1>4, <2>1
  <2>3. s[i + left] >= s[j + left] /\ s[i + left] \in Nat /\ s[j + left] \in Nat
    BY <1>1, <2>2 DEF OldestFirst
  <2>4. QED
    BY <1>5, <2>3
<1>11. ASSUME NEW k \in Nat, k < n
       PROVE  k < n - left <=> s[n - k] < Window
  <2>1. n - k \in 1 .. n /\ (k < n - left <=> ~(n - k <= left))
    BY <1>1, <1>4, <1>11
  <2>2. QED
    BY <1>1, <1>6, <2>1
<1>12. ASSUME NEW k \in Nat, k < n - left
       PROVE  OlderAll(s)[n - left - k] = s[n - k] + 1
  <2>1. n - left - k \in 1 .. n - left /\ n - left - k + left = n - k
    BY <1>1, <1>4, <1>12
  <2>2. QED
    BY <1>5, <2>1
<1>13. QED
  BY <1>1, <1>4, <1>9, <1>10, <1>11, <1>12 DEF n

\* A moment later a list still covers what it covered.
LEMMA AgingCovers ==
    ASSUME NEW s \in Ages, NEW t \in Ages, OldestFirst(s), OldestFirst(t),
           NEW c \in Nat, Covers(t, s, c)
    PROVE  Covers(OlderAll(t), OlderAll(s), c)
<1> DEFINE a == OlderAll(s)
           b == OlderAll(t)
<1>1. /\ Len(s) \in Nat /\ DOMAIN s = 1 .. Len(s) /\ \A i \in 1 .. Len(s) : s[i] \in 0 .. Window
      /\ Len(t) \in Nat /\ DOMAIN t = 1 .. Len(t) /\ \A i \in 1 .. Len(t) : t[i] \in 0 .. Window
      /\ Window \in Nat
  BY LenProperties, ElementOfSeq, SupervisorAssumption DEF Ages
<1>2. /\ a \in Ages /\ Len(a) <= Len(s)
      /\ \A k \in Nat : k < Len(s) => (k < Len(a) <=> s[Len(s) - k] < Window)
      /\ \A k \in Nat : k < Len(a) => a[Len(a) - k] = s[Len(s) - k] + 1
  BY Aging
<1>3. /\ b \in Ages /\ Len(b) <= Len(t)
      /\ \A k \in Nat : k < Len(t) => (k < Len(b) <=> t[Len(t) - k] < Window)
      /\ \A k \in Nat : k < Len(b) => b[Len(b) - k] = t[Len(t) - k] + 1
  BY Aging
<1> HIDE DEF a, b
<1>4. Len(a) \in Nat /\ Len(b) \in Nat
  BY <1>2, <1>3, LenProperties DEF Ages
<1>5. ASSUME NEW k \in c .. Len(a), k < Len(a)
      PROVE  /\ k - c < Len(b)
             /\ b[Len(b) - (k - c)] <= a[Len(a) - k]
  <2>1. k \in Nat /\ k - c \in Nat /\ k < Len(s) /\ k \in c .. Len(s)
    BY <1>1, <1>2, <1>4, <1>5
  <2>2. k - c < Len(t) /\ t[Len(t) - (k - c)] <= s[Len(s) - k]
    BY <2>1 DEF Covers
  <2>3. s[Len(s) - k] < Window /\ a[Len(a) - k] = s[Len(s) - k] + 1
    BY <1>2, <1>5, <2>1
  <2>4. Len(s) - k \in 1 .. Len(s) /\ Len(t) - (k - c) \in 1 .. Len(t)
    BY <1>1, <2>1, <2>2
  <2>41. s[Len(s) - k] \in Nat /\ t[Len(t) - (k - c)] \in Nat
    BY <2>4, AgesAre
  <2>5. t[Len(t) - (k - c)] < Window
    <3>1. \A x, y \in Nat : x <= y /\ y < Window => x < Window
      BY <1>1
    <3>2. QED
      BY <2>2, <2>3, <2>41, <3>1
  <2>6. k - c < Len(b) /\ b[Len(b) - (k - c)] = t[Len(t) - (k - c)] + 1
    BY <1>3, <2>1, <2>2, <2>5
  <2>7. QED
    <3>1. \A x, y \in Nat : x <= y => x + 1 <= y + 1
      OBVIOUS
    <3>2. t[Len(t) - (k - c)] + 1 <= s[Len(s) - k] + 1
      BY <2>2, <2>41, <3>1
    <3>3. QED
      BY <2>3, <2>6, <3>2
<1>6. QED
  BY <1>5 DEF Covers, a, b

\* A new start in both lists.
LEMMA StartCovers ==
    ASSUME NEW s \in Ages, NEW t \in Ages, NEW c \in Nat, Covers(t, s, c)
    PROVE  Covers(Append(t, 0), Append(s, 0), c)
<1> DEFINE a == Append(s, 0)
           b == Append(t, 0)
<1>1. 0 \in 0 .. Window
  BY SupervisorAssumption
<1>2. /\ Len(s) \in Nat /\ \A i \in 1 .. Len(s) : s[i] \in 0 .. Window
      /\ Len(t) \in Nat
  BY LenProperties, ElementOfSeq DEF Ages
<1>3. /\ Len(a) = Len(s) + 1 /\ \A i \in 1 .. Len(s) : a[i] = s[i]
      /\ a[Len(s) + 1] = 0
      /\ Len(b) = Len(t) + 1 /\ \A i \in 1 .. Len(t) : b[i] = t[i]
      /\ b[Len(t) + 1] = 0
  BY <1>1, AppendProperties DEF Ages
<1> HIDE DEF a, b
<1>4. ASSUME NEW k \in c .. Len(a), k < Len(a)
      PROVE  /\ k - c < Len(b)
             /\ b[Len(b) - (k - c)] <= a[Len(a) - k]
  <2>1. CASE k = c
    <3>1. k - c = 0 /\ Len(b) - (k - c) = Len(t) + 1
      BY <1>2, <1>3, <2>1
    <3>2. a[Len(a) - k] >= 0
      <4>1. Len(a) - k \in 1 .. Len(s) \/ Len(a) - k = Len(s) + 1
        BY <1>2, <1>3, <1>4
      <4>2. QED
        BY <1>2, <1>3, <4>1
    <3>3. QED
      BY <1>2, <1>3, <3>1, <3>2
  <2>2. CASE k # c
    <3>1. /\ k - 1 \in c .. Len(s) /\ k - 1 < Len(s)
          /\ Len(a) - k = Len(s) - (k - 1) /\ Len(a) - k \in 1 .. Len(s)
      BY <1>2, <1>3, <1>4, <2>2
    <3>2. k - 1 - c < Len(t) /\ t[Len(t) - (k - 1 - c)] <= s[Len(s) - (k - 1)]
      BY <3>1 DEF Covers
    <3>3. /\ Len(b) - (k - c) = Len(t) - (k - 1 - c)
          /\ Len(b) - (k - c) \in 1 .. Len(t)
      BY <1>2, <1>3, <3>1, <3>2
    <3>4. /\ b[Len(b) - (k - c)] = t[Len(t) - (k - 1 - c)]
          /\ a[Len(a) - k] = s[Len(s) - (k - 1)]
      BY <1>3, <3>1, <3>3
    <3>5. k - c < Len(b)
      BY <1>2, <1>3, <1>4, <2>2, <3>2
    <3>6. QED
      BY <3>2, <3>4, <3>5
  <2>3. QED
    BY <2>1, <2>2
<1>5. QED
  BY <1>4 DEF Covers, a, b

\* What covers a list but for some covers it but for more.
LEMMA CoversMore ==
    ASSUME NEW s \in Ages, NEW t \in Ages, OldestFirst(t),
           NEW c \in Nat, NEW d \in Nat, c <= d, Covers(t, s, c)
    PROVE  Covers(t, s, d)
<1>1. /\ Len(s) \in Nat /\ \A i \in 1 .. Len(s) : s[i] \in Nat
      /\ Len(t) \in Nat /\ DOMAIN t = 1 .. Len(t) /\ \A i \in 1 .. Len(t) : t[i] \in Nat
  BY AgesAre
<1>2. ASSUME NEW k \in d .. Len(s), k < Len(s)
      PROVE  k - d < Len(t) /\ t[Len(t) - (k - d)] <= s[Len(s) - k]
  <2>1. k \in c .. Len(s)
    BY <1>1, <1>2
  <2>2. k - c < Len(t) /\ t[Len(t) - (k - c)] <= s[Len(s) - k]
    BY <1>2, <2>1 DEF Covers
  <2>3. /\ k - d < Len(t) /\ Len(s) - k \in 1 .. Len(s)
        /\ Len(t) - (k - c) \in 1 .. Len(t) /\ Len(t) - (k - d) \in 1 .. Len(t)
        /\ Len(t) - (k - c) <= Len(t) - (k - d)
    BY <1>1, <1>2, <2>1, <2>2
  <2>4. t[Len(t) - (k - d)] <= t[Len(t) - (k - c)]
    BY <1>1, <2>3 DEF OldestFirst
  <2>5. /\ s[Len(s) - k] \in Nat /\ t[Len(t) - (k - c)] \in Nat
        /\ t[Len(t) - (k - d)] \in Nat
    BY <1>1, <2>3
  <2>6. \A x, y, z \in Nat : x <= y /\ y <= z => x <= z
    OBVIOUS
  <2>7. QED
    BY <2>2, <2>3, <2>4, <2>5, <2>6
<1>3. QED
  BY <1>2 DEF Covers

\* A start that a list does not learn of is one more that it misses.
LEMMA StartMissed ==
    ASSUME NEW s \in Ages, NEW t \in Ages, NEW c \in Nat, Covers(t, s, c)
    PROVE  Covers(t, Append(s, 0), c + 1)
<1> DEFINE a == Append(s, 0)
<1>1. Len(s) \in Nat /\ Len(t) \in Nat /\ 0 \in 0 .. Window
  BY AgesAre, SupervisorAssumption
<1>2. Len(a) = Len(s) + 1 /\ \A i \in 1 .. Len(s) : a[i] = s[i]
  BY <1>1, AppendProperties DEF Ages
<1> HIDE DEF a
<1>3. ASSUME NEW k \in c + 1 .. Len(a), k < Len(a)
      PROVE  k - (c + 1) < Len(t) /\ t[Len(t) - (k - (c + 1))] <= a[Len(a) - k]
  <2>1. /\ k - 1 \in c .. Len(s) /\ k - 1 < Len(s) /\ k - 1 - c = k - (c + 1)
        /\ Len(a) - k = Len(s) - (k - 1) /\ Len(a) - k \in 1 .. Len(s)
    BY <1>1, <1>2, <1>3
  <2>2. k - 1 - c < Len(t) /\ t[Len(t) - (k - 1 - c)] <= s[Len(s) - (k - 1)]
    BY <2>1 DEF Covers
  <2>3. a[Len(a) - k] = s[Len(s) - (k - 1)]
    BY <1>2, <2>1
  <2>4. QED
    BY <2>1, <2>2, <2>3
<1>4. QED
  BY <1>3 DEF Covers, a

\* A new start at the end of a list.
LEMMA AppendStart ==
    ASSUME NEW s \in Ages, OldestFirst(s)
    PROVE  /\ Append(s, 0) \in Ages /\ OldestFirst(Append(s, 0))
           /\ Len(Append(s, 0)) = Len(s) + 1
           /\ \A i \in DOMAIN Append(s, 0) : Append(s, 0)[i] >= 0
<1> DEFINE a == Append(s, 0)
<1>1. /\ Len(s) \in Nat /\ DOMAIN s = 1 .. Len(s) /\ \A i \in 1 .. Len(s) : s[i] \in Nat
      /\ 0 \in 0 .. Window
  BY LenProperties, ElementOfSeq, SupervisorAssumption DEF Ages
<1>2. /\ a \in Ages /\ Len(a) = Len(s) + 1 /\ \A i \in 1 .. Len(s) : a[i] = s[i]
      /\ a[Len(s) + 1] = 0
  BY <1>1, AppendProperties DEF Ages
<1>3. DOMAIN a = 1 .. Len(s) + 1
  BY <1>2, LenProperties DEF Ages
<1> HIDE DEF a
<1>4. \A i \in 1 .. Len(s) + 1 : i \in 1 .. Len(s) \/ i = Len(s) + 1
  BY <1>1
<1>5. \A i \in 1 .. Len(s) + 1 : a[i] \in Nat /\ a[i] >= 0
  BY <1>1, <1>2, <1>4
<1>6. \A i, j \in 1 .. Len(s) + 1 : i <= j => a[i] >= a[j]
  BY <1>1, <1>2, <1>4, <1>5 DEF OldestFirst
<1>7. QED
  BY <1>2, <1>3, <1>5, <1>6 DEF OldestFirst, a

\* A cycle that misses nothing a list knows misses nothing that it covers.
LEMMA KnownStarts ==
    ASSUME NEW s \in Ages, NEW t \in Ages, NEW c \in Nat, NEW g \in Nat,
           Covers(t, s, c), \A i \in DOMAIN t : t[i] > g
    PROVE  Cardinality({i \in DOMAIN s : s[i] <= g}) <= c
<1> DEFINE n == Len(s)
           Young == {i \in DOMAIN s : s[i] <= g}
<1>1. /\ n \in Nat /\ DOMAIN s = 1 .. n /\ \A i \in 1 .. n : s[i] \in Nat
      /\ Len(t) \in Nat /\ DOMAIN t = 1 .. Len(t) /\ \A i \in 1 .. Len(t) : t[i] \in Nat
  BY AgesAre
<1>2. ASSUME NEW i \in 1 .. n, s[i] <= g PROVE i > n - c
  <2>1. SUFFICES ASSUME ~(i > n - c) PROVE FALSE
    OBVIOUS
  <2>2. n - i \in c .. n /\ n - i < n /\ n - (n - i) = i
    BY <1>1, <2>1
  <2>3. n - i - c < Len(t) /\ t[Len(t) - (n - i - c)] <= s[i]
    BY <2>2 DEF Covers
  <2>4. Len(t) - (n - i - c) \in 1 .. Len(t)
    BY <1>1, <2>2, <2>3
  <2>5. t[Len(t) - (n - i - c)] > g /\ t[Len(t) - (n - i - c)] \in Nat /\ s[i] \in Nat
    BY <1>1, <2>4
  <2>6. \A x, y \in Nat : x <= y /\ y <= g => ~(x > g)
    OBVIOUS
  <2>7. QED
    BY <1>2, <2>3, <2>5, <2>6
<1>21. Young \in SUBSET (1 .. n)
  BY <1>1
<1>22. \A i \in Young : i \in 1 .. n /\ i > n - c
  BY <1>1, <1>2
<1> HIDE DEF n, Young
<1>23. IsFiniteSet(1 .. n) /\ Cardinality(1 .. n) = n
  BY <1>1, FS_Interval
<1>24. Cardinality(Young) \in Nat
  BY <1>21, <1>23, FS_Subset, FS_CardinalityType
<1>3. CASE c <= n
  <2>1. Young \in SUBSET ((n - c + 1) .. n)
    BY <1>1, <1>3, <1>22
  <2>2. n - c + 1 \in Int /\ n \in Int /\ n - (n - c + 1) + 1 = c
    BY <1>1, <1>3
  <2>3. IsFiniteSet((n - c + 1) .. n) /\ Cardinality((n - c + 1) .. n) \in Nat
    BY <2>2, FS_Interval, FS_CardinalityType
  <2>4. Cardinality((n - c + 1) .. n) <= c
    <3> DEFINE m == n - c + 1
    <3>1. m \in Int /\ n \in Int /\ n - m + 1 = c /\ 0 <= c
      BY <1>1, <2>2
    <3> HIDE DEF m
    <3>2. Cardinality(m .. n) = IF m > n THEN 0 ELSE n - m + 1
      BY <3>1, FS_Interval
    <3>3. Cardinality(m .. n) <= c
      BY <3>1, <3>2
    <3>4. QED
      BY <3>3 DEF m
  <2>5. Cardinality(Young) <= Cardinality((n - c + 1) .. n)
    BY <2>1, <2>3, FS_Subset
  <2>6. Cardinality(Young) <= c
    BY <1>24, <2>3, <2>4, <2>5
  <2>7. QED
    BY <2>6 DEF Young
<1>4. CASE n < c
  <2>1. Cardinality(Young) <= n
    BY <1>21, <1>23, FS_Subset
  <2>2. Cardinality(Young) <= c
    BY <1>1, <1>4, <1>24, <2>1
  <2>3. QED
    BY <2>2 DEF Young
<1>5. QED
  BY <1>1, <1>3, <1>4

\* What is covered but for some is longer by no more than those.
LEMMA CoveredLength ==
    ASSUME NEW s \in Ages, NEW t \in Ages, NEW c \in Nat, Covers(t, s, c)
    PROVE  Len(s) <= Len(t) + c
<1>1. Len(s) \in Nat /\ Len(t) \in Nat
  BY AgesAre
<1>2. CASE c < Len(s)
  <2>1. Len(s) - 1 \in c .. Len(s) /\ Len(s) - 1 < Len(s)
    BY <1>1, <1>2
  <2>2. Len(s) - 1 - c < Len(t)
    BY <2>1 DEF Covers
  <2>3. QED
    BY <1>1, <1>2, <2>2
<1>3. QED
  BY <1>1, <1>2

\* What an empty list misses is what a full one knew, and what that one missed.
LEMMA BlankCovers ==
    ASSUME NEW s \in Ages, NEW t \in Ages, NEW c \in Nat, Covers(t, s, c),
           Len(t) <= MaxRestarts
    PROVE  Covers(<< >>, s, c + MaxRestarts)
<1>1. Len(s) \in Nat /\ Len(t) \in Nat /\ MaxRestarts \in Nat
  BY AgesAre, SupervisorAssumption
<1>2. Len(s) <= c + MaxRestarts
  BY <1>1, CoveredLength
<1>3. QED
  BY <1>1, <1>2 DEF Covers

-----------------------------------------------------------------------------
(* The invariant.                                                          *)

\* What is counted as forgotten, and what a mishap adds to it.
LEMMA Forgetting ==
    ASSUME cuts \in Nat, blanks \in Nat
    PROVE  /\ Forgotten \in Nat
           /\ cuts' = cuts + 1 /\ blanks' = blanks => Forgotten' = Forgotten + 1
           /\ cuts' = cuts /\ blanks' = blanks + 1 => Forgotten' = Forgotten + MaxRestarts
           /\ cuts' = cuts /\ blanks' = blanks => Forgotten' = Forgotten
<1>1. MaxRestarts \in Nat
  BY SupervisorAssumption
<1>2. blanks * MaxRestarts \in Nat
  BY <1>1
<1>3. (blanks + 1) * MaxRestarts = blanks * MaxRestarts + MaxRestarts
  BY <1>1
<1>4. QED
  BY <1>1, <1>2, <1>3 DEF Forgotten

\* A state of the service a moment later.
LEMMA StateAges ==
    ASSUME NEW s \in ServiceState, OldestFirst(s.restarts), LastStartIsLast(s)
    PROVE  /\ OlderState(s) \in ServiceState
           /\ OlderState(s).restarts = OlderAll(s.restarts)
           /\ Len(OlderState(s).restarts) <= Len(s.restarts)
           /\ OldestFirst(OlderState(s).restarts) /\ LastStartIsLast(OlderState(s))
           /\ s.last_start > Grace => OlderState(s).last_start > Grace
<1> DEFINE a == s.restarts
           b == OlderAll(a)
<1>1. /\ Grace \in Nat /\ Cooldown \in Nat /\ a \in Ages
      /\ s.last_start \in 0 .. Grace + 1 /\ s.cooldown \in 0 .. Cooldown
  BY SupervisorAssumption DEF ServiceState, Ages
<1>2. /\ b \in Ages /\ OldestFirst(b) /\ Len(b) <= Len(a)
      /\ \A k \in Nat : k < Len(b) => b[Len(b) - k] = a[Len(a) - k] + 1
  BY <1>1, Aging
<1>3. /\ OlderState(s).restarts = b
      /\ OlderState(s).last_start
           = (IF s.last_start > Grace THEN Grace + 1 ELSE s.last_start + 1)
      /\ OlderState(s).cooldown = (IF s.cooldown = 0 THEN 0 ELSE s.cooldown - 1)
  BY DEF OlderState
<1>4. OlderState(s) \in ServiceState
  <2>1. OlderState(s).last_start \in 0 .. Grace + 1 /\ OlderState(s).cooldown \in 0 .. Cooldown
    BY <1>1, <1>3
  <2>2. OlderState(s) = [restarts |-> b, last_start |-> OlderState(s).last_start,
                         cooldown |-> OlderState(s).cooldown]
    BY DEF OlderState
  <2>3. QED
    BY <1>2, <2>1, <2>2 DEF ServiceState, Ages
<1> HIDE DEF a, b
<1>5. ASSUME NEW i \in DOMAIN b PROVE b[i] >= OlderState(s).last_start
  <2>1. Len(b) \in Nat /\ Len(a) \in Nat /\ DOMAIN a = 1 .. Len(a) /\ i \in 1 .. Len(b)
    BY <1>1, <1>2, <1>5, AgesAre
  <2>2. /\ Len(b) - i \in Nat /\ Len(b) - i < Len(b) /\ Len(b) - (Len(b) - i) = i
        /\ Len(a) - (Len(b) - i) \in 1 .. Len(a)
    BY <1>2, <2>1
  <2>3. b[i] = a[Len(a) - (Len(b) - i)] + 1
    BY <1>2, <2>2
  <2>4. PICK j \in 1 .. Len(a) : b[i] = a[j] + 1
    BY <2>2, <2>3
  <2>5. a[j] \in Nat /\ a[j] >= s.last_start
    BY <1>1, <2>1, AgesAre DEF LastStartIsLast, a
  <2>6. QED
    BY <1>1, <1>3, <2>4, <2>5
<1>6. LastStartIsLast(OlderState(s))
  BY <1>3, <1>5 DEF LastStartIsLast
<1>7. QED
  BY <1>1, <1>2, <1>3, <1>4, <1>6 DEF a, b

\* Nothing has been started.
LEMMA InitInv == Init => SupervisorInv
<1>1. SUFFICES ASSUME Init PROVE SupervisorInv
  OBVIOUS
<1>2. /\ Fresh \in ServiceState /\ Fresh.restarts = << >> /\ << >> \in Ages
      /\ Len(Fresh.restarts) = 0 /\ Len(<< >>) = 0
  BY SupervisorAssumption DEF Fresh, ServiceState, Ages
<1>3. TypeOK
  <2>1. 0 <= MaxRestarts /\ 0 \in 0 .. MaxCuts /\ 0 \in 0 .. MaxBlanks
    BY SupervisorAssumption
  <2>2. {} \subseteq Process /\ FALSE \in BOOLEAN
    OBVIOUS
  <2>3. QED
    BY <1>1, <1>2, <2>1, <2>2 DEF Init, TypeOK, Ages
<1>4. OldestFirst(<< >>) /\ LastStartIsLast(Fresh) /\ Covers(<< >>, << >>, Forgotten)
  <2>1. Forgotten \in Nat
    BY <1>1, Forgetting DEF Init
  <2>2. QED
    BY <1>2, <2>1 DEF OldestFirst, LastStartIsLast, Covers
<1>5. QED
  BY <1>1, <1>2, <1>3, <1>4 DEF Init, SupervisorInv

\* What happens to the processes concerns neither the lists nor the cycle.
LEMMA EnvironmentKeepsInv ==
    ASSUME SupervisorInv, UNCHANGED Others,
           procs' \subseteq Process, sick' \in BOOLEAN, rival' \in BOOLEAN
    PROVE  SupervisorInv'
BY DEF SupervisorInv, TypeOK, Others, Forgotten

\* The invariant speaks of what is left of a cycle that does no more than choose.
LEMMA FreshIsFine ==
    Fresh \in ServiceState /\ OldestFirst(Fresh.restarts) /\ LastStartIsLast(Fresh)
    /\ Len(Fresh.restarts) = 0
<1>1. Fresh.restarts = << >> /\ << >> \in Ages /\ Len(<< >>) = 0
  BY DEF Fresh, Ages
<1>2. QED
  BY <1>1, SupervisorAssumption DEF Fresh, ServiceState, Ages, OldestFirst, LastStartIsLast

\* What the invariant says of the two lists, the numbers behind it and the budget.
LEMMA InvSays ==
    ASSUME SupervisorInv
    PROVE  /\ saved \in ServiceState /\ OldestFirst(saved.restarts) /\ LastStartIsLast(saved)
           /\ st \in ServiceState /\ OldestFirst(st.restarts) /\ LastStartIsLast(st)
           /\ saved.restarts \in Ages /\ st.restarts \in Ages
           /\ starts \in Ages /\ OldestFirst(starts)
           /\ cuts \in Nat /\ blanks \in Nat /\ Forgotten \in Nat
           /\ Len(saved.restarts) <= MaxRestarts /\ Len(st.restarts) <= MaxRestarts
<1>1. cuts \in Nat /\ blanks \in Nat
  BY SupervisorAssumption DEF SupervisorInv, TypeOK
<1>2. Forgotten \in Nat
  BY <1>1, Forgetting
<1>3. QED
  BY <1>1, <1>2 DEF SupervisorInv, TypeOK, ServiceState, Ages

\* What the state file covers it covers but for one more.
LEMMA OneMoreMissed ==
    ASSUME SupervisorInv, Covers(saved.restarts, starts, Forgotten)
    PROVE  Covers(saved.restarts, starts, Forgotten + 1)
<1>1. Forgotten \in Nat /\ Forgotten + 1 \in Nat /\ Forgotten <= Forgotten + 1
  BY InvSays
<1>2. QED
  BY <1>1, InvSays, CoversMore

\* A cycle begins on what the last one saved.
LEMMA LoadKeepsInv ==
    ASSUME SupervisorInv, LoadState
    PROVE  SupervisorInv'
BY DEF SupervisorInv, TypeOK, LoadState, World, Forgotten

\* A cycle that begins on nothing has forgotten no more than the file can hold.
LEMMA LoadBlankKeepsInv ==
    ASSUME SupervisorInv, LoadBlank
    PROVE  SupervisorInv'
<1>1. /\ step = "idle" /\ step' = "list" /\ st' = Fresh
      /\ procs' = procs /\ sick' = sick /\ saved' = saved /\ rows' = rows
      /\ rival' = rival /\ starts' = starts /\ cuts' = cuts /\ blanks' = blanks + 1
      /\ blanks < MaxBlanks
  BY DEF LoadBlank
<1>2. Forgotten' = Forgotten + MaxRestarts
  BY <1>1, InvSays, Forgetting
<1>3. Covers(saved.restarts, starts, Forgotten)
  BY <1>1 DEF SupervisorInv
<1>4. Covers(saved.restarts, starts, Forgotten + MaxRestarts)
  <2>1. Forgotten \in Nat /\ MaxRestarts \in Nat
    BY InvSays, SupervisorAssumption
  <2>2. Forgotten + MaxRestarts \in Nat /\ Forgotten <= Forgotten + MaxRestarts
    BY <2>1
  <2>3. QED
    BY <1>3, <2>1, <2>2, InvSays, CoversMore
<1>5. Covers(Fresh.restarts, starts, Forgotten + MaxRestarts)
  BY <1>3, InvSays, BlankCovers DEF Fresh
<1>6. blanks' \in 0 .. MaxBlanks
  BY <1>1, InvSays, SupervisorAssumption
<1>7. TypeOK'
  BY <1>1, <1>6, FreshIsFine, SupervisorAssumption DEF SupervisorInv, TypeOK
<1>8. QED
  BY <1>1, <1>2, <1>4, <1>5, <1>7, FreshIsFine DEF SupervisorInv

\* Listing the processes chooses where the cycle goes on.
LEMMA ListKeepsInv ==
    ASSUME SupervisorInv, ListProcesses
    PROVE  SupervisorInv'
<1>1. /\ step' \in {"dedup", "restart", "heal", "save"}
      /\ step' = "heal" => st.last_start > Grace
  <2>1. st.last_start \in Nat /\ Grace \in Nat
    BY SupervisorAssumption DEF SupervisorInv, TypeOK, ServiceState
  <2>2. QED
    BY <2>1 DEF ListProcesses, Classify, LogicallyUnhealthy, InGrace
<1>2. /\ Covers(st.restarts, starts, Forgotten)
      /\ Covers(saved.restarts, starts, Forgotten)
      /\ Covers(saved.restarts, starts, Forgotten + 1)
  <2>1. Covers(st.restarts, starts, Forgotten) /\ Covers(saved.restarts, starts, Forgotten)
    BY DEF SupervisorInv, ListProcesses
  <2>2. QED
    BY <2>1, OneMoreMissed
<1>3. /\ procs' = procs /\ saved' = saved /\ st' = st /\ rows' = procs
      /\ sick' = sick /\ rival' = rival /\ starts' = starts /\ cuts' = cuts
      /\ blanks' = blanks /\ Forgotten' = Forgotten
  BY DEF ListProcesses, World, Forgotten
<1>4. TypeOK'
  BY <1>1, <1>3 DEF SupervisorInv, TypeOK
<1>5. QED
  BY <1>1, <1>2, <1>3, <1>4 DEF SupervisorInv

\* Killing duplicates leaves the lists alone.
LEMMA KillDuplicatesKeepsInv ==
    ASSUME SupervisorInv, KillDuplicates
    PROVE  SupervisorInv'
BY DEF SupervisorInv, TypeOK, KillDuplicates, World, Forgotten

\* Killing the unhealthy needs room for a start.
LEMMA KillUnhealthyKeepsInv ==
    ASSUME SupervisorInv, KillUnhealthy
    PROVE  SupervisorInv'
BY DEF SupervisorInv, TypeOK, KillUnhealthy, RestartsAvailable, World, Forgotten

\* A start that is not allowed at most begins a cooldown.
LEMMA RefrainKeepsInv ==
    ASSUME SupervisorInv, Refrain
    PROVE  SupervisorInv'
<1>1. /\ step' = "save" /\ step # "idle" /\ step # "save"
      /\ procs' = procs /\ saved' = saved /\ rows' = rows
      /\ sick' = sick /\ rival' = rival /\ starts' = starts /\ cuts' = cuts
      /\ blanks' = blanks /\ Forgotten' = Forgotten
  BY DEF SupervisorInv, Refrain, World, Forgotten
<1>2. /\ st' \in ServiceState /\ st'.restarts = st.restarts
      /\ st'.last_start = st.last_start
  <2>1. /\ st \in ServiceState /\ Cooldown \in Nat
        /\ st' = IF st.cooldown = 0 THEN [st EXCEPT !.cooldown = Cooldown] ELSE st
    BY SupervisorAssumption DEF SupervisorInv, TypeOK, Refrain
  <2>2. Cooldown \in 0 .. Cooldown
    BY <2>1
  <2>3. QED
    BY <2>1, <2>2 DEF ServiceState
<1>3. /\ Covers(st.restarts, starts, Forgotten)
      /\ Covers(saved.restarts, starts, Forgotten + 1)
  BY <1>1, OneMoreMissed DEF SupervisorInv
<1>4. TypeOK'
  BY <1>1, <1>2 DEF SupervisorInv, TypeOK
<1>5. LastStartIsLast(st)'
  BY <1>2 DEF SupervisorInv, LastStartIsLast
<1>6. QED
  BY <1>1, <1>2, <1>3, <1>4, <1>5 DEF SupervisorInv

\* A start is marked in memory, and the state file misses that one only.
LEMMA StartKeepsInv ==
    ASSUME SupervisorInv, Start
    PROVE  SupervisorInv'
<1>1. /\ step' = "save" /\ step # "idle" /\ step # "save"
      /\ saved' = saved /\ rows' = rows /\ blanks' = blanks /\ Forgotten' = Forgotten
      /\ sick' = sick /\ rival' = rival /\ cuts' = cuts
      /\ st' = [st EXCEPT !.restarts = Append(@, 0), !.last_start = 0]
      /\ starts' = Append(starts, 0)
  BY DEF SupervisorInv, Start, Forgotten
<1>2. Len(st.restarts) < MaxRestarts
  BY DEF SupervisorInv, Start, RestartsAvailable
<1>3. /\ st \in ServiceState /\ st.restarts \in Ages /\ starts \in Ages
      /\ OldestFirst(st.restarts) /\ OldestFirst(starts) /\ Forgotten \in Nat
      /\ saved.restarts \in Ages /\ Covers(saved.restarts, starts, Forgotten)
      /\ Covers(st.restarts, starts, Forgotten) /\ procs \subseteq Process
  BY <1>1, InvSays DEF SupervisorInv, TypeOK, ServiceState, Ages
<1>4. /\ Append(st.restarts, 0) \in Ages /\ OldestFirst(Append(st.restarts, 0))
      /\ Len(Append(st.restarts, 0)) = Len(st.restarts) + 1
      /\ \A i \in DOMAIN Append(st.restarts, 0) : Append(st.restarts, 0)[i] >= 0
      /\ Append(starts, 0) \in Ages /\ OldestFirst(Append(starts, 0))
  BY <1>3, AppendStart
<1>5. /\ Covers(Append(st.restarts, 0), Append(starts, 0), Forgotten)
      /\ Covers(saved.restarts, Append(starts, 0), Forgotten + 1)
  BY <1>3, StartCovers, StartMissed
<1>6. st' \in ServiceState /\ st'.restarts = Append(st.restarts, 0) /\ st'.last_start = 0
  <2>1. /\ st' = [restarts |-> Append(st.restarts, 0), last_start |-> 0,
                 cooldown |-> st.cooldown]
        /\ st.cooldown \in 0 .. Cooldown
    BY <1>1, <1>3 DEF ServiceState
  <2>2. 0 \in 0 .. Grace + 1
    BY SupervisorAssumption
  <2>3. QED
    BY <1>4, <2>1, <2>2 DEF ServiceState, Ages
<1>7. procs' \subseteq Process
  BY <1>3 DEF Start, Process
<1>8. Len(st'.restarts) <= MaxRestarts
  <2>1. Len(st.restarts) \in Nat
    BY <1>3, AgesAre
  <2>2. QED
    BY <1>2, <1>4, <1>6, <2>1, SupervisorAssumption
<1>9. TypeOK'
  BY <1>1, <1>4, <1>6, <1>7, <1>8 DEF SupervisorInv, TypeOK, Ages
<1>10. LastStartIsLast(st)'
  BY <1>4, <1>6 DEF LastStartIsLast
<1>11. QED
  BY <1>1, <1>4, <1>5, <1>6, <1>9, <1>10 DEF SupervisorInv

\* The state file has caught up.
LEMMA SaveKeepsInv ==
    ASSUME SupervisorInv, SaveState
    PROVE  SupervisorInv'
<1>1. TypeOK'
  BY FreshIsFine, SupervisorAssumption DEF SupervisorInv, TypeOK, SaveState, World
<1>2. QED
  BY <1>1, FreshIsFine DEF SupervisorInv, SaveState, World, Forgotten

\* A file that is left torn forgets all that it could hold.
LEMMA SaveTornKeepsInv ==
    ASSUME SupervisorInv, SaveTorn
    PROVE  SupervisorInv'
<1>1. /\ step = "save" /\ step' = "idle" /\ st' = Fresh /\ saved' = Fresh /\ rows' = {}
      /\ procs' = procs /\ sick' = sick /\ rival' = rival /\ starts' = starts
      /\ cuts' = cuts /\ blanks' = blanks + 1 /\ blanks < MaxBlanks
  BY DEF SaveTorn
<1>2. Forgotten' = Forgotten + MaxRestarts
  BY <1>1, InvSays, Forgetting
<1>3. Covers(Fresh.restarts, starts, Forgotten + MaxRestarts)
  <2>1. Covers(st.restarts, starts, Forgotten)
    BY <1>1 DEF SupervisorInv
  <2>2. QED
    BY <2>1, InvSays, BlankCovers DEF Fresh
<1>4. blanks' \in 0 .. MaxBlanks
  BY <1>1, InvSays, SupervisorAssumption
<1>5. TypeOK'
  BY <1>1, <1>4, FreshIsFine, SupervisorAssumption DEF SupervisorInv, TypeOK
<1>6. QED
  BY <1>1, <1>2, <1>3, <1>5, FreshIsFine DEF SupervisorInv

\* What a cycle that is cut short forgets is one start at most.
LEMMA RaiseKeepsInv ==
    ASSUME SupervisorInv, CycleRaises
    PROVE  SupervisorInv'
<1>1. /\ step # "idle" /\ step' = "idle" /\ cuts < MaxCuts /\ cuts' = cuts + 1
      /\ saved' = saved /\ st' = Fresh /\ rows' = {} /\ procs' = procs
      /\ sick' = sick /\ rival' = rival /\ starts' = starts /\ blanks' = blanks
  BY DEF CycleRaises
<1>2. Forgotten' = Forgotten + 1
  BY <1>1, InvSays, Forgetting
<1>3. Covers(saved.restarts, starts, Forgotten + 1)
  BY <1>1, OneMoreMissed DEF SupervisorInv
<1>4. TypeOK'
  BY <1>1, FreshIsFine, InvSays, SupervisorAssumption DEF SupervisorInv, TypeOK
<1>5. QED
  BY <1>1, <1>2, <1>3, <1>4, FreshIsFine DEF SupervisorInv

\* Time passes in all lists alike.
LEMMA TickKeepsInv ==
    ASSUME SupervisorInv, Tick
    PROVE  SupervisorInv'
<1>1. /\ saved \in ServiceState /\ OldestFirst(saved.restarts) /\ LastStartIsLast(saved)
      /\ st \in ServiceState /\ OldestFirst(st.restarts) /\ LastStartIsLast(st)
      /\ saved.restarts \in Ages /\ st.restarts \in Ages
      /\ starts \in Ages /\ OldestFirst(starts)
      /\ Forgotten \in Nat /\ Forgotten + 1 \in Nat
      /\ Len(saved.restarts) <= MaxRestarts /\ Len(st.restarts) <= MaxRestarts
  BY InvSays
<1>2. /\ saved' = OlderState(saved) /\ st' = OlderState(st) /\ starts' = OlderAll(starts)
      /\ procs' = procs /\ sick' = sick /\ step' = step /\ rows' = rows
      /\ rival' = rival /\ cuts' = cuts /\ blanks' = blanks /\ Forgotten' = Forgotten
  BY DEF Tick, Forgotten
<1>3. /\ saved' \in ServiceState /\ OldestFirst(saved'.restarts) /\ LastStartIsLast(saved')
      /\ saved'.restarts = OlderAll(saved.restarts)
      /\ Len(saved'.restarts) <= Len(saved.restarts)
  BY <1>1, <1>2, StateAges
<1>4. /\ st' \in ServiceState /\ OldestFirst(st'.restarts) /\ LastStartIsLast(st')
      /\ st'.restarts = OlderAll(st.restarts)
      /\ Len(st'.restarts) <= Len(st.restarts)
      /\ st.last_start > Grace => st'.last_start > Grace
  BY <1>1, <1>2, StateAges
<1>5. starts' \in Ages /\ OldestFirst(starts')
  BY <1>1, <1>2, Aging
<1>6. /\ Len(saved.restarts) \in Nat /\ Len(st.restarts) \in Nat
      /\ Len(saved'.restarts) \in Nat /\ Len(st'.restarts) \in Nat
  BY <1>1, <1>3, <1>4, AgesAre DEF ServiceState, Ages
<1>7. /\ Len(saved'.restarts) <= MaxRestarts /\ Len(st'.restarts) <= MaxRestarts
      /\ Len(st.restarts) < MaxRestarts => Len(st'.restarts) < MaxRestarts
  BY <1>1, <1>3, <1>4, <1>6, SupervisorAssumption
<1>8. TypeOK'
  BY <1>2, <1>3, <1>4, <1>5, <1>7 DEF SupervisorInv, TypeOK, Ages
<1>9. /\ step # "idle" => Covers(st'.restarts, starts', Forgotten)
      /\ step # "save" => Covers(saved'.restarts, starts', Forgotten)
      /\ step = "save" => Covers(saved'.restarts, starts', Forgotten + 1)
  BY <1>1, <1>2, <1>3, <1>4, AgingCovers DEF SupervisorInv
<1>10. QED
  BY <1>2, <1>3, <1>4, <1>5, <1>7, <1>8, <1>9 DEF SupervisorInv

\* Every step keeps the invariant.
LEMMA NextInv ==
    ASSUME SupervisorInv, [Next]_vars
    PROVE  SupervisorInv'
<1>1. procs \subseteq Process /\ sick \in BOOLEAN /\ rival \in BOOLEAN
  BY DEF SupervisorInv, TypeOK
<1>2. ASSUME NEW i \in Ids, Spawn(i) \/ DaemonDies(i) \/ WrapperDies(i)
      PROVE  SupervisorInv'
  BY <1>1, <1>2, EnvironmentKeepsInv DEF Spawn, DaemonDies, WrapperDies, Process
<1>3. CASE HealthChanges
  BY <1>1, <1>3, EnvironmentKeepsInv DEF HealthChanges
<1>4. CASE RivalLooks
  BY <1>1, <1>4, EnvironmentKeepsInv DEF RivalLooks
<1>5. CASE RivalStarts
  <2>1. procs' \subseteq Process
    BY <1>1, <1>5 DEF RivalStarts, Process
  <2>2. rival' \in BOOLEAN /\ sick' = sick /\ UNCHANGED Others
    BY <1>5 DEF RivalStarts
  <2>3. QED
    BY <1>1, <2>1, <2>2, EnvironmentKeepsInv
<1>6. CASE Supervise
  BY <1>6, LoadKeepsInv, ListKeepsInv, KillDuplicatesKeepsInv, RefrainKeepsInv,
     KillUnhealthyKeepsInv, StartKeepsInv, SaveKeepsInv DEF Supervise
<1>7. CASE Mishap
  BY <1>7, LoadBlankKeepsInv, SaveTornKeepsInv, RaiseKeepsInv DEF Mishap
<1>8. CASE Tick
  BY <1>8, TickKeepsInv
<1>9. CASE UNCHANGED vars
  BY <1>9 DEF vars, SupervisorInv, TypeOK, Forgotten
<1>10. QED
  BY <1>2, <1>3, <1>4, <1>5, <1>6, <1>7, <1>8, <1>9 DEF Next, Environment

-----------------------------------------------------------------------------
(* The theorems.                                                           *)

\* What the state file and the memory of a cycle know of the supervisor's starts,
\* whenever the cycle is cut short and whenever the file is torn or cannot be read:
\* all but one for each such cycle and MAX_RESTARTS_IN_WINDOW for each such file.
THEOREM SupervisorInvariant == Spec => []SupervisorInv
<1>1. Init => SupervisorInv
  BY InitInv
<1>2. SupervisorInv /\ [Next]_vars => SupervisorInv'
  BY NextInv
<1>3. QED
  BY <1>1, <1>2, PTL DEF Spec

\* The state file, the processes and the steps of the cycle are what they are meant
\* to be, and neither list of restarts outgrows the budget.
THEOREM TypeCorrect == Spec => []TypeOK
<1>1. SupervisorInv => TypeOK
  BY DEF SupervisorInv
<1>2. QED
  BY <1>1, SupervisorInvariant, PTL

\* restart_allowed(), mark_start(), load_state() and save_state(): no window sees more
\* starts than the budget, one for each cycle cut short before it saved and one whole
\* budget for each state file that came out blank.
THEOREM StartsAreBudgeted == Spec => []StartBudget
<1>1. SupervisorInv => StartBudget
  <2>1. SUFFICES ASSUME SupervisorInv PROVE StartBudget
    OBVIOUS
  <2>2. PICK known \in Ages : Len(known) <= MaxRestarts /\ Covers(known, starts, Forgotten)
    <3>1. /\ saved.restarts \in Ages /\ Len(saved.restarts) <= MaxRestarts
          /\ st.restarts \in Ages /\ Len(st.restarts) <= MaxRestarts
      BY <2>1 DEF SupervisorInv, TypeOK, ServiceState, Ages
    <3>2. \/ Covers(saved.restarts, starts, Forgotten)
          \/ Covers(st.restarts, starts, Forgotten)
      BY <2>1 DEF SupervisorInv
    <3>3. QED
      BY <3>1, <3>2
  <2>3. starts \in Ages /\ Forgotten \in Nat
    BY <2>1, InvSays
  <2>4. Len(starts) \in Nat /\ Len(known) \in Nat /\ Len(starts) <= Len(known) + Forgotten
    BY <2>2, <2>3, AgesAre, CoveredLength
  <2>5. QED
    BY <2>2, <2>3, <2>4, SupervisorAssumption DEF StartBudget
<1>2. QED
  BY <1>1, SupervisorInvariant, PTL

\* in_startup_grace() and supervise_service(): a service that is about to be killed as
\* unhealthy was started long ago, but for the starts that cycles cut short and blank
\* state files forgot.
THEOREM GraceIsKept == Spec => []GraceHolds
<1>1. SupervisorInv => GraceHolds
  <2>1. SUFFICES ASSUME SupervisorInv, step = "heal"
                 PROVE  Cardinality({i \in DOMAIN starts : starts[i] <= Grace}) <= Forgotten
    BY DEF GraceHolds
  <2>2. /\ starts \in Ages /\ st.restarts \in Ages /\ Forgotten \in Nat /\ Grace \in Nat
        /\ Covers(st.restarts, starts, Forgotten) /\ st.last_start > Grace
        /\ st.last_start \in Nat /\ LastStartIsLast(st)
    BY <2>1, InvSays, SupervisorAssumption DEF SupervisorInv, TypeOK, ServiceState, Ages
  <2>3. \A i \in DOMAIN st.restarts : st.restarts[i] > Grace
    <3>1. \A i \in DOMAIN st.restarts :
             st.restarts[i] \in Nat /\ st.restarts[i] >= st.last_start
      BY <2>2, AgesAre DEF LastStartIsLast
    <3>2. QED
      BY <2>2, <3>1
  <2>4. QED
    BY <2>2, <2>3, KnownStarts
<1>2. QED
  BY <1>1, SupervisorInvariant, PTL
=============================================================================
