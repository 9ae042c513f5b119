---------------------------- MODULE SessionProofs ----------------------------
(***************************************************************************)
(* Two promises of sign-in that need an induction over data, for any number*)
(* of sessions, requests and ticks: the wrong codes of a lock window, which*)
(* are a sum, and the families that end, which are chains of rows.         *)
(***************************************************************************)
EXTENDS AuthProofs, FiniteSetTheorems

-----------------------------------------------------------------------------
(***************************************************************************)
(* Induction.  The library's theorems take the property as an operator;    *)
(* here it is a set, and a least element outside of it is the witness.     *)
(***************************************************************************)
\* Induction over the numbers: a set with 0 and with the successor of each of
\* its numbers holds them all.
LEMMA NaturalsFrom ==
    ASSUME NEW P, 0 \in P, \A n \in Nat : n \in P => n + 1 \in P
    PROVE  Nat \subseteq P
  <1>1. SUFFICES ASSUME Nat \ P # {} PROVE FALSE
    OBVIOUS
  <1>2. PICK n \in Nat \ P : \A m \in Nat \ P : ~(<<m, n>> \in OpToRel(<, Nat))
    BY <1>1, NatLessThanWellFounded, WFMin
  <1>3. \A m \in Nat \ P : ~(m < n)
    BY <1>2 DEF OpToRel
  <1>4. n # 0 /\ n - 1 \in Nat
    OBVIOUS
  <1>5. n - 1 \in P
    BY <1>3, <1>4
  <1>6. QED
    BY <1>4, <1>5

\* Induction over the subsets of a finite set, from the smaller ones.
LEMMA SubsetsFrom ==
    ASSUME NEW S, IsFiniteSet(S), NEW P,
           \A T \in SUBSET S : (\A U \in SUBSET T : U # T => U \in P) => T \in P
    PROVE  SUBSET S \subseteq P
  <1>1. SUFFICES ASSUME (SUBSET S) \ P # {} PROVE FALSE
    OBVIOUS
  <1>2. IsWellFoundedOn(StrictSubsetOrdering(S), SUBSET S)
    BY FS_StrictSubsetOrderingWellFounded, FS_FiniteSubsetsOfFinite
  <1> DEFINE Left == (SUBSET S) \ P
  <1>3. PICK T \in Left : \A U \in Left : ~(<<U, T>> \in StrictSubsetOrdering(S))
    <2>1. Left \subseteq SUBSET S /\ Left # {}
      BY <1>1
    <2>2. QED
      <3> HIDE DEF Left
      <3> QED BY <1>2, <2>1, WFMin
  <1>4. \A U \in SUBSET T : U # T => U \in P
    BY <1>3 DEF StrictSubsetOrdering
  <1>5. QED
    BY <1>4

-----------------------------------------------------------------------------
(***************************************************************************)
(* The total of counters by age (MapThenSumSet).                           *)
(***************************************************************************)
\* sum is the function by which MapThenSumSet adds the counts over a set.
Adds(counts, D, sum) ==
    sum = [s \in D |-> IF s = {} THEN 0
                       ELSE counts[CHOOSE x \in s : TRUE] + sum[s \ {CHOOSE x \in s : TRUE}]]

\* There is such a function.
LEMMA SumExists ==
    ASSUME NEW S, IsFiniteSet(S), NEW counts
    PROVE  \E sum : Adds(counts, SUBSET S, sum)
  <1> DEFINE Upto(n) == {s \in SUBSET S : Cardinality(s) <= n}
             P == {n \in Nat : \E sum : Adds(counts, Upto(n), sum)}
  <1>1. 0 \in P
    <2>1. \A s \in Upto(0) : s = {}
      BY FS_EmptySet, FS_Subset, FS_CardinalityType
    <2>2. Adds(counts, Upto(0), [s \in Upto(0) |-> 0])
      BY <2>1 DEF Adds
    <2>3. QED
      BY <2>2
  <1>2. ASSUME NEW n \in Nat, n \in P
        PROVE  n + 1 \in P
    <2>1. PICK sum : Adds(counts, Upto(n), sum)
      BY <1>2
    <2> DEFINE next == [s \in Upto(n + 1) |->
                           IF s = {} THEN 0
                           ELSE counts[CHOOSE x \in s : TRUE] + sum[s \ {CHOOSE x \in s : TRUE}]]
    <2>2. ASSUME NEW s \in Upto(n)
          PROVE  next[s] = sum[s] /\ s \in Upto(n + 1)
      <3>1. Cardinality(s) \in Nat
        BY FS_Subset, FS_CardinalityType
      <3>2. QED
        BY <2>1, <3>1 DEF Adds
    <2>3. ASSUME NEW s \in Upto(n + 1), s # {}
          PROVE  s \ {CHOOSE x \in s : TRUE} \in Upto(n)
      <3>1. (CHOOSE x \in s : TRUE) \in s
        BY <2>3
      <3>2. IsFiniteSet(s) /\ Cardinality(s) \in Nat
        BY FS_Subset, FS_CardinalityType
      <3>3. Cardinality(s \ {CHOOSE x \in s : TRUE}) = Cardinality(s) - 1
        BY <3>1, <3>2, FS_RemoveElement
      <3>4. QED
        BY <3>2, <3>3
    <2>4. \A s \in Upto(n + 1) : s # {} =>
            sum[s \ {CHOOSE x \in s : TRUE}] = next[s \ {CHOOSE x \in s : TRUE}]
      BY <2>2, <2>3
    <2>5. Adds(counts, Upto(n + 1), next)
      <3> DEFINE D == Upto(n + 1)
      <3>1. next = [s \in D |-> IF s = {} THEN 0
                       ELSE counts[CHOOSE x \in s : TRUE] + next[s \ {CHOOSE x \in s : TRUE}]]
        <4> DEFINE e(s, f) == IF s = {} THEN 0
                              ELSE counts[CHOOSE x \in s : TRUE] + f[s \ {CHOOSE x \in s : TRUE}]
        <4>1. next = [s \in D |-> e(s, sum)]
          OBVIOUS
        <4>2. \A s \in D : e(s, sum) = e(s, next)
          <5> HIDE DEF next, Upto
          <5> QED BY <2>4
        <4> HIDE DEF next, D, e
        <4>3. next = [s \in D |-> e(s, next)]
          BY <4>1, <4>2, Zenon
        <4>4. QED
          BY <4>3 DEF e
      <3> HIDE DEF next
      <3> QED BY <3>1 DEF Adds
    <2>6. QED
      <3> HIDE DEF next, Upto
      <3> QED BY <2>5
  <1>3. Cardinality(S) \in P
    <2>1. Nat \subseteq P
      <3> HIDE DEF P
      <3> QED BY <1>1, <1>2, NaturalsFrom
    <2>2. QED
      BY <2>1, FS_CardinalityType
  <1>4. Upto(Cardinality(S)) = SUBSET S
    BY FS_Subset
  <1>5. QED
    BY <1>3, <1>4

\* Total is its value for all the ages.
LEMMA TotalAdds ==
    ASSUME NEW K \in Nat, NEW counts, DOMAIN counts = 1..K
    PROVE  \E sum : Adds(counts, SUBSET (1..K), sum) /\ Total(counts) = sum[1..K]
  <1>1. \E sum : Adds(counts, SUBSET (1..K), sum)
    <2>1. IsFiniteSet(1..K)
      BY FS_Interval
    <2>2. QED
      BY <2>1, SumExists
  <1> DEFINE f == CHOOSE sum : Adds(counts, SUBSET (1..K), sum)
  <1>2. Adds(counts, SUBSET (1..K), f)
    BY <1>1
  <1>3. Total(counts) = f[1..K]
    BY DEF Total, MapThenSumSet, MapThenFoldSet, Adds
  <1>4. QED
    BY <1>2, <1>3

\* What a sum is, whichever element is taken first.
Sums(counts, S, sum) ==
    /\ sum[{}] = 0
    /\ \A T \in SUBSET S : sum[T] \in Nat
    /\ \A T \in SUBSET S : \A x \in T : sum[T] = counts[x] + sum[T \ {x}]

\* It is a number, ...
LEMMA AddsNat ==
    ASSUME NEW S, IsFiniteSet(S), NEW counts \in [S -> Nat], NEW sum,
           Adds(counts, SUBSET S, sum)
    PROVE  \A T \in SUBSET S : sum[T] \in Nat
  <1> DEFINE P == {T \in SUBSET S : sum[T] \in Nat}
  <1>1. ASSUME NEW T \in SUBSET S, \A U \in SUBSET T : U # T => U \in P
        PROVE  T \in P
    <2>1. CASE T = {}
      BY <2>1 DEF Adds
    <2>2. CASE T # {}
      <3>1. PICK x \in T : sum[T] = counts[x] + sum[T \ {x}]
        BY <2>2 DEF Adds
      <3>2. T \ {x} \in P
        BY <1>1, <3>1
      <3>3. QED
        BY <3>1, <3>2
    <2>3. QED
      BY <2>1, <2>2
  <1>2. SUBSET S \subseteq P
    <2> HIDE DEF P
    <2> QED BY <1>1, SubsetsFrom
  <1>3. QED
    BY <1>2

\* ... and does not depend on the order.
LEMMA AddsSums ==
    ASSUME NEW S, IsFiniteSet(S), NEW counts \in [S -> Nat], NEW sum,
           Adds(counts, SUBSET S, sum)
    PROVE  Sums(counts, S, sum)
  <1> DEFINE P == {T \in SUBSET S : \A x \in T : sum[T] = counts[x] + sum[T \ {x}]}
  <1>1. \A T \in SUBSET S : sum[T] \in Nat
    BY AddsNat
  <1>2. ASSUME NEW T \in SUBSET S, \A U \in SUBSET T : U # T => U \in P
        PROVE  T \in P
    <2>1. SUFFICES ASSUME NEW x \in T PROVE sum[T] = counts[x] + sum[T \ {x}]
      OBVIOUS
    <2>2. PICK c \in T : sum[T] = counts[c] + sum[T \ {c}]
      BY DEF Adds
    <2>3. CASE x = c
      BY <2>2, <2>3
    <2>4. CASE x # c
      <3> DEFINE rest == (T \ {c}) \ {x}
      <3>1. T \ {c} \in P /\ T \ {x} \in P
        BY <1>2, <2>2
      <3>2. sum[T \ {c}] = counts[x] + sum[rest]
        BY <2>4, <3>1
      <3>3. sum[T \ {x}] = counts[c] + sum[rest]
        <4>1. (T \ {x}) \ {c} = rest
          OBVIOUS
        <4>2. sum[T \ {x}] = counts[c] + sum[(T \ {x}) \ {c}]
          BY <2>4, <3>1
        <4>3. QED
          BY <4>1, <4>2
      <3>4. counts[x] \in Nat /\ counts[c] \in Nat /\ sum[rest] \in Nat
        BY <1>1
      <3> HIDE DEF rest
      <3>5. QED
        BY <2>2, <3>2, <3>3, <3>4
    <2>5. QED
      BY <2>3, <2>4
  <1>3. SUBSET S \subseteq P
    <2> HIDE DEF P
    <2> QED BY <1>2, SubsetsFrom
  <1>4. sum[{}] = 0
    BY DEF Adds
  <1>5. \A T \in SUBSET S : \A x \in T : sum[T] = counts[x] + sum[T \ {x}]
    BY <1>3
  <1>6. QED
    BY <1>1, <1>4, <1>5 DEF Sums

\* So Total is a sum in this sense.
LEMMA TotalSums ==
    ASSUME NEW K \in Nat, NEW counts \in [1..K -> Nat]
    PROVE  \E sum : Sums(counts, 1..K, sum) /\ Total(counts) = sum[1..K]
  <1>1. PICK sum : Adds(counts, SUBSET (1..K), sum) /\ Total(counts) = sum[1..K]
    BY TotalAdds
  <1>2. IsFiniteSet(1..K)
    BY FS_Interval
  <1>3. Sums(counts, 1..K, sum)
    BY <1>1, <1>2, AddsSums
  <1>4. QED
    BY <1>1, <1>3

\* Larger counts have a larger sum.
LEMMA SumsMonotone ==
    ASSUME NEW S, NEW f, NEW g, NEW sumF, NEW sumG, Sums(f, S, sumF), Sums(g, S, sumG),
           NEW R \in SUBSET S, IsFiniteSet(R),
           \A x \in R : f[x] \in Nat /\ g[x] \in Nat /\ f[x] <= g[x]
    PROVE  sumF[R] <= sumG[R]
  <1> DEFINE P == {T \in SUBSET R : sumF[T] <= sumG[T]}
  <1>1. ASSUME NEW T \in SUBSET R, \A U \in SUBSET T : U # T => U \in P
        PROVE  T \in P
    <2>1. CASE T = {}
      BY <2>1 DEF Sums
    <2>2. CASE T # {}
      <3>1. PICK x \in T : TRUE
        BY <2>2
      <3>2. T \ {x} \in P
        BY <1>1, <3>1
      <3>3. sumF[T] = f[x] + sumF[T \ {x}] /\ sumG[T] = g[x] + sumG[T \ {x}]
        BY DEF Sums
      <3>4. f[x] \in Nat /\ g[x] \in Nat /\ f[x] <= g[x]
        OBVIOUS
      <3>5. sumF[T \ {x}] \in Nat /\ sumG[T \ {x}] \in Nat
        BY DEF Sums
      <3>6. QED
        BY <3>2, <3>3, <3>4, <3>5
    <2>3. QED
      BY <2>1, <2>2
  <1>2. SUBSET R \subseteq P
    <2> HIDE DEF P
    <2> QED BY <1>1, SubsetsFrom
  <1>3. QED
    BY <1>2

\* Counts that agree on a set have one sum there.
LEMMA SumsAgree ==
    ASSUME NEW S, NEW f, NEW g, NEW sumF, NEW sumG, Sums(f, S, sumF), Sums(g, S, sumG),
           NEW R \in SUBSET S, IsFiniteSet(R),
           \A x \in R : g[x] \in Nat /\ f[x] = g[x]
    PROVE  sumF[R] = sumG[R]
  <1>1. /\ \A x \in R : f[x] \in Nat /\ g[x] \in Nat /\ f[x] <= g[x]
        /\ \A x \in R : g[x] \in Nat /\ f[x] \in Nat /\ g[x] <= f[x]
    OBVIOUS
  <1>2. sumF[R] <= sumG[R]
    BY <1>1, SumsMonotone
  <1>3. sumG[R] <= sumF[R]
    BY <1>1, SumsMonotone
  <1>4. sumF[R] \in Nat /\ sumG[R] \in Nat
    BY DEF Sums
  <1>5. QED
    BY <1>2, <1>3, <1>4

\* So the total of larger counters is larger.
LEMMA TotalMonotone ==
    ASSUME NEW K \in Nat, NEW f \in [1..K -> Nat], NEW g \in [1..K -> Nat],
           \A age \in 1..K : f[age] <= g[age]
    PROVE  Total(f) <= Total(g)
  <1> DEFINE D == 1..K
  <1>1. IsFiniteSet(D)
    BY FS_Interval
  <1>2. PICK sumF : Sums(f, D, sumF) /\ Total(f) = sumF[D]
    BY TotalSums
  <1>3. PICK sumG : Sums(g, D, sumG) /\ Total(g) = sumG[D]
    BY TotalSums
  <1>4. sumF[D] <= sumG[D]
    <2>1. D \in SUBSET D
      OBVIOUS
    <2>2. \A age \in D : f[age] \in Nat /\ g[age] \in Nat /\ f[age] <= g[age]
      OBVIOUS
    <2>3. Sums(f, D, sumF) /\ Sums(g, D, sumG)
      BY <1>2, <1>3
    <2> HIDE DEF D
    <2>4. QED
      BY <1>1, <2>1, <2>2, <2>3, SumsMonotone
  <1>5. QED
    BY <1>2, <1>3, <1>4

\* A total is a number.
LEMMA TotalNat ==
    ASSUME NEW K \in Nat, NEW counts \in [1..K -> Nat]
    PROVE  Total(counts) \in Nat
  <1>1. PICK sum : Sums(counts, 1..K, sum) /\ Total(counts) = sum[1..K]
    BY TotalSums
  <1>2. QED
    BY <1>1 DEF Sums

\* Without counts there is none.
LEMMA TotalNone ==
    ASSUME NEW K \in Nat
    PROVE  Total([age \in 1..K |-> 0]) = 0
  <1> DEFINE D == 1..K
             none == [age \in D |-> 0]
  <1>1. none \in [D -> Nat] /\ IsFiniteSet(D)
    BY FS_Interval
  <1>2. PICK sum : Sums(none, D, sum) /\ Total(none) = sum[D]
    BY <1>1, TotalSums
  <1> DEFINE P == {T \in SUBSET D : sum[T] = 0}
  <1>3. \A x \in D : none[x] = 0
    OBVIOUS
  <1> HIDE DEF D, none
  <1>4. ASSUME NEW T \in SUBSET D, \A U \in SUBSET T : U # T => U \in P
        PROVE  T \in P
    <2>1. CASE T = {}
      BY <1>2, <2>1 DEF Sums
    <2>2. CASE T # {}
      <3>1. PICK x \in T : TRUE
        BY <2>2
      <3>2. T \ {x} \in P
        BY <1>4, <3>1
      <3>3. sum[T] = none[x] + sum[T \ {x}]
        BY <1>2 DEF Sums
      <3>4. QED
        BY <1>3, <3>2, <3>3
    <2>3. QED
      BY <2>1, <2>2
  <1>5. SUBSET D \subseteq P
    <2> HIDE DEF P
    <2> QED BY <1>1, <1>4, SubsetsFrom
  <1>6. Total(none) = 0
    BY <1>2, <1>5
  <1>7. QED
    BY <1>6 DEF none, D

\* A counter is at most the total.
LEMMA AtMostTotal ==
    ASSUME NEW K \in Nat, NEW counts \in [1..K -> Nat], NEW age \in 1..K
    PROVE  counts[age] <= Total(counts)
  <1> DEFINE D == 1..K
             rest == D \ {age}
  <1>1. PICK sum : Sums(counts, D, sum) /\ Total(counts) = sum[D]
    BY TotalSums
  <1>2. age \in D /\ counts \in [D -> Nat] /\ rest \in SUBSET D
    OBVIOUS
  <1> HIDE DEF D
  <1>3. sum[D] = counts[age] + sum[rest] /\ sum[rest] \in Nat /\ counts[age] \in Nat
    BY <1>1, <1>2 DEF Sums
  <1>4. QED
    BY <1>1, <1>3

\* Counting adds one, or nothing where the counter of the age is full.
LEMMA TotalCounted ==
    ASSUME NEW K \in Nat \ {0}, NEW limit \in Nat, NEW counts \in [1..K -> Nat], NEW now \in 1..K
    PROVE  Total(Counted(counts, now, limit)) <= Total(counts) + 1
  <1> DEFINE more == Counted(counts, now, limit)
             Rest == (1..K) \ {now}
  <1>1. IsFiniteSet(1..K) /\ now \in 1..K /\ IsFiniteSet(Rest)
    <2>1. IsFiniteSet(1..K) /\ now \in 1..K
      BY FS_Interval
    <2>2. Rest \in SUBSET (1..K)
      OBVIOUS
    <2>3. IsFiniteSet(Rest)
      <3> HIDE DEF Rest
      <3> QED BY <2>1, <2>2, FS_Subset
    <2>4. QED
      BY <2>1, <2>3
  <1>2. /\ more \in [1..K -> Nat] /\ more[now] <= counts[now] + 1
        /\ \A age \in Rest : more[age] = counts[age]
    BY <1>1 DEF Counted
  <1> HIDE DEF more
  <1>3. PICK sum : Sums(counts, 1..K, sum) /\ Total(counts) = sum[1..K]
    BY TotalSums
  <1>4. PICK sumM : Sums(more, 1..K, sumM) /\ Total(more) = sumM[1..K]
    BY <1>2, TotalSums
  <1>5. /\ sum[1..K] = counts[now] + sum[Rest]
        /\ sumM[1..K] = more[now] + sumM[Rest]
        /\ sum[Rest] \in Nat /\ sumM[Rest] \in Nat
    BY <1>1, <1>3, <1>4 DEF Sums
  <1>6. Rest \in SUBSET (1..K)
    OBVIOUS
  <1> HIDE DEF Rest
  <1>7. sumM[Rest] = sum[Rest]
    <2> DEFINE D == 1..K
    <2>1. Rest \in SUBSET D /\ Sums(counts, D, sum) /\ Sums(more, D, sumM)
      BY <1>3, <1>4, <1>6
    <2> HIDE DEF D
    <2>2. IsFiniteSet(Rest) /\ \A age \in Rest : counts[age] \in Nat /\ more[age] = counts[age]
      BY <1>1, <1>2, <1>6
    <2>3. QED
      BY <2>1, <2>2, SumsAgree
  <1>8. counts[now] \in Nat /\ more[now] \in Nat
    BY <1>1, <1>2
  <1>9. Total(more) <= Total(counts) + 1
    BY <1>2, <1>3, <1>4, <1>5, <1>7, <1>8
  <1>10. QED
    BY <1>9 DEF more

\* The window moves: what is too old no longer counts.
LEMMA TotalOlder ==
    ASSUME NEW K \in Nat \ {0}, NEW counts \in [1..K -> Nat]
    PROVE  Total(Older(counts)) <= Total(counts)
  <1> DEFINE old == Older(counts)
  <1>1. 1 \in 1..K
    OBVIOUS
  <1>2. old \in [1..K -> Nat] /\ old[1] = 0 /\ \A age \in 1..K : age # 1 => old[age] = counts[age - 1]
    BY <1>1 DEF Older
  <1> HIDE DEF old
  <1>3. PICK sum : Sums(counts, 1..K, sum) /\ Total(counts) = sum[1..K]
    BY TotalSums
  <1>4. PICK sumO : Sums(old, 1..K, sumO) /\ Total(old) = sumO[1..K]
    BY <1>2, TotalSums
  <1> DEFINE P == {k \in Nat : k < K => sumO[1..(k + 1)] = sum[1..k]}
  <1>5. 0 \in P
    <2>1. 1..1 = {1} /\ 1..0 = {} /\ {1} \ {1} = {} /\ {1} \in SUBSET (1..K)
      BY <1>1
    <2>2. sumO[{1}] = old[1] + sumO[{}]
      BY <1>4, <2>1 DEF Sums
    <2>3. sumO[{}] = 0 /\ sum[{}] = 0
      BY <1>3, <1>4 DEF Sums
    <2>4. QED
      BY <1>2, <2>1, <2>2, <2>3
  <1>6. ASSUME NEW k \in Nat, k \in P
        PROVE  k + 1 \in P
    <2>1. SUFFICES ASSUME k + 1 < K PROVE sumO[1..((k + 1) + 1)] = sum[1..(k + 1)]
      OBVIOUS
    <2> DEFINE A == 1..(k + 2)
               B == 1..(k + 1)
               C == 1..k
    <2>2. /\ A \in SUBSET (1..K) /\ k + 2 \in A /\ A \ {k + 2} = B
          /\ B \in SUBSET (1..K) /\ k + 1 \in B /\ B \ {k + 1} = C
      BY <2>1
    <2>3. sumO[B] = sum[C]
      BY <1>6, <2>1
    <2>4. (k + 1) + 1 = k + 2 /\ k + 2 \in 1..K /\ k + 2 # 1 /\ (k + 2) - 1 = k + 1
      BY <2>1
    <2>5. old[k + 2] = counts[k + 1]
      BY <1>2, <2>4
    <2>6. sumO[A] = sum[B]
      <3> HIDE DEF A, B, C
      <3>1. sumO[A] = old[k + 2] + sumO[B]
        BY <1>4, <2>2 DEF Sums
      <3>2. sum[B] = counts[k + 1] + sum[C]
        BY <1>3, <2>2 DEF Sums
      <3>3. QED
        BY <2>3, <2>5, <3>1, <3>2
    <2>7. QED
      BY <2>4, <2>6
  <1>7. K - 1 \in P
    <2>1. Nat \subseteq P
      <3> HIDE DEF P
      <3> QED BY <1>5, <1>6, NaturalsFrom
    <2>2. QED
      BY <2>1
  <1> DEFINE A == 1..K
             B == 1..(K - 1)
  <1>8. sumO[A] = sum[B]
    BY <1>7
  <1>9. K \in A /\ A \ {K} = B /\ B \in SUBSET A
    OBVIOUS
  <1>10. sum[A] = counts[K] + sum[B] /\ sum[B] \in Nat /\ counts[K] \in Nat
    <2>1. Sums(counts, A, sum) /\ counts \in [A -> Nat]
      BY <1>3
    <2> HIDE DEF A, B
    <2>2. QED
      BY <1>9, <2>1 DEF Sums
  <1>11. QED
    BY <1>3, <1>4, <1>8, <1>10 DEF old

-----------------------------------------------------------------------------
(***************************************************************************)
(* Wrong codes.                                                            *)
(***************************************************************************)
\* The invariant behind GuessesBounded: at each age, no more wrong codes were
\* compared than failures audited.
Guessed ==
    /\ \A age \in 1..LockTime : guesses[age] <= failures[age]
    /\ Total(guesses) <= MaxFailed

\* What a step does to the counters of failures and guesses.
CountersStep ==
    \/ UNCHANGED <<failures, guesses>>
    \/ failures' = Older(failures) /\ guesses' = Older(guesses)
    \/ \E age \in 1..LockTime + 1 :
          /\ failures' = Counted(failures, age, MaxFailed)
          /\ \/ guesses' = guesses
             \/ Total(failures) < MaxFailed /\ guesses' = Counted(guesses, age, MaxFailed + 1)

\* There is no other: a failure is audited with every guess, and a code is
\* compared only while the limit is not reached.
LEMMA CountersOfStep ==
    ASSUME AuthTypeOK, [AuthNext]_authVars
    PROVE  CountersStep
  <1> USE DEF CountersStep, dataVars, mailVars, sessionVars, historyVars, accountVars
  <1>1. CASE Tick
    BY <1>1 DEF Tick
  <1>a. \A p \in Request : request[p].age \in 1..LockTime + 1
    BY DEF AuthTypeOK
  <1>2. ASSUME NEW p \in Request, Deny(p, FALSE)
        PROVE  CountersStep
    BY <1>2, <1>a DEF Deny
  <1>3. ASSUME NEW p \in Request, NEW guessed \in BOOLEAN,
               guessed => Total(failures) < MaxFailed, RefuseCode(p, guessed)
        PROVE  CountersStep
    BY <1>3, <1>a DEF RefuseCode, Deny
  <1>4. ASSUME NEW p \in Request, WrongCode(p) \/ WrongTotp(p)
        PROVE  CountersStep
    <2>1. Comparable(p) \in BOOLEAN /\ (Comparable(p) => Total(failures) < MaxFailed)
      BY DEF Comparable
    <2>2. (Total(failures) < MaxFailed) \in BOOLEAN
      OBVIOUS
    <2>3. \/ RefuseCode(p, Comparable(p)) \/ RefuseCode(p, Total(failures) < MaxFailed)
          \/ Deny(p, FALSE)
      BY <1>4 DEF WrongCode, WrongTotp
    <2>4. QED
      BY <1>2, <1>3, <2>1, <2>2, <2>3
  <1>5. ASSUME NEW p \in Request, Step(p), ~WrongCode(p), ~WrongTotp(p)
        PROVE  CountersStep
    <2>1. CASE LoginDenied(p) \/ ChallengeDenied(p)
      <3>1. Deny(p, FALSE) \/ UNCHANGED <<failures, guesses>>
        BY <2>1 DEF LoginDenied, ChallengeDenied, Rollback
      <3>2. QED
        BY <1>2, <3>1
    <2>2. CASE \/ Lookup(p) \/ LockUser(p) \/ RegisterConflict(p) \/ Fail(p)
               \/ Register(p) \/ CreateStaff(p) \/ WrongPassword(p) \/ RightPassword(p)
               \/ LoginRefused(p) \/ VerifyEmail(p) \/ ResendEmail(p) \/ VerifyTotp(p)
               \/ RefreshDenied(p) \/ RefreshReused(p) \/ Refresh(p) \/ Logout(p)
               \/ RequestReset(p) \/ ResetPassword(p) \/ ChangeStaff(p)
      <3>1. UNCHANGED <<failures, guesses>>
        BY <2>2 DEF Lookup, LockUser, RegisterConflict, Fail, Register, CreateStaff,
           WrongPassword, RightPassword, LoginRefused, VerifyEmail, ResendEmail, VerifyTotp,
           RefreshDenied, RefreshReused, Refresh, Logout, RequestReset, ResetPassword,
           ChangeStaff, Rollback
      <3>2. QED
        BY <3>1
    <2>3. QED
      BY <1>5, <2>1, <2>2 DEF Step
  <1>6. CASE UNCHANGED authVars
    BY <1>6 DEF authVars
  <1>7. QED
    BY <1>1, <1>4, <1>5, <1>6 DEF AuthNext

\* None of them lets the guesses pass the limit.
LEMMA GuessedKept ==
    ASSUME AuthTypeOK, Guessed, CountersStep
    PROVE  Guessed'
  <1> DEFINE D == 1..LockTime
  <1>1. /\ LockTime \in Nat \ {0} /\ MaxFailed \in Nat \ {0} /\ 1 \in D
        /\ failures \in [D -> 0..MaxFailed] /\ guesses \in [D -> 0..MaxFailed + 1]
    BY AuthAssumption DEF AuthTypeOK
  <1>2. failures \in [D -> Nat] /\ guesses \in [D -> Nat]
    BY <1>1
  <1>3. Total(guesses) \in Nat /\ Total(failures) \in Nat
    BY <1>1, <1>2, TotalNat
  <1>4. CASE UNCHANGED <<failures, guesses>>
    BY <1>4 DEF Guessed
  <1>5. CASE failures' = Older(failures) /\ guesses' = Older(guesses)
    <2>1. guesses' \in [D -> Nat]
      BY <1>1, <1>2, <1>5 DEF Older
    <2>2. Total(guesses') \in Nat
      BY <1>1, <2>1, TotalNat
    <2>3. Total(guesses') <= Total(guesses)
      BY <1>1, <1>2, <1>5, TotalOlder
    <2>4. Total(guesses') <= MaxFailed
      BY <1>1, <1>3, <2>2, <2>3 DEF Guessed
    <2>5. \A age \in D : age # 1 => age - 1 \in D
      BY <1>1
    <2>6. \A age \in D : guesses'[age] <= failures'[age]
      BY <1>2, <1>5, <2>5 DEF Older, Guessed
    <2>7. QED
      BY <2>4, <2>6 DEF Guessed
  <1>6. ASSUME NEW now \in 1..LockTime + 1,
               failures' = Counted(failures, now, MaxFailed), guesses' = guesses
        PROVE  Guessed'
    <2>1. \A age \in D : failures[age] <= failures'[age]
      BY <1>1, <1>2, <1>6 DEF Counted
    <2>2. \A age \in D : failures'[age] \in Nat
      BY <1>1, <1>2, <1>6 DEF Counted
    <2>3. \A age \in D : guesses'[age] <= failures'[age]
      BY <1>2, <1>6, <2>1, <2>2 DEF Guessed
    <2>4. QED
      BY <1>6, <2>3 DEF Guessed
  \* A failure that has left the window when it is written is not of its guesses.
  <1>7. ASSUME failures' = Counted(failures, LockTime + 1, MaxFailed),
               guesses' = Counted(guesses, LockTime + 1, MaxFailed + 1)
        PROVE  Guessed'
    <2>1. \A age \in D : age # LockTime + 1
      BY <1>1
    <2>2. failures' = failures /\ guesses' = guesses
      BY <1>1, <1>2, <1>7, <2>1 DEF Counted
    <2>3. QED
      BY <2>2 DEF Guessed
  <1>8. ASSUME NEW now \in D, Total(failures) < MaxFailed,
               failures' = Counted(failures, now, MaxFailed),
               guesses' = Counted(guesses, now, MaxFailed + 1)
        PROVE  Guessed'
    <2>1. failures[now] < MaxFailed
      <3>1. failures[now] <= Total(failures)
        BY <1>1, <1>2, AtMostTotal
      <3>2. QED
        BY <1>1, <1>2, <1>3, <1>8, <3>1
    <2>2. /\ failures'[now] = failures[now] + 1
          /\ guesses'[now] <= guesses[now] + 1 /\ guesses'[now] \in Nat
          /\ \A age \in D \ {now} : failures'[age] = failures[age] /\ guesses'[age] = guesses[age]
      BY <1>1, <1>2, <1>8, <2>1 DEF Counted
    <2>3. \A age \in D : guesses'[age] <= failures'[age]
      <3>1. guesses[now] <= failures[now] /\ guesses[now] \in Nat /\ failures[now] \in Nat
        BY <1>1, <1>2 DEF Guessed
      <3>2. guesses'[now] <= failures'[now]
        BY <2>2, <3>1
      <3>3. QED
        BY <2>2, <3>2 DEF Guessed
    <2>4. Total(guesses) <= Total(failures)
      BY <1>1, <1>2, TotalMonotone DEF Guessed
    <2>5. Total(guesses') <= Total(guesses) + 1
      BY <1>1, <1>2, <1>8, TotalCounted
    <2>6. Total(guesses') \in Nat
      <3>1. guesses' \in [D -> Nat]
        BY <1>1, <1>2, <1>8 DEF Counted
      <3>2. QED
        BY <1>1, <3>1, TotalNat
    <2>7. Total(guesses') <= MaxFailed
      BY <1>1, <1>3, <1>8, <2>4, <2>5, <2>6
    <2>8. QED
      BY <2>3, <2>7 DEF Guessed
  <1>9. 1..LockTime + 1 = D \cup {LockTime + 1}
    BY <1>1
  <1>10. QED
    BY <1>4, <1>5, <1>6, <1>7, <1>8, <1>9 DEF CountersStep

\* Of the requests that began within a lock window at most MaxFailed compare a
\* wrong code, whatever requests race, however long they wait for the users row
\* and whenever the clock ticks (recent_mfa_failures under the lock of the user, in
\* verify_code and the email flow; occurred_at of audit_logs): the pointwise
\* comparison holds of the counters of each age, and the sum of the larger ones is
\* below the limit when a guess is let in.
THEOREM GuessesLimited == AuthSpec => []GuessesBounded
  <1>1. AuthInit => Guessed
    <2>1. LockTime \in Nat /\ MaxFailed \in Nat
      BY AuthAssumption
    <2>2. Total([age \in 1..LockTime |-> 0]) = 0
      BY <2>1, TotalNone
    <2>3. QED
      BY <2>1, <2>2 DEF AuthInit, Guessed
  <1>2. AuthInv /\ Guessed /\ [AuthNext]_authVars => Guessed'
    BY GuessedKept, CountersOfStep DEF AuthInv
  <1>3. Guessed => GuessesBounded
    BY DEF Guessed, GuessesBounded
  <1>4. QED
    BY <1>1, <1>2, <1>3, InvHolds, PTL DEF AuthSpec

-----------------------------------------------------------------------------
(***************************************************************************)
(* Families: the chains of session rows.                                   *)
(***************************************************************************)
\* Session rows are taken in order.
RowsInOrder ==
    \A m, n \in Session : n < m /\ session[m].kind # "none" => session[n].kind # "none"

\* Towards the open session of its family, every other row of it was replaced
\* by a later one.
Linked ==
    \A m, n \in Session :
        /\ session[m].kind = "token" /\ session[n].kind = "token"
        /\ session[m].family = session[n].family
        /\ ~session[n].revoked /\ m # n
        => LET next == session[m].replaced
           IN  /\ next \in Session /\ m < next
               /\ session[next].kind = "token" /\ session[next].family = session[n].family

\* A family that was answered to have ended has no open session.
Ended ==
    /\ \A f \in signedOut : session[f].kind = "token"
    /\ \A n \in Session : session[n].kind = "token" /\ ~session[n].revoked
                             => session[n].family \notin signedOut

\* The invariant behind SignedOutStaysOut.
FamiliesInv == RowsInOrder /\ Linked /\ Ended

\* chain is the recursive query from the row n, after each of K rounds.
Rounds(n, K, chain) ==
    chain = [k \in 0..K |->
                IF k = 0 THEN {n}
                ELSE chain[k - 1] \cup {session[m].replaced : m \in chain[k - 1] \ {0}}]

\* The query has an answer: the rounds are determined one after the other.
LEMMA RoundsExist ==
    ASSUME NEW n, NEW K \in Nat
    PROVE  \E chain : Rounds(n, K, chain)
  <1> DEFINE P == {j \in Nat : \E chain : Rounds(n, j, chain)}
  <1>1. 0 \in P
    <2>1. Rounds(n, 0, [k \in 0..0 |-> {n}])
      BY DEF Rounds
    <2>2. QED
      BY <2>1
  <1>2. ASSUME NEW j \in Nat, j \in P
        PROVE  j + 1 \in P
    <2>1. PICK chain : Rounds(n, j, chain)
      BY <1>2
    <2> DEFINE D == 0..(j + 1)
               More(c, k) == IF k = 0 THEN {n}
                             ELSE c[k - 1] \cup {session[m].replaced : m \in c[k - 1] \ {0}}
               next == [k \in D |-> More(chain, k)]
    <2>2. \A k \in 0..j : next[k] = chain[k]
      <3>1. chain = [k \in 0..j |-> More(chain, k)]
        BY <2>1 DEF Rounds
      <3>2. \A k \in 0..j : k \in D
        OBVIOUS
      <3> HIDE DEF D, More
      <3>3. \A k \in 0..j : chain[k] = More(chain, k)
        BY <3>1, Zenon
      <3>4. QED
        BY <3>2, <3>3
    <2>3. \A k \in D : k # 0 => chain[k - 1] = next[k - 1]
      <3>1. \A k \in D : k # 0 => k - 1 \in 0..j
        OBVIOUS
      <3> HIDE DEF next, D
      <3>2. QED
        BY <2>2, <3>1
    <2>4. next = [k \in D |-> More(chain, k)]
      OBVIOUS
    <2> HIDE DEF next, D
    <2>5. \A k \in D : More(chain, k) = More(next, k)
      BY <2>3
    <2>6. next = [k \in D |-> More(next, k)]
      <3> HIDE DEF More
      <3> QED BY <2>4, <2>5, Zenon
    <2>7. Rounds(n, j + 1, next)
      BY <2>6 DEF Rounds, D
    <2>8. QED
      BY <2>7
  <1>3. Nat \subseteq P
    <2> HIDE DEF P
    <2> QED BY <1>1, <1>2, NaturalsFrom
  <1>4. QED
    BY <1>3

\* It is what RotatedInto stands for.
LEMMA RotatedRounds ==
    ASSUME NEW n
    PROVE  \E chain : /\ chain[0] = {n}
                      /\ \A k \in 1..Cardinality(Session) :
                            chain[k] = chain[k - 1] \cup {session[m].replaced : m \in chain[k - 1] \ {0}}
                      /\ RotatedInto(n) = chain[Cardinality(Session)] \ {0}
  <1> DEFINE K == Cardinality(Session)
             chain == CHOOSE c : Rounds(n, K, c)
  <1>1. K \in Nat
    BY AuthAssumption, FS_CardinalityType
  <1>2. Rounds(n, K, chain)
    BY <1>1, RoundsExist
  <1>3. RotatedInto(n) = chain[K] \ {0}
    BY DEF RotatedInto, Rounds
  <1> HIDE DEF chain, K
  <1>4. /\ chain[0] = {n}
        /\ \A k \in 1..K : chain[k] = chain[k - 1] \cup {session[m].replaced : m \in chain[k - 1] \ {0}}
    BY <1>1, <1>2 DEF Rounds
  <1>5. QED
    BY <1>3, <1>4 DEF K

\* The recursive query reaches the open session of the family.
LEMMA ChainReaches ==
    ASSUME AuthInv, FamiliesInv, NEW arg \in Session, NEW n \in Session,
           session[arg].kind = "token", session[n].kind = "token",
           session[arg].family = session[n].family, ~session[n].revoked
    PROVE  n \in RotatedInto(arg)
  <1> DEFINE K == Cardinality(Session)
             Above(x) == {j \in Session : j > x}
             Far(x, left) == /\ x \in Session /\ x # n /\ session[x].kind = "token"
                             /\ session[x].family = session[n].family
                             /\ Cardinality(Above(x)) <= left
  <1>1. Session \subseteq Nat \ {0} /\ IsFiniteSet(Session) /\ K \in Nat
    BY AuthAssumption, FS_CardinalityType
  <1>2. PICK chain : /\ chain[0] = {arg}
                     /\ \A k \in 1..K :
                           chain[k] = chain[k - 1] \cup {session[m].replaced : m \in chain[k - 1] \ {0}}
                     /\ RotatedInto(arg) = chain[K] \ {0}
    BY RotatedRounds
  <1>3. \A x : IsFiniteSet(Above(x)) /\ Cardinality(Above(x)) \in Nat
    <2>1. \A x : Above(x) \in SUBSET Session
      OBVIOUS
    <2> HIDE DEF Above
    <2>2. \A x : IsFiniteSet(Above(x))
      BY <1>1, <2>1, FS_Subset
    <2>3. QED
      BY <2>2, FS_CardinalityType
  <1>4. ASSUME NEW x \in Session, NEW S, IsFiniteSet(S), S \subseteq Session, x \in S,
               NEW T, T \subseteq S \ {x}
        PROVE  IsFiniteSet(T) /\ Cardinality(T) <= Cardinality(S) - 1
    <2>1. IsFiniteSet(S \ {x}) /\ Cardinality(S \ {x}) = Cardinality(S) - 1
      BY <1>4, FS_RemoveElement
    <2>2. IsFiniteSet(T) /\ Cardinality(T) <= Cardinality(S \ {x})
      BY <1>4, <2>1, FS_Subset
    <2>3. QED
      BY <2>1, <2>2
  <1> DEFINE Near(k) == n \in chain[k] \/ \E x \in chain[k] : Far(x, K - 1 - k)
             P == {k \in Nat : k <= K => Near(k)}
  <1>5. 0 \in P
    <2>1. CASE arg = n
      BY <1>2, <2>1
    <2>2. CASE arg # n
      <3>1. Above(arg) \subseteq Session \ {arg}
        <4>1. arg \in Nat
          BY <1>1
        <4>2. ~(arg > arg)
          BY <4>1
        <4>3. QED
          BY <4>2
      <3>2. Cardinality(Above(arg)) <= K - 1
        <4> HIDE DEF Above
        <4> QED BY <1>1, <1>4, <3>1
      <3>3. Far(arg, K - 1 - 0)
        BY <1>1, <2>2, <3>2
      <3>4. QED
        BY <1>2, <3>3
    <2>3. QED
      BY <2>1, <2>2
  <1>6. ASSUME NEW k \in Nat, k \in P
        PROVE  k + 1 \in P
    <2>1. SUFFICES ASSUME k + 1 <= K
                   PROVE  Near(k + 1)
      <3> HIDE DEF Near
      <3> QED OBVIOUS
    <2>2. k + 1 \in 1..K /\ (k + 1) - 1 = k
      BY <1>1, <2>1
    <2>3. chain[k + 1] = chain[k] \cup {session[m].replaced : m \in chain[k] \ {0}}
      BY <1>2, <2>2
    <2>4. CASE n \in chain[k]
      BY <2>3, <2>4
    <2>5. ASSUME NEW x \in chain[k], Far(x, K - 1 - k)
          PROVE  Near(k + 1)
      <3> DEFINE y == session[x].replaced
      <3>1. x # 0 /\ x \in Session /\ x \in Nat
        BY <1>1, <2>5
      <3>2. /\ y \in Session /\ x < y /\ y \in Nat
            /\ session[y].kind = "token" /\ session[y].family = session[n].family
        BY <1>1, <2>5, <3>1 DEF FamiliesInv, Linked
      <3>3. y \in chain[k + 1]
        BY <2>3, <3>1
      <3>4. y \in Above(x) /\ Above(y) \subseteq Above(x) \ {y} /\ Above(x) \subseteq Session
        <4>1. x \in Nat /\ y \in Nat /\ x < y /\ \A j \in Session : j \in Nat
          BY <1>1, <3>1, <3>2
        <4>2. \A j \in Session : j > y => j > x /\ j # y
          <5> HIDE DEF y
          <5> QED BY <4>1
        <4>3. y > x
          <5> HIDE DEF y
          <5> QED BY <4>1
        <4>4. y \in Session
          BY <3>2
        <4> HIDE DEF y
        <4>5. QED
          BY <4>2, <4>3, <4>4
      <3>5. Cardinality(Above(y)) <= Cardinality(Above(x)) - 1
        <4> HIDE DEF Above, y
        <4> QED BY <1>3, <1>4, <3>2, <3>4
      <3>6. Cardinality(Above(y)) <= K - 1 - (k + 1)
        <4>1. Cardinality(Above(x)) <= K - 1 - k
          BY <2>5
        <4> HIDE DEF Above, y
        <4>2. QED
          BY <1>1, <1>3, <3>5, <4>1
      <3>7. CASE y = n
        BY <3>3, <3>7
      <3>8. CASE y # n
        <4>1. Far(y, K - 1 - (k + 1))
          BY <3>2, <3>6, <3>8
        <4>2. QED
          BY <3>3, <4>1
      <3>9. QED
        BY <3>7, <3>8
    <2>6. Near(k)
      <3> HIDE DEF Near
      <3> QED BY <1>1, <1>6, <2>1
    <2>7. QED
      BY <2>4, <2>5, <2>6
  <1>7. K \in P
    <2>1. Nat \subseteq P
      <3> HIDE DEF P
      <3> QED BY <1>5, <1>6, NaturalsFrom
    <2>2. QED
      BY <1>1, <2>1
  <1>8. ASSUME NEW x, Far(x, K - 1 - K)
        PROVE  FALSE
    <2>1. Cardinality(Above(x)) <= K - 1 - K /\ Cardinality(Above(x)) \in Nat
      BY <1>3, <1>8
    <2> HIDE DEF Above
    <2>2. QED
      BY <1>1, <2>1
  <1>9. n \in chain[K]
    <2>1. Near(K)
      <3> HIDE DEF Near
      <3> QED BY <1>1, <1>7
    <2> HIDE DEF Far
    <2>2. QED
      BY <1>8, <2>1
  <1>10. QED
    BY <1>1, <1>2, <1>9

-----------------------------------------------------------------------------
\* Row m keeps its kind, its family and its successor, and may be revoked.
Stays(m) ==
    /\ session'[m].kind = session[m].kind
    /\ session'[m].family = session[m].family
    /\ session'[m].replaced = session[m].replaced
    /\ ~session'[m].revoked => ~session[m].revoked

\* A new row is the next one.
LEMMA OrderKept ==
    ASSUME RowsInOrder, NEW n \in Session, FreshSession(n),
           \A m \in Session \ {n} : session'[m].kind = session[m].kind
    PROVE  RowsInOrder'
  <1>1. Session \subseteq Nat
    BY AuthAssumption
  <1>2. session[n].kind = "none" /\ \A m \in Session : m < n => session[m].kind # "none"
    BY DEF FreshSession, NextId
  <1>3. SUFFICES ASSUME NEW k \in Session, NEW m \in Session, m < k, session'[k].kind # "none"
                 PROVE  session'[m].kind # "none"
    BY DEF RowsInOrder
  <1>4. m # k
    BY <1>1, <1>3
  <1>5. CASE k = n
    BY <1>2, <1>3, <1>4, <1>5
  <1>6. CASE k # n
    BY <1>2, <1>3, <1>6 DEF RowsInOrder
  <1>7. QED
    BY <1>5, <1>6

\* No token is issued; the rows of tokens stay, or are revoked.
TokensStay ==
    \A m \in Session :
        /\ session'[m].kind = "token" <=> session[m].kind = "token"
        /\ session[m].kind = "token" => Stays(m)

\* Then the links of the chains stay, ...
LEMMA LinksStay ==
    ASSUME FamiliesInv, TokensStay
    PROVE  Linked'
  <1>1. SUFFICES ASSUME NEW m \in Session, NEW n \in Session,
                        session'[m].kind = "token", session'[n].kind = "token",
                        session'[m].family = session'[n].family,
                        ~session'[n].revoked, m # n
                 PROVE  /\ session'[m].replaced \in Session /\ m < session'[m].replaced
                        /\ session'[session'[m].replaced].kind = "token"
                        /\ session'[session'[m].replaced].family = session'[n].family
    BY DEF Linked
  <1>2. /\ session[m].kind = "token" /\ session[n].kind = "token"
        /\ session[m].family = session[n].family /\ ~session[n].revoked
        /\ session'[m].replaced = session[m].replaced /\ session'[n].family = session[n].family
    BY <1>1 DEF TokensStay, Stays
  <1>3. /\ session[m].replaced \in Session /\ m < session[m].replaced
        /\ session[session[m].replaced].kind = "token"
        /\ session[session[m].replaced].family = session[n].family
    BY <1>1, <1>2 DEF FamiliesInv, Linked
  <1>4. QED
    BY <1>2, <1>3 DEF TokensStay, Stays

\* ... and so do the ends.
LEMMA EndsStay ==
    ASSUME FamiliesInv, TokensStay, signedOut \subseteq Session, signedOut' = signedOut
    PROVE  Ended'
  <1>1. \A f \in signedOut' : session'[f].kind = "token"
    BY DEF FamiliesInv, Ended, TokensStay
  <1>2. \A n \in Session : session'[n].kind = "token" /\ ~session'[n].revoked
                             => session'[n].family \notin signedOut'
    BY DEF FamiliesInv, Ended, TokensStay, Stays
  <1>3. QED
    BY <1>1, <1>2 DEF Ended

\* The family of the presented token ends.
LEMMA EndsAdded ==
    ASSUME AuthInv, FamiliesInv, TokensStay, NEW arg \in Session, session[arg].kind = "token",
           \A m \in RotatedInto(arg) \cap Session : session'[m].revoked,
           signedOut' = signedOut \cup {session[arg].family}
    PROVE  Ended'
  <1>1. signedOut \subseteq Session /\ session[arg].family \in Session
        /\ session[session[arg].family].kind = "token"
    BY DEF AuthInv, AuthTypeOK, RowsFit
  <1>2. \A f \in signedOut' : session'[f].kind = "token"
    BY <1>1 DEF FamiliesInv, Ended, TokensStay
  <1>3. ASSUME NEW n \in Session, session'[n].kind = "token", ~session'[n].revoked
        PROVE  session'[n].family \notin signedOut'
    <2>1. session[n].kind = "token" /\ session'[n].family = session[n].family /\ ~session[n].revoked
      BY <1>3 DEF TokensStay, Stays
    <2>2. session[n].family \notin signedOut
      BY <2>1 DEF FamiliesInv, Ended
    <2>3. session[n].family # session[arg].family
      <3>1. n \notin RotatedInto(arg)
        BY <1>3
      <3>2. QED
        BY <2>1, <3>1, ChainReaches
    <2>4. QED
      BY <2>1, <2>2, <2>3
  <1>4. QED
    BY <1>2, <1>3 DEF Ended

\* A family starts: nothing else of it exists, and nobody signed out of it.
LEMMA FamilyStarts ==
    ASSUME AuthInv, FamiliesInv, NEW n \in Session, FreshSession(n),
           session'[n].kind = "token", session'[n].family = n,
           \A m \in Session \ {n} : session'[m].kind = session[m].kind,
           \/ \A m \in Session \ {n} : session[m].kind = "token" => Stays(m)
           \/ \A m \in Session \ {n} : session[m].kind = "token" =>
                 session'[m].revoked /\ session'[m].family = session[m].family,
           signedOut' = signedOut
    PROVE  FamiliesInv'
  <1>1. /\ session[n].kind = "none" /\ signedOut \subseteq Session
        /\ \A m \in Session : session[m].kind = "token" =>
              /\ session[m].family \in Session
              /\ session[session[m].family].kind = "token"
    BY DEF FreshSession, NextId, AuthInv, AuthTypeOK, RowsFit
  <1>2. \A m \in Session \ {n} : session'[m].kind = "token" =>
          /\ session[m].kind = "token"
          /\ session'[m].family = session[m].family /\ session'[m].family # n
          /\ ~session'[m].revoked => ~session[m].revoked
    BY <1>1 DEF Stays
  <1>3. RowsInOrder'
    BY OrderKept DEF FamiliesInv
  <1>4. Linked'
    <2>1. SUFFICES ASSUME NEW m \in Session, NEW k \in Session,
                          session'[m].kind = "token", session'[k].kind = "token",
                          session'[m].family = session'[k].family,
                          ~session'[k].revoked, m # k
                   PROVE  /\ session'[m].replaced \in Session /\ m < session'[m].replaced
                          /\ session'[session'[m].replaced].kind = "token"
                          /\ session'[session'[m].replaced].family = session'[k].family
      BY DEF Linked
    <2>2. m # n /\ k # n
      BY <1>2, <2>1
    <2>3. /\ session[m].kind = "token" /\ session[k].kind = "token"
          /\ session[m].family = session[k].family /\ ~session[k].revoked
          /\ session'[k].family = session[k].family
      BY <1>2, <2>1, <2>2
    <2>4. /\ session[m].replaced \in Session /\ m < session[m].replaced
          /\ session[session[m].replaced].kind = "token"
          /\ session[session[m].replaced].family = session[k].family
      BY <2>1, <2>3 DEF FamiliesInv, Linked
    <2>5. Stays(m)
      BY <2>1, <2>2, <2>3
    <2>6. session[m].replaced # n
      BY <1>1, <2>4
    <2>7. Stays(session[m].replaced)
      BY <2>1, <2>2, <2>3, <2>4, <2>6
    <2>8. QED
      BY <2>3, <2>4, <2>5, <2>7 DEF Stays
  <1>5. Ended'
    <2>1. \A f \in signedOut : f # n /\ session'[f].kind = "token"
      BY <1>1 DEF FamiliesInv, Ended
    <2>2. \A m \in Session : session'[m].kind = "token" /\ ~session'[m].revoked
                             => session'[m].family \notin signedOut
      BY <1>2, <2>1 DEF FamiliesInv, Ended
    <2>3. QED
      BY <2>1, <2>2 DEF Ended
  <1>6. QED
    BY <1>3, <1>4, <1>5 DEF FamiliesInv

\* A refresh: the open session of a family is replaced by the next row.
LEMMA FamilyGoesOn ==
    ASSUME AuthInv, FamiliesInv, NEW n \in Session, NEW previous \in Session,
           FreshSession(n), session[previous].kind = "token", ~session[previous].revoked,
           session'[n].kind = "token", session'[n].family = session[previous].family,
           session'[previous].kind = "token",
           session'[previous].family = session[previous].family,
           session'[previous].revoked, session'[previous].replaced = n,
           \A m \in Session \ {n, previous} : session'[m] = session[m],
           signedOut' = signedOut
    PROVE  FamiliesInv'
  <1>1. /\ session[n].kind = "none" /\ signedOut \subseteq Session /\ Session \subseteq Nat
        /\ \A m \in Session : m < n => session[m].kind # "none"
    BY AuthAssumption DEF FreshSession, NextId, AuthInv, AuthTypeOK
  <1>2. previous < n
    <2>1. previous # n /\ ~(n < previous)
      BY <1>1 DEF FamiliesInv, RowsInOrder
    <2>2. QED
      BY <1>1, <2>1
  <1>3. \A m \in Session \ {n} : session'[m].kind = session[m].kind
                                  /\ session'[m].family = session[m].family
    BY <1>1
  <1>4. RowsInOrder'
    BY <1>3, OrderKept DEF FamiliesInv
  <1>5. \A m \in Session :
          /\ session[m].kind = "token" /\ session[m].family = session[previous].family
          /\ ~session[m].revoked
          => m = previous
    BY DEF AuthInv, RowsFit
  <1>6. Linked'
    <2>1. SUFFICES ASSUME NEW m \in Session, NEW k \in Session,
                          session'[m].kind = "token", session'[k].kind = "token",
                          session'[m].family = session'[k].family,
                          ~session'[k].revoked, m # k
                   PROVE  /\ session'[m].replaced \in Session /\ m < session'[m].replaced
                          /\ session'[session'[m].replaced].kind = "token"
                          /\ session'[session'[m].replaced].family = session'[k].family
      BY DEF Linked
    <2>2. CASE m = previous
      BY <1>2, <2>1, <2>2
    <2>3. CASE m = n
      <3>1. k # n /\ k # previous
        BY <2>1, <2>3
      <3>2. session[k].kind = "token" /\ session[k].family = session[previous].family
            /\ ~session[k].revoked
        BY <2>1, <2>3, <3>1
      <3>3. QED
        BY <1>5, <3>1, <3>2
    <2>4. CASE m # previous /\ m # n
      <3> DEFINE open == IF k = n THEN previous ELSE k
      <3>1. /\ open \in Session /\ session[open].kind = "token" /\ ~session[open].revoked
            /\ session[m].kind = "token" /\ session[m].family = session[open].family
            /\ session'[k].family = session[open].family /\ m # open
            /\ session'[m] = session[m]
        BY <1>3, <2>1, <2>4
      <3>2. /\ session[m].replaced \in Session /\ m < session[m].replaced
            /\ session[session[m].replaced].kind = "token"
            /\ session[session[m].replaced].family = session[open].family
        BY <3>1 DEF FamiliesInv, Linked
      <3>3. session[m].replaced # n
        BY <1>1, <3>2
      <3>4. QED
        BY <1>3, <3>1, <3>2, <3>3
    <2>5. QED
      BY <2>2, <2>3, <2>4
  <1>7. Ended'
    <2>1. \A f \in signedOut : session'[f].kind = "token"
      BY <1>1, <1>3 DEF FamiliesInv, Ended
    <2>2. session[previous].family \notin signedOut
      BY DEF FamiliesInv, Ended
    <2>3. \A m \in Session \ {n, previous} :
            session'[m].kind = "token" /\ ~session'[m].revoked
            => session'[m].family \notin signedOut
      BY DEF FamiliesInv, Ended
    <2>4. QED
      BY <2>1, <2>2, <2>3 DEF Ended
  <1>8. QED
    BY <1>4, <1>6, <1>7 DEF FamiliesInv

-----------------------------------------------------------------------------
\* The transactions: the rows are revoked, ...
LEMMA FamiliesRevoked ==
    ASSUME AuthInv, FamiliesInv, NEW R \in [Session -> BOOLEAN],
           session' = [m \in Session |-> [session[m] EXCEPT !.revoked = @ \/ R[m]]],
           signedOut' = signedOut
    PROVE  FamiliesInv'
  <1>1. \A m \in Session : session[m] \in Sessions
    BY RowsOfInv DEF RowsTyped
  <1>2. \A m \in Session : Stays(m)
    BY <1>1 DEF Sessions, Stays
  <1>3. TokensStay /\ RowsInOrder'
    BY <1>2 DEF TokensStay, Stays, FamiliesInv, RowsInOrder
  <1>4. signedOut \subseteq Session
    BY DEF AuthInv, AuthTypeOK
  <1>5. QED
    BY <1>3, <1>4, LinksStay, EndsStay DEF FamiliesInv

\* ... a family ends by its chain, ...
LEMMA FamiliesEnded ==
    ASSUME AuthInv, FamiliesInv, NEW arg \in Session, session[arg].kind = "token",
           session' = RevokeChain(arg), signedOut' = signedOut \cup {session[arg].family}
    PROVE  FamiliesInv'
  <1> DEFINE R == [m \in Session |-> m \in RotatedInto(arg)]
  <1>1. /\ session' = [m \in Session |-> [session[m] EXCEPT !.revoked = @ \/ R[m]]]
        /\ R \in [Session -> BOOLEAN]
        /\ \A m \in RotatedInto(arg) \cap Session : R[m]
    <2>1. session' = [m \in Session |-> [session[m] EXCEPT !.revoked = @ \/ R[m]]]
      BY DEF RevokeChain, RevokedIf
    <2>2. R \in [Session -> BOOLEAN]
      OBVIOUS
    <2>3. ASSUME NEW m \in RotatedInto(arg) \cap Session
          PROVE  R[m]
      <3>1. m \in Session /\ m \in RotatedInto(arg)
        OBVIOUS
      <3>2. R[m] = (m \in RotatedInto(arg))
        BY <3>1, Zenon
      <3>3. QED
        BY <3>1, <3>2, Zenon
    <2>4. QED
      BY <2>1, <2>2, <2>3
  <1> HIDE DEF R
  <1>2. \A m \in Session : session[m] \in Sessions
    BY RowsOfInv DEF RowsTyped
  <1>3. \A m \in Session : Stays(m) /\ (R[m] => session'[m].revoked)
    BY <1>1, <1>2 DEF Sessions, Stays
  <1>4. TokensStay /\ RowsInOrder'
    BY <1>3 DEF TokensStay, Stays, FamiliesInv, RowsInOrder
  <1>5. \A m \in RotatedInto(arg) \cap Session : session'[m].revoked
    BY <1>1, <1>3
  <1>6. QED
    BY <1>4, <1>5, LinksStay, EndsAdded DEF FamiliesInv

\* ... a row is added that is no token, ...
LEMMA FamiliesBeside ==
    ASSUME AuthInv, FamiliesInv, NEW n \in Session, FreshSession(n),
           session'[n].kind \in {"email", "totp"},
           \A m \in Session \ {n} : Stays(m), signedOut' = signedOut
    PROVE  FamiliesInv'
  <1>1. session[n].kind = "none" /\ signedOut \subseteq Session
    BY DEF FreshSession, NextId, AuthInv, AuthTypeOK
  <1>2. TokensStay /\ RowsInOrder'
    BY <1>1, OrderKept DEF TokensStay, Stays, FamiliesInv
  <1>3. QED
    BY <1>1, <1>2, LinksStay, EndsStay DEF FamiliesInv

\* the challenge of an email code, ...
LEMMA FamiliesSent ==
    ASSUME AuthInv, FamiliesInv, NEW n \in Session, NEW purpose, NEW delivered \in BOOLEAN,
           NEW consumed, Send(n, purpose, delivered, consumed), signedOut' = signedOut
    PROVE  FamiliesInv'
  <1>1. RowsTyped
    BY RowsOfInv
  <1> DEFINE R == [m \in Session |-> Superseded(m) \/ m = consumed]
  <1>2. /\ FreshSession(n) /\ R \in [Session -> BOOLEAN]
        /\ session' = [m \in Session |->
              IF m = n
                THEN [kind |-> "email", revoked |-> ~delivered, life |-> ChallengeTime,
                      replaced |-> 0, family |-> 0]
                ELSE [session[m] EXCEPT !.revoked = @ \/ R[m]]]
    BY <1>1 DEF Send, RevokedIf, RowsTyped
  <1> HIDE DEF R
  <1>3. \A m \in Session \ {n} : Stays(m)
    BY <1>1, <1>2 DEF RowsTyped, Sessions, Stays
  <1>4. session'[n].kind = "email"
    BY <1>2
  <1>5. QED
    BY <1>2, <1>3, <1>4, FamiliesBeside

\* or the challenge of either method after the password, ...
LEMMA FamiliesChallenged ==
    ASSUME AuthInv, FamiliesInv, NEW user, Challenge(user), signedOut' = signedOut
    PROVE  FamiliesInv'
  <1>1. ASSUME NEW n \in Session, FreshSession(n),
               session' = [session EXCEPT ![n] =
                    [kind |-> "totp", revoked |-> FALSE, life |-> TotpTime,
                     replaced |-> 0, family |-> 0]]
        PROVE  FamiliesInv'
    <2>1. session'[n].kind = "totp" /\ \A m \in Session \ {n} : session'[m] = session[m]
      BY <1>1, RowsOfInv DEF RowsTyped
    <2>2. \A m \in Session \ {n} : Stays(m)
      BY <2>1 DEF Stays
    <2>3. QED
      BY <1>1, <2>1, <2>2, FamiliesBeside
  <1>2. ASSUME NEW n \in Session, NEW delivered \in BOOLEAN,
               Send(n, IF user.email THEN "login" ELSE "register", delivered, 0)
        PROVE  FamiliesInv'
    BY <1>2, FamiliesSent
  <1>3. QED
    BY <1>1, <1>2 DEF Challenge

\* ... or tokens are issued.
LEMMA FamiliesIssued ==
    ASSUME AuthInv, FamiliesInv, NEW n \in Session, NEW previous \in Session \cup {0},
           IssueTokens(n, previous), signedOut' = signedOut,
           previous # 0 => session[previous].kind # "none" /\ ~session[previous].revoked
    PROVE  FamiliesInv'
  <1>1. RowsTyped /\ 0 \notin Session
    BY RowsOfInv, AuthAssumption
  <1>2. /\ FreshSession(n) /\ session[n].kind = "none"
        /\ session' = [m \in Session |->
              IF m = n THEN TokenRow(n, previous)
              ELSE IF m = previous THEN [session[m] EXCEPT !.revoked = TRUE, !.replaced = n]
              ELSE session[m]]
    BY DEF IssueTokens, FreshSession, NextId
  <1>3. \A m \in Session \ {n, previous} : session'[m] = session[m]
    BY <1>2
  <1>4. previous # 0 =>
          /\ previous \in Session /\ previous # n
          /\ session'[previous].kind = session[previous].kind
          /\ session'[previous].family = session[previous].family
          /\ session'[previous].revoked = TRUE /\ session'[previous].replaced = n
    BY <1>1, <1>2 DEF RowsTyped, Sessions
  <1>5. /\ session'[n].kind = "token"
        /\ session'[n].family = IF previous # 0 /\ session[previous].kind = "token"
                                  THEN session[previous].family ELSE n
    BY <1>2 DEF TokenRow
  <1>6. CASE previous # 0 /\ session[previous].kind = "token"
    BY <1>2, <1>3, <1>4, <1>5, <1>6, FamilyGoesOn
  <1>7. CASE ~(previous # 0 /\ session[previous].kind = "token")
    <2>1. \A m \in Session \ {n} : session'[m].kind = session[m].kind
      BY <1>1, <1>3, <1>4
    <2>2. \A m \in Session \ {n} : session[m].kind = "token" => Stays(m)
      BY <1>1, <1>3, <1>7 DEF Stays
    <2>3. QED
      BY <1>2, <1>5, <1>7, <2>1, <2>2, FamilyStarts
  <1>8. QED
    BY <1>6, <1>7

\* ... or all rows are revoked and a family starts, with the switch of the
\* method (verify_email after an authenticator).
LEMMA FamiliesSwitched ==
    ASSUME AuthInv, FamiliesInv, NEW n \in Session, NEW old \in Session,
           FreshSession(n), session[old].kind = "email", signedOut' = signedOut,
           session' = [RevokeAll EXCEPT ![n] = TokenRow(n, old), ![old].replaced = n]
    PROVE  FamiliesInv'
  <1>1. RowsTyped /\ session[n].kind = "none" /\ n # old
    BY RowsOfInv DEF FreshSession, NextId
  <1> DEFINE R == [m \in Session |-> session[m].kind # "none"]
  <1>2. /\ RevokeAll = [m \in Session |-> [session[m] EXCEPT !.revoked = @ \/ R[m]]]
        /\ R \in [Session -> BOOLEAN]
        /\ \A m \in Session : session[m].kind # "none" => R[m]
    BY DEF RevokeAll, RevokedIf
  <1> HIDE DEF R
  <1>3. ASSUME NEW m \in Session \ {n}
        PROVE  /\ session'[m].kind = session[m].kind
               /\ session[m].kind = "token" =>
                     session'[m].revoked /\ session'[m].family = session[m].family
    <2>1. session[m] \in Sessions /\ RevokeAll[m] = [session[m] EXCEPT !.revoked = @ \/ R[m]]
      BY <1>1, <1>2 DEF RowsTyped
    <2>2. /\ RevokeAll[m] \in Sessions
          /\ RevokeAll[m].kind = session[m].kind /\ RevokeAll[m].family = session[m].family
          /\ session[m].kind = "token" => RevokeAll[m].revoked
      BY <1>2, <2>1 DEF Sessions
    <2>3. session'[m] = IF m = old THEN [RevokeAll[m] EXCEPT !.replaced = n] ELSE RevokeAll[m]
      BY <1>1, <1>2
    <2>4. \A row \in Sessions : /\ [row EXCEPT !.replaced = n].kind = row.kind
                                /\ [row EXCEPT !.replaced = n].family = row.family
                                /\ [row EXCEPT !.replaced = n].revoked = row.revoked
      BY DEF Sessions
    <2>5. /\ session'[m].kind = RevokeAll[m].kind
          /\ session'[m].family = RevokeAll[m].family
          /\ session'[m].revoked = RevokeAll[m].revoked
      <3>1. CASE m = old
        <4>1. session'[m] = [RevokeAll[m] EXCEPT !.replaced = n]
          BY <2>3, <3>1
        <4>2. QED
          BY <2>2, <2>4, <4>1, Zenon
      <3>2. CASE m # old
        BY <2>3, <3>2
      <3>3. QED
        BY <3>1, <3>2
    <2>6. QED
      BY <2>2, <2>5, Zenon
  <1>4. session'[n].kind = "token" /\ session'[n].family = n
    BY <1>1, <1>2 DEF TokenRow
  <1>5. QED
    BY <1>3, <1>4, FamilyStarts

\* Time does not touch families.
LEMMA FamiliesTick ==
    ASSUME AuthInv, FamiliesInv, Tick
    PROVE  FamiliesInv'
  <1>1. \A m \in Session : session[m] \in Sessions
    BY RowsOfInv DEF RowsTyped
  <1>2. ASSUME NEW m \in Session
        PROVE  Stays(m)
    <2>1. session'[m] = [session[m] EXCEPT !.life = Less(session[m].life)]
      BY DEF Tick
    <2>2. QED
      BY <1>1, <2>1 DEF Sessions, Stays
  <1>3. TokensStay /\ RowsInOrder'
    BY <1>2 DEF TokensStay, Stays, FamiliesInv, RowsInOrder
  <1>4. signedOut \subseteq Session /\ signedOut' = signedOut
    BY DEF AuthInv, AuthTypeOK, Tick
  <1>5. QED
    BY <1>3, <1>4, LinksStay, EndsStay DEF FamiliesInv

\* Every handler is one of these, or touches no session.
LEMMA FamiliesStep ==
    ASSUME AuthInv, FamiliesInv, NEW p \in Request, Step(p)
    PROVE  FamiliesInv'
  <1> DEFINE arg == request[p].arg
  <1>1. CASE session' = session /\ signedOut' = signedOut
    <2>1. \A m \in Session : session'[m] = session[m]
      BY <1>1
    <2>2. QED
      BY <1>1, <2>1 DEF FamiliesInv, RowsInOrder, Linked, Ended
  <1>2. CASE Register(p) \/ RightPassword(p)
    <2>1. /\ (\E user : Challenge(user)) \/ \E n \in Session : IssueTokens(n, 0)
          /\ signedOut' = signedOut
      BY <1>2 DEF Register, RightPassword
    <2>2. QED
      BY <2>1, FamiliesChallenged, FamiliesIssued
  <1>3. CASE VerifyEmail(p)
    <2>1. /\ request[p].at = "locked" /\ request[p].op = "verify_email" /\ ValidChallenge(p)
          /\ signedOut' = signedOut
          /\ \E n \in Session :
               \/ /\ FreshSession(n)
                  /\ session' = [RevokeAll EXCEPT ![n] = TokenRow(n, arg), ![arg].replaced = n]
               \/ IssueTokens(n, arg)
      BY <1>3 DEF VerifyEmail, Locked
    <2>2. arg \in Session /\ session[arg].kind = "email" /\ ~session[arg].revoked
      BY <2>1, ChallengeOpen DEF CodeOps
    <2>3. QED
      BY <2>1, <2>2, FamiliesSwitched, FamiliesIssued
  <1>4. CASE ResendEmail(p) \/ VerifyTotp(p)
    <2>1. /\ session' = session \/ \E n \in Session, delivered \in BOOLEAN :
                                   \E purpose, consumed : Send(n, purpose, delivered, consumed)
          /\ signedOut' = signedOut
      BY <1>4 DEF ResendEmail, VerifyTotp, Rollback, dataVars, sessionVars, historyVars
    <2>2. QED
      BY <1>1, <2>1, FamiliesSent
  <1>5. CASE RefreshReused(p) \/ Logout(p)
    <2>1. \/ session' = session /\ signedOut' = signedOut
          \/ session' = RevokeChain(arg) /\ signedOut' = signedOut \cup {session[arg].family}
      BY <1>5 DEF RefreshReused, Logout
    <2>2. arg \in Session /\ session[arg].kind = "token"
      BY <1>5 DEF RefreshReused, Logout, Locked, AuthInv, LockedRead, TokenOps
    <2>3. QED
      BY <1>1, <2>1, <2>2, FamiliesEnded
  <1>6. CASE Refresh(p)
    <2>1. /\ request[p].at = "locked" /\ request[p].op = "refresh" /\ ~request[p].row.revoked
          /\ signedOut' = signedOut /\ \E n \in Session : IssueTokens(n, arg)
      BY <1>6 DEF Refresh, Locked
    <2>2. arg \in Session /\ session[arg].kind = "token" /\ ~session[arg].revoked
      BY <2>1 DEF AuthInv, LockedRead, TokenOps
    <2>3. QED
      BY <2>1, <2>2, FamiliesIssued
  <1>7. CASE ResetPassword(p) \/ ChangeStaff(p)
    <2>1. (session' = session \/ session' = RevokeAll) /\ signedOut' = signedOut
      BY <1>7 DEF ResetPassword, ChangeStaff, Rollback, dataVars, sessionVars, historyVars
    <2> DEFINE R == [m \in Session |-> session[m].kind # "none"]
    <2>2. CASE session' = RevokeAll
      <3>1. session' = [m \in Session |-> [session[m] EXCEPT !.revoked = @ \/ R[m]]]
        BY <2>2 DEF RevokeAll, RevokedIf
      <3>2. R \in [Session -> BOOLEAN]
        OBVIOUS
      <3> HIDE DEF R
      <3>3. QED
        BY <2>1, <3>1, <3>2, FamiliesRevoked
    <2>3. QED
      BY <1>1, <2>1, <2>2
  <1>8. CASE \/ Lookup(p) \/ LockUser(p) \/ RegisterConflict(p) \/ Fail(p) \/ CreateStaff(p)
             \/ LoginDenied(p) \/ WrongPassword(p) \/ LoginRefused(p)
             \/ ChallengeDenied(p) \/ WrongCode(p) \/ WrongTotp(p)
             \/ RefreshDenied(p) \/ RequestReset(p)
    <2>1. session' = session /\ signedOut' = signedOut
      BY <1>8 DEF Lookup, LockUser, RegisterConflict, Fail, CreateStaff, LoginDenied,
         WrongPassword, LoginRefused, ChallengeDenied, WrongCode, WrongTotp, RefreshDenied,
         RequestReset, Rollback, Deny, RefuseCode, dataVars, sessionVars, historyVars
    <2>2. QED
      BY <1>1, <2>1
  <1>9. QED
    BY <1>2, <1>3, <1>4, <1>5, <1>6, <1>7, <1>8 DEF Step

\* A family that was answered to have ended, by a sign-out or by the detection of
\* reuse, has no session that can be used, then or ever after (refresh and logout
\* with revoke_session_chain): the recursive query from any row of the family
\* reaches its open session.
THEOREM SignedOutStays == AuthSpec => []SignedOutStaysOut
  <1>1. AuthInit => FamiliesInv
    BY DEF AuthInit, FamiliesInv, RowsInOrder, Linked, Ended, NoSession
  <1>2. AuthInv /\ FamiliesInv /\ [AuthNext]_authVars => FamiliesInv'
    <2> SUFFICES ASSUME AuthInv, FamiliesInv, [AuthNext]_authVars
                 PROVE  FamiliesInv'
      OBVIOUS
    <2>1. CASE Tick
      BY <2>1, FamiliesTick
    <2>2. ASSUME NEW p \in Request, Step(p)
          PROVE  FamiliesInv'
      BY <2>2, FamiliesStep
    <2>3. CASE UNCHANGED authVars
      BY <2>3 DEF authVars, dataVars, sessionVars, historyVars, FamiliesInv, RowsInOrder,
         Linked, Ended
    <2>4. QED
      BY <2>1, <2>2, <2>3 DEF AuthNext
  <1>3. FamiliesInv => SignedOutStaysOut
    BY DEF FamiliesInv, Ended, SignedOutStaysOut, Usable, Open
  <1>4. QED
    BY <1>1, <1>2, <1>3, InvHolds, PTL DEF AuthSpec
-----------------------------------------------------------------------------
(***************************************************************************)
(* What SessionFamilies promises, for the sessions of the code: the steps  *)
(* of the abstract specification over any two values of its variables.    *)
(***************************************************************************)
FamilyStep(old, new, was, now) ==
    \/ \E n \in Session \ was :
         /\ new = [old EXCEPT ![n] = {n}] /\ now = was \cup {n}
    \/ \E n \in Session \ was :
         /\ new = [f \in Session |-> IF f = n THEN {n} ELSE {}] /\ now = was \cup {n}
    \/ \E f \in Session, n \in Session \ was :
         /\ old[f] # {} /\ new = [old EXCEPT ![f] = {n}] /\ now = was \cup {n}
    \/ \E F \in SUBSET Session :
         /\ new = [f \in Session |-> IF f \in F THEN {} ELSE old[f]] /\ now = was
    \/ new = old /\ now = was

\* The sessions in use were issued; every family has one of its own at most.
Held(old, was) ==
    /\ \A f \in Session : old[f] \subseteq was /\ (old[f] # {} => f \in was)
    /\ \A f, g \in Session : \A m \in old[f], n \in old[g] : f = g <=> m = n

\* A step keeps that, ends what it ends for good and lets no old session back.
LEMMA HeldKept ==
    ASSUME NEW old \in [Session -> SUBSET Session], NEW was \in SUBSET Session, NEW new, NEW now,
           Held(old, was), FamilyStep(old, new, was, now)
    PROVE  /\ Held(new, now)
           /\ \A f \in Session : /\ f \in was /\ old[f] = {} => new[f] = {}
                                 /\ \A n \in was : n \in new[f] => n \in old[f]
  <1>1. ASSUME NEW n \in Session \ was, new = [old EXCEPT ![n] = {n}], now = was \cup {n}
        PROVE  /\ Held(new, now)
           /\ \A f \in Session : /\ f \in was /\ old[f] = {} => new[f] = {}
                                 /\ \A m \in was : m \in new[f] => m \in old[f]
    BY <1>1 DEF Held
  <1>2. ASSUME NEW n \in Session \ was,
              new = [f \in Session |-> IF f = n THEN {n} ELSE {}], now = was \cup {n}
        PROVE  /\ Held(new, now)
           /\ \A f \in Session : /\ f \in was /\ old[f] = {} => new[f] = {}
                                 /\ \A m \in was : m \in new[f] => m \in old[f]
    BY <1>2 DEF Held
  <1>3. ASSUME NEW g \in Session, NEW n \in Session \ was, old[g] # {},
              new = [old EXCEPT ![g] = {n}], now = was \cup {n}
        PROVE  /\ Held(new, now)
           /\ \A f \in Session : /\ f \in was /\ old[f] = {} => new[f] = {}
                                 /\ \A m \in was : m \in new[f] => m \in old[f]
    BY <1>3 DEF Held
  <1>4. ASSUME NEW F \in SUBSET Session,
              new = [f \in Session |-> IF f \in F THEN {} ELSE old[f]], now = was
        PROVE  /\ Held(new, now)
           /\ \A f \in Session : /\ f \in was /\ old[f] = {} => new[f] = {}
                                 /\ \A m \in was : m \in new[f] => m \in old[f]
    BY <1>4 DEF Held
  <1>5. QED
    BY <1>1, <1>2, <1>3, <1>4 DEF FamilyStep

\* In every family one session at most can be used, and what has ended does not
\* come back: a session that was rotated, revoked or has expired is never usable
\* again, and a family without a usable session is never continued by a new one
\* (refresh rotates under the lock of the account; logout, recovery and a change
\* of the account revoke).
THEOREM FamiliesEndForGood == AuthSpec => []Families!OneHolder /\ Families!EndedForGood
  <1> DEFINE h == [f \in Session |-> {n \in Session : Usable(n) /\ session[n].family = f}]
             i == {n \in Session : session[n].kind = "token"}
  <1>1. h \in [Session -> SUBSET Session] /\ i \in SUBSET Session
    OBVIOUS
  <1>2. [Families!FamilyNext]_(Families!familyVars) => FamilyStep(h, h', i, i')
    BY DEF FamilyStep, Families!FamilyNext, Families!familyVars, Families!SignIn,
       Families!Restart, Families!Rotate, Families!End,
        Families!Without, Families!Live
  <1>3. Held(h, i) <=> Families!HoldersIssued /\ Families!OneHolder
    BY DEF Held, Families!HoldersIssued, Families!OneHolder
  <1>4. Families!FamilyInit => Families!HoldersIssued /\ Families!OneHolder
    BY DEF Families!FamilyInit, Families!HoldersIssued, Families!OneHolder
  <1>5. Held(h, i) /\ [Families!FamilyNext]_(Families!familyVars) =>
          /\ Held(h, i)'
          /\ [\A f \in Session :
                /\ f \in i /\ h[f] = {} => h'[f] = {}
                /\ \A n \in i : n \in h'[f] => n \in h[f]]_(Families!familyVars)
    <2> SUFFICES ASSUME Held(h, i), [Families!FamilyNext]_(Families!familyVars)
                 PROVE  /\ Held(h', i')
                        /\ \A f \in Session :
                              /\ f \in i /\ h[f] = {} => h'[f] = {}
                              /\ \A n \in i : n \in h'[f] => n \in h[f]
      BY DEF Held
    <2> HIDE DEF h, i
    <2>1. QED
      BY <1>1, <1>2, HeldKept
  <1>6. QED
    BY <1>3, <1>4, <1>5, SessionsRotate, PTL DEF ImplementsFamilies, Families!FamilySpec,
       Families!EndedForGood
=============================================================================
