----------------------------- MODULE MetricsProofs -----------------------------
(***************************************************************************)
(* Proofs about the metrics of an evaluation, for any number of results.   *)
(***************************************************************************)
EXTENDS MCEvaluation, RecursionProofs, FiniteSetTheorems, TLAPS

-------------------------------------------------------------------------------
(* _escalation_metrics                                                     *)

\* The F1 score from precision and recall is that of the counts, and one at most.
LEMMA F1OfCounts ==
  ASSUME NEW tp \in Nat, NEW fp \in Nat, NEW fn \in Nat
  PROVE  LET f == F1(Rate(tp, tp + fp), Rate(tp, tp + fn))
         IN  SameRate(f, Rate(2 * tp, (tp + fn) + (tp + fp))) /\ f[1] <= f[2]
  <1> DEFINE p == Rate(tp, tp + fp)
             r == Rate(tp, tp + fn)
             f == F1(p, r)
             a == tp + fp
             b == tp + fn
  <1>1. CASE tp = 0
    <2>1. p[1] = 0 /\ r[1] = 0 /\ p[2] \in Nat /\ r[2] \in Nat
      BY <1>1 DEF Rate
    <2>2. f = <<0, 1>>
      <3> HIDE DEF p, r
      <3>1. 2 * p[1] * r[1] = 0 /\ p[1] * r[2] + r[1] * p[2] = 0
        BY <2>1
      <3> QED
        BY <3>1 DEF F1, Rate
    <2>3. Rate(2 * tp, b + a)[1] = 0
      BY <1>1 DEF Rate
    <2>4. Rate(2 * tp, b + a)[2] \in Nat
      BY <1>1 DEF Rate
    <2> HIDE DEF f
    <2>5. SameRate(f, Rate(2 * tp, b + a))
      BY <2>2, <2>3, <2>4 DEF SameRate
    <2> QED
      BY <2>2, <2>5 DEF f
  <1>2. CASE tp # 0
    <2>1. p = <<tp, a>> /\ r = <<tp, b>> /\ a \in Nat /\ b \in Nat /\ tp <= a /\ tp <= b
      BY <1>2 DEF Rate
    <2> HIDE DEF p, r, a, b
    <2> DEFINE num == 2 * tp * tp
               den == tp * b + tp * a
    <2>2. num = tp * (2 * tp) /\ den = tp * (b + a) /\ num \in Nat /\ den \in Nat
      BY <2>1
    <2>3. tp * (2 * tp) <= tp * (b + a) /\ tp * (b + a) # 0
      <3> DEFINE c == 2 * tp
                 d == b + a
      <3>1. c \in Nat /\ d \in Nat \ {0} /\ c <= d
        BY <1>2, <2>1
      <3> HIDE DEF c, d
      <3>2. tp * c <= tp * d /\ tp * d # 0
        BY <1>2, <3>1
      <3> QED
        BY <3>2 DEF c, d
    <2>4. f = <<num, den>>
      <3>1. p[1] = tp /\ p[2] = a /\ r[1] = tp /\ r[2] = b
        BY <2>1
      <3>2. f = Rate(num, den)
        BY <3>1 DEF F1
      <3> HIDE DEF num, den, f
      <3> QED
        BY <2>2, <2>3, <3>2 DEF Rate
    <2>5. Rate(2 * tp, b + a) = <<2 * tp, b + a>>
      <3>1. b + a # 0
        BY <1>2, <2>1
      <3> QED
        BY <3>1 DEF Rate
    <2>6. num * (b + a) = (2 * tp) * den
      <3> DEFINE c == 2 * tp
                 d == b + a
      <3>1. c \in Nat /\ d \in Nat
        BY <2>1
      <3> HIDE DEF c, d
      <3>2. (tp * c) * d = c * (tp * d)
        BY <3>1
      <3> HIDE DEF num, den
      <3>3. num = tp * c /\ den = tp * d
        BY <2>2 DEF c, d
      <3> QED
        BY <3>2, <3>3 DEF c, d
    <2> HIDE DEF f, num, den
    <2>7. f[1] = num /\ f[2] = den
      BY <2>4
    <2>8. SameRate(f, Rate(2 * tp, b + a))
      BY <2>5, <2>6, <2>7 DEF SameRate
    <2>9. num <= den
      BY <2>2, <2>3
    <2> QED
      BY <2>7, <2>8, <2>9 DEF f, p, r, a, b
  <1> QED
    BY <1>1, <1>2

Verdicts == [review : BOOLEAN, escalate : BOOLEAN]

\* Whatever the verdicts of an evaluation, its rates of escalation agree.
THEOREM RatesAgree ==
  ASSUME NEW n \in Nat, NEW results \in [1 .. n -> Verdicts]
  PROVE  LET m == EscalationMetrics(results)
             due == {i \in DOMAIN results : results[i].escalate}
             found == {i \in due : results[i].review}
             reviewed == {i \in DOMAIN results : results[i].review}
             right == 2 * Cardinality(found)
         IN  /\ SameRate(m.f1, Rate(right, Cardinality(due) + Cardinality(reviewed)))
             /\ due # {} => m.recall[1] + m.missed_rate[1] = Cardinality(due)
             /\ m.f1[1] <= m.f1[2]
  <1> DEFINE C(a, b) == {i \in DOMAIN results : results[i].review = a /\ results[i].escalate = b}
             m == EscalationMetrics(results)
             due == {i \in DOMAIN results : results[i].escalate}
             found == {i \in due : results[i].review}
             reviewed == {i \in DOMAIN results : results[i].review}
             TP == C(TRUE, TRUE)
             FP == C(TRUE, FALSE)
             FN == C(FALSE, TRUE)
             tp == Cardinality(TP)
             fp == Cardinality(FP)
             fn == Cardinality(FN)
  <1>1. IsFiniteSet(DOMAIN results)
    BY FS_Interval
  <1>2. \A S : S \subseteq DOMAIN results => IsFiniteSet(S) /\ Cardinality(S) \in Nat
    BY <1>1, FS_Subset, FS_CardinalityType
  <1>3. \A i \in DOMAIN results : results[i].review \in BOOLEAN /\ results[i].escalate \in BOOLEAN
    BY DEF Verdicts
  <1>4. tp \in Nat /\ fp \in Nat /\ fn \in Nat
    BY <1>2
  <1>5. due = TP \cup FN /\ TP \cap FN = {}
    BY <1>3
  <1>6. reviewed = TP \cup FP /\ TP \cap FP = {}
    BY <1>3
  <1>7. found = TP
    BY <1>3
  <1>8. IsFiniteSet(TP) /\ IsFiniteSet(FN) /\ IsFiniteSet(FP)
    BY <1>2
  <1>9. Cardinality({}) = 0
    BY FS_EmptySet
  <1>10. m.recall = Rate(tp, tp + fn) /\ m.missed_rate = Rate(fn, fn + tp)
    BY DEF EscalationMetrics
  <1>11. m.f1 = F1(Rate(tp, tp + fp), Rate(tp, tp + fn))
    BY DEF EscalationMetrics
  <1> HIDE DEF TP, FP, FN, due, found, reviewed, m
  <1>12. Cardinality(due) = tp + fn
    <2>1. Cardinality(TP \cup FN) = tp + fn - Cardinality(TP \cap FN)
      BY <1>8, FS_Union
    <2>2. Cardinality(TP \cup FN) = tp + fn - 0
      BY <1>5, <1>9, <2>1
    <2> QED
      BY <1>4, <1>5, <2>2
  <1>13. Cardinality(reviewed) = tp + fp
    <2>1. Cardinality(TP \cup FP) = tp + fp - Cardinality(TP \cap FP)
      BY <1>8, FS_Union
    <2>2. Cardinality(TP \cup FP) = tp + fp - 0
      BY <1>6, <1>9, <2>1
    <2> QED
      BY <1>4, <1>6, <2>2
  <1> HIDE DEF tp, fp, fn
  <1>14. /\ SameRate(m.f1, Rate(2 * tp, (tp + fn) + (tp + fp)))
         /\ m.f1[1] <= m.f1[2]
    BY <1>4, <1>11, F1OfCounts
  <1>15. SameRate(m.f1, Rate(2 * Cardinality(found), Cardinality(due) + Cardinality(reviewed)))
    BY <1>7, <1>12, <1>13, <1>14 DEF tp
  <1>16. ASSUME due # {} PROVE m.recall[1] + m.missed_rate[1] = Cardinality(due)
    <2>1. IsFiniteSet(due)
      BY <1>2 DEF due
    <2>2. tp + fn # 0
      BY <1>12, <1>16, <2>1, FS_EmptySet
    <2>3. m.recall[1] = tp /\ m.missed_rate[1] = fn
      BY <1>4, <1>10, <2>2 DEF Rate
    <2> QED
      BY <1>4, <1>12, <2>3
  <1> QED
    BY <1>14, <1>15, <1>16 DEF m, due, found, reviewed

-------------------------------------------------------------------------------
(* _p95                                                                    *)

\* Finitely many numbers have a bound.
LEMMA Bounded ==
  ASSUME NEW n \in Nat, NEW values \in [1 .. n -> Nat]
  PROVE  \E b \in Nat : \A i \in 1 .. n : values[i] <= b
  <1> DEFINE S == {m \in Nat : m <= n => \E b \in Nat : \A i \in 1 .. m : values[i] <= b}
  <1>1. 0 \in S
    <2>1. \A i \in 1 .. 0 : values[i] <= 0
      OBVIOUS
    <2> QED
      BY <2>1
  <1>2. ASSUME NEW m \in Nat, m \in S PROVE m + 1 \in S
    <2> SUFFICES ASSUME m + 1 <= n PROVE \E b \in Nat : \A i \in 1 .. m + 1 : values[i] <= b
      OBVIOUS
    <2>1. PICK b \in Nat : \A i \in 1 .. m : values[i] <= b
      BY <1>2
    <2>2. values[m + 1] \in Nat /\ \A i \in 1 .. m : values[i] \in Nat
      OBVIOUS
    <2>3. \A i \in 1 .. m + 1 : i \in 1 .. m \/ i = m + 1
      OBVIOUS
    <2>4. b + values[m + 1] \in Nat /\ \A i \in 1 .. m + 1 : values[i] <= b + values[m + 1]
      BY <2>1, <2>2, <2>3
    <2> QED
      BY <2>4
  <1> HIDE DEF S
  <1>3. Nat \subseteq S
    BY <1>1, <1>2, AllNumbers
  <1>4. n \in S /\ n <= n
    BY <1>3
  <1> QED
    BY <1>4 DEF S

\* Every list has a value of each rank.
LEMMA RankedIs ==
  ASSUME NEW n \in Nat, NEW values \in [1 .. n -> Nat], NEW k \in Nat, k < n
  PROVE  /\ Ranked(values, k) \in ToSet(values)
         /\ Cardinality({i \in DOMAIN values : values[i] <= Ranked(values, k)}) > k
  <1> DEFINE below(v) == {i \in DOMAIN values : values[i] < v}
             upto(v) == {i \in DOMAIN values : values[i] <= v}
             S == {v \in Nat : Cardinality(upto(v)) > k}
  <1>1. IsFiniteSet(1 .. n) /\ Cardinality(1 .. n) = n
    <2>1. IsFiniteSet(1 .. n) /\ Cardinality(1 .. n) = IF 1 > n THEN 0 ELSE n - 1 + 1
      BY FS_Interval
    <2> QED
      BY <2>1
  <1>2. \A T : T \subseteq 1 .. n => IsFiniteSet(T) /\ Cardinality(T) \in Nat
    BY <1>1, FS_Subset, FS_CardinalityType
  <1>3. S # {}
    <2>1. PICK b \in Nat : \A i \in 1 .. n : values[i] <= b
      BY Bounded
    <2>2. upto(b) = 1 .. n
      BY <2>1
    <2> QED
      BY <1>1, <2>2
  <1>4. PICK v \in S : \A u \in S : v <= u
    BY <1>3, LeastOf
  <1>5. v \in Nat /\ Cardinality(upto(v)) > k
    OBVIOUS
  <1>6. Cardinality(below(v)) <= k
    <2>1. CASE v = 0
      <3>1. below(v) = {}
        BY <2>1
      <3> HIDE DEF below
      <3>2. Cardinality(below(v)) = 0
        BY <3>1, FS_EmptySet
      <3> QED
        BY <3>2
    <2>2. CASE v # 0
      <3>1. v - 1 \in Nat /\ v - 1 < v
        BY <1>5, <2>2
      <3>2. below(v) = upto(v - 1)
        BY <1>5, <3>1
      <3>3. Cardinality(upto(v - 1)) \in Nat
        BY <1>2
      <3>4. v - 1 \notin S
        BY <1>4, <1>5, <3>1
      <3>5. ~(Cardinality(upto(v - 1)) > k)
        BY <3>1, <3>4
      <3> HIDE DEF below, upto
      <3> QED
        BY <3>2, <3>3, <3>5
    <2> QED
      BY <2>1, <2>2
  <1>7. v \in ToSet(values)
    <2> SUFFICES ASSUME v \notin ToSet(values) PROVE FALSE
      OBVIOUS
    <2>1. \A i \in 1 .. n : values[i] # v
      BY DEF ToSet
    <2>2. upto(v) = below(v)
      BY <1>5, <2>1
    <2>3. Cardinality(below(v)) \in Nat
      BY <1>2
    <2> HIDE DEF below, upto
    <2> QED
      BY <1>5, <1>6, <2>2, <2>3
  <1>8. \E u \in ToSet(values) :
          /\ Cardinality({i \in DOMAIN values : values[i] < u}) <= k
          /\ Cardinality({i \in DOMAIN values : values[i] <= u}) > k
    BY <1>5, <1>6, <1>7
  <1> QED
    BY <1>8 DEF Ranked

\* The index of the 95th percentile leaves not much more than a twentieth above.
LEMMA IndexIsHigh ==
  ASSUME NEW last \in Nat
  PROVE  LET index == Round(95 * last, 100)
             k == IF index < last THEN index ELSE last
         IN  k \in Nat /\ k <= last /\ 20 * (last - k) <= last + 10
  <1> DEFINE q == (95 * last) \div 100
             r == (95 * last) % 100
             index == Round(95 * last, 100)
  <1>1. 95 * last = 100 * q + r /\ q \in Nat /\ r \in 0 .. 99
    OBVIOUS
  <1>2. index = (IF 2 * r < 100 \/ (2 * r = 100 /\ q % 2 = 0) THEN q ELSE q + 1)
    BY DEF Round
  <1> HIDE DEF q, r, index
  <1>3. \/ index = q /\ 2 * r <= 100
        \/ index = q + 1
    BY <1>1, <1>2
  <1>4. index \in Nat
    BY <1>1, <1>3
  <1>5. 20 * (last - index) <= last + 10
    BY <1>1, <1>3
  <1> QED
    BY <1>4, <1>5 DEF index

\* Whatever is measured, the 95th percentile is one of the values, and about one in twenty
\* or less is above.
THEOREM P95IsHigh ==
  ASSUME NEW n \in Nat \ {0}, NEW values \in [1 .. n -> Nat]
  PROVE  /\ P95(values) \in ToSet(values)
         /\ 20 * Cardinality({i \in 1 .. n : values[i] > P95(values)}) <= n + 9
  <1> DEFINE last == n - 1
             index == Round(95 * last, 100)
             k == IF index < last THEN index ELSE last
             v == P95(values)
             upto == {i \in DOMAIN values : values[i] <= v}
             above == {i \in 1 .. n : values[i] > v}
  <1>1. last \in Nat /\ Len(values) = n /\ values # <<>>
    OBVIOUS
  <1>2. k \in Nat /\ k <= last /\ 20 * (last - k) <= last + 10
    BY <1>1, IndexIsHigh
  <1>3. v = Ranked(values, k)
    BY <1>1 DEF P95
  <1> HIDE DEF k, v
  <1>4. k < n
    BY <1>1, <1>2
  <1>5. v \in ToSet(values) /\ Cardinality(upto) > k
    BY <1>2, <1>3, <1>4, RankedIs
  <1>6. v \in Nat
    BY <1>5 DEF ToSet
  <1>7. upto \in SUBSET (1 .. n) /\ above = (1 .. n) \ upto /\ (1 .. n) \cap upto = upto
    BY <1>6
  <1> HIDE DEF upto, above
  <1>8. IsFiniteSet(1 .. n) /\ Cardinality(1 .. n) = n
    <2>1. IsFiniteSet(1 .. n) /\ Cardinality(1 .. n) = IF 1 > n THEN 0 ELSE n - 1 + 1
      BY FS_Interval
    <2> QED
      BY <2>1
  <1>9. IsFiniteSet(upto) /\ Cardinality(upto) \in Nat
    BY <1>7, <1>8, FS_Subset, FS_CardinalityType
  <1>10. Cardinality((1 .. n) \ upto) = Cardinality(1 .. n) - Cardinality((1 .. n) \cap upto)
    BY <1>8, FS_Difference
  <1>11. Cardinality(above) = n - Cardinality(upto)
    BY <1>7, <1>8, <1>10
  <1>12. 20 * Cardinality(above) <= n + 9
    <2> DEFINE c == Cardinality(upto)
    <2> HIDE DEF c
    <2>1. c \in Nat /\ c > k /\ Cardinality(above) = n - c
      BY <1>5, <1>9, <1>11 DEF c
    <2> QED
      BY <1>2, <2>1
  <1> QED
    BY <1>5, <1>12 DEF v, above

-------------------------------------------------------------------------------
(* _calibration                                                            *)

\* A sum of percentages.
LEMMA SumOfPercentages ==
  ASSUME NEW S, IsFiniteSet(S), NEW f \in [S -> 0 .. 100], NEW g, IsSum(g, f, S)
  PROVE  \A T \in SUBSET S : g[T] \in 0 .. 100 * Cardinality(T)
  <1> DEFINE P == {U \in SUBSET S : g[U] \in 0 .. 100 * Cardinality(U)}
  <1>1. \A U \in SUBSET S : IsFiniteSet(U) /\ Cardinality(U) \in Nat
    BY FS_Subset, FS_CardinalityType
  <1>2. {} \in P
    <2>1. Cardinality({}) = 0
      BY FS_EmptySet
    <2>2. g[{}] = 0
      BY DEF IsSum
    <2> QED
      BY <2>1, <2>2
  <1>3. ASSUME NEW U \in SUBSET S, U \in P, NEW x \in S PROVE U \cup {x} \in P
    <2>1. CASE x \in U
      <3>1. U \cup {x} = U
        BY <2>1
      <3> QED
        BY <1>3, <3>1
    <2>2. CASE x \notin U
      <3> DEFINE W == U \cup {x}
      <3>1. W \in SUBSET S /\ x \in W /\ W \ {x} = U
        BY <2>2
      <3>2. Cardinality(W) = Cardinality(U) + 1
        BY <1>1, <2>2, FS_AddElement
      <3> HIDE DEF W
      <3>3. g[W] = f[x] + g[U]
        BY <3>1 DEF IsSum
      <3> DEFINE c == Cardinality(U)
                 s == g[U]
      <3>4. s \in 0 .. 100 * c /\ c \in Nat /\ f[x] \in 0 .. 100 /\ g[W] = f[x] + s /\ Cardinality(W) = c + 1
        BY <1>1, <1>3, <3>2, <3>3
      <3> HIDE DEF c, s
      <3>5. g[W] \in 0 .. 100 * Cardinality(W)
        BY <3>4
      <3>6. W \in P
        BY <3>1, <3>5
      <3> QED
        BY <3>6 DEF W
    <2> QED
      BY <2>1, <2>2
  <1> HIDE DEF P
  <1>4. \A U \in SUBSET S : U \in P
    BY <1>2, <1>3, FiniteInduction
  <1> QED
    BY <1>4 DEF P

\* What the sum of the confidences is.
LEMMA TotalConfidenceIs ==
  ASSUME NEW S, IsFiniteSet(S), NEW results, NEW f \in [S -> Int],
         \A i \in S : f[i] = results[i].confidence
  PROVE  \E g : IsSum(g, f, S) /\ TotalConfidence(results, S) = g[S]
  <1> DEFINE iter == CHOOSE g : g = [s \in SUBSET S |-> IF s = {} THEN 0
                                      ELSE results[Some(s)].confidence + g[s \ {Some(s)}]]
  <1>1. PICK g : IsFold(g, f, S)
    BY FoldExists
  <1>2. \A s \in SUBSET S : s # {} => f[Some(s)] = results[Some(s)].confidence
    BY SomeIs
  <1>3. \A h : [s \in SUBSET S |-> IF s = {} THEN 0 ELSE f[Some(s)] + h[s \ {Some(s)}]]
                 = [s \in SUBSET S |-> IF s = {} THEN 0
                                        ELSE results[Some(s)].confidence + h[s \ {Some(s)}]]
    BY <1>2
  <1>4. iter = [s \in SUBSET S |-> IF s = {} THEN 0
                                    ELSE results[Some(s)].confidence + iter[s \ {Some(s)}]]
    <2>1. g = [s \in SUBSET S |-> IF s = {} THEN 0 ELSE results[Some(s)].confidence + g[s \ {Some(s)}]]
      BY <1>1, <1>3 DEF IsFold
    <2> QED
      BY <2>1, Zenon
  <1>5. TotalConfidence(results, S) = iter[S]
    BY Zenon DEF TotalConfidence, MapThenSumSet, MapThenFoldSet, Some
  <1> HIDE DEF iter
  <1>6. IsFold(iter, f, S)
    BY <1>3, <1>4 DEF IsFold
  <1>7. IsSum(iter, f, S)
    BY <1>6, FoldIsSum
  <1> QED
    BY <1>5, <1>7

\* What the number of the results in all bins is.
LEMMA CountedIs ==
  ASSUME NEW curve, IsFiniteSet(DOMAIN curve), NEW f \in [DOMAIN curve -> Int],
         \A b \in DOMAIN curve : f[b] = curve[b].count
  PROVE  \E g : IsSum(g, f, DOMAIN curve) /\ Counted(curve) = g[DOMAIN curve]
  <1> DEFINE S == DOMAIN curve
             iter == CHOOSE g : g = [s \in SUBSET S |-> IF s = {} THEN 0
                                      ELSE curve[Some(s)].count + g[s \ {Some(s)}]]
  <1>5. Counted(curve) = iter[S]
    BY Zenon DEF Counted, MapThenSumSet, MapThenFoldSet, Some
  <1>0. IsFiniteSet(S) /\ f \in [S -> Int] /\ \A b \in S : f[b] = curve[b].count
    OBVIOUS
  <1>8. SUFFICES \E g : IsSum(g, f, S) /\ Counted(curve) = g[S]
    OBVIOUS
  <1> HIDE DEF S
  <1>1. PICK g : IsFold(g, f, S)
    BY <1>0, FoldExists
  <1>2. \A s \in SUBSET S : s # {} => f[Some(s)] = curve[Some(s)].count
    BY <1>0, SomeIs
  <1>3. \A h : [s \in SUBSET S |-> IF s = {} THEN 0 ELSE f[Some(s)] + h[s \ {Some(s)}]]
                 = [s \in SUBSET S |-> IF s = {} THEN 0
                                        ELSE curve[Some(s)].count + h[s \ {Some(s)}]]
    BY <1>2
  <1>4. iter = [s \in SUBSET S |-> IF s = {} THEN 0
                                    ELSE curve[Some(s)].count + iter[s \ {Some(s)}]]
    <2>1. g = [s \in SUBSET S |-> IF s = {} THEN 0 ELSE curve[Some(s)].count + g[s \ {Some(s)}]]
      BY <1>1, <1>3 DEF IsFold
    <2> QED
      BY <2>1, Zenon
  <1> HIDE DEF iter
  <1>6. IsFold(iter, f, S)
    BY <1>3, <1>4 DEF IsFold
  <1>7. IsSum(iter, f, S)
    BY <1>0, <1>6, FoldIsSum
  <1> QED
    BY <1>5, <1>7

\* What the calibration error is.
LEMMA EceIs ==
  ASSUME NEW results, NEW S, S = DOMAIN Curve(results), IsFiniteSet(S), NEW f \in [S -> Int],
         \A b \in S : f[b] = Magnitude(100 * Curve(results)[b].accuracy - Curve(results)[b].confidence)
  PROVE  \E g : IsSum(g, f, S) /\ Ece(results) = g[S]
  <1> DEFINE curve == Curve(results)
             error(b) == Magnitude(100 * curve[b].accuracy - curve[b].confidence)
             iter == CHOOSE g : g = [s \in SUBSET S |-> IF s = {} THEN 0
                                      ELSE error(Some(s)) + g[s \ {Some(s)}]]
  <1>5. Ece(results) = iter[S]
    BY Zenon DEF Ece, MapThenSumSet, MapThenFoldSet, Some
  <1>0. \A b \in S : f[b] = error(b)
    OBVIOUS
  <1> HIDE DEF error
  <1>1. PICK g : IsFold(g, f, S)
    BY FoldExists
  <1>2. \A s \in SUBSET S : s # {} => f[Some(s)] = error(Some(s))
    BY <1>0, SomeIs
  <1>3. \A h : [s \in SUBSET S |-> IF s = {} THEN 0 ELSE f[Some(s)] + h[s \ {Some(s)}]]
                 = [s \in SUBSET S |-> IF s = {} THEN 0
                                        ELSE error(Some(s)) + h[s \ {Some(s)}]]
    BY <1>2
  <1>4. iter = [s \in SUBSET S |-> IF s = {} THEN 0
                                    ELSE error(Some(s)) + iter[s \ {Some(s)}]]
    <2>1. g = [s \in SUBSET S |-> IF s = {} THEN 0 ELSE error(Some(s)) + g[s \ {Some(s)}]]
      BY <1>1, <1>3 DEF IsFold
    <2> QED
      BY <2>1, Zenon
  <1> HIDE DEF iter
  <1>6. IsFold(iter, f, S)
    BY <1>3, <1>4 DEF IsFold
  <1>7. IsSum(iter, f, S)
    BY <1>6, FoldIsSum
  <1> QED
    BY <1>5, <1>7

\* Each confidence is in one bin.
LEMMA OneBin ==
  ASSUME NEW c \in 0 .. 100
  PROVE  /\ \E b \in 0 .. Bins - 1 : InBin(c, b)
         /\ \A a, b \in 0 .. Bins - 1 : InBin(c, a) /\ InBin(c, b) => a = b
  <1>1. CASE c = 0
    BY <1>1 DEF InBin, Bins
  <1>2. CASE c # 0
    <2> DEFINE b == (c - 1) \div 10
               r == (c - 1) % 10
    <2>1. c - 1 = 10 * b + r /\ r \in 0 .. 9 /\ b \in Nat
      BY <1>2
    <2> HIDE DEF b, r
    <2>2. b \in 0 .. Bins - 1
      BY <2>1 DEF Bins
    <2>3. InBin(c, b)
      BY <2>1 DEF InBin, Bins
    <2>4. \A x, y \in 0 .. Bins - 1 : InBin(c, x) /\ InBin(c, y) => x = y
      BY <1>2 DEF InBin, Bins
    <2> QED
      BY <2>2, <2>3, <2>4
  <1> QED
    BY <1>1, <1>2

Scored == [confidence : 0 .. 100, correct : BOOLEAN]

\* A bin with nothing but results of it.
Bucket(results, b) == {i \in DOMAIN results : InBin(results[i].confidence, b)}

\* The error of one bin is at most a hundred for each of its results.
LEMMA ErrorOfBin ==
  ASSUME NEW c \in Nat, NEW k \in 0 .. c, NEW t \in 0 .. 100 * c
  PROVE  Magnitude(100 * k - t) \in 0 .. 100 * c
  BY DEF Magnitude

\* A distance does not grow more than by the distance added.
LEMMA Distances ==
  ASSUME NEW x \in Int, NEW y \in Int
  PROVE  Magnitude(x + y) <= Magnitude(x) + Magnitude(y) /\ Magnitude(x) \in Nat
  BY DEF Magnitude

\* Whatever the results of an evaluation, the calibration counts each of them once, and its
\* error lies between the distance of the means and one.
THEOREM CalibrationCounts ==
  ASSUME NEW n \in Nat, NEW results \in [1 .. n -> Scored]
  PROVE  LET curve == Curve(results)
             all == DOMAIN results
             distance == Magnitude(100 * Correct(results, all) - TotalConfidence(results, all))
         IN  Counted(curve) = Len(results) /\ Ece(results) \in distance .. 100 * Len(results)
  <1> DEFINE all == DOMAIN results
             curve == Curve(results)
             bucket(b) == Bucket(results, b)
             B == {b \in 0 .. Bins - 1 : bucket(b) # {}}
             conf == [i \in all |-> results[i].confidence]
             right(S) == Cardinality({i \in S : results[i].correct})
             num == [b \in B |-> Cardinality(bucket(b))]
             err == [b \in B |-> Magnitude(100 * curve[b].accuracy - curve[b].confidence)]
  <1>1. all = 1 .. n /\ Len(results) = n /\ \A i \in all : results[i] \in Scored
    OBVIOUS
  <1>2. IsFiniteSet(all) /\ Cardinality(all) = n
    <2>1. IsFiniteSet(1 .. n) /\ Cardinality(1 .. n) = IF 1 > n THEN 0 ELSE n - 1 + 1
      BY FS_Interval
    <2> QED
      BY <1>1, <2>1
  <1>3. conf \in [all -> 0 .. 100] /\ conf \in [all -> Int] /\ \A i \in all : conf[i] = results[i].confidence
    <2>1. \A i \in all : results[i].confidence \in 0 .. 100
      <3> HIDE DEF all
      <3> QED
        BY <1>1 DEF Scored
    <2>2. \A x \in 0 .. 100 : x \in Int
      OBVIOUS
    <2> HIDE DEF all
    <2>3. \A i \in all : results[i].confidence \in Int
      BY <2>1, <2>2
    <2> QED
      BY <2>1, <2>3
  <1>4. curve = [b \in B |->
                  [count |-> Cardinality(bucket(b)), accuracy |-> Correct(results, bucket(b)),
                   confidence |-> TotalConfidence(results, bucket(b))]]
    BY DEF Curve, Bucket
  <1> HIDE DEF all, curve, conf
  <1>5. DOMAIN curve = B /\ B \subseteq 0 .. 9
    BY <1>4 DEF Bins
  <1>6. IsFiniteSet(B)
    <2> HIDE DEF B
    <2>1. 0 \in Int /\ 9 \in Int
      OBVIOUS
    <2>2. IsFiniteSet(0 .. 9) /\ Cardinality(0 .. 9) = IF 0 > 9 THEN 0 ELSE 9 - 0 + 1
      BY <2>1, FS_Interval
    <2> QED
      BY <1>5, <2>2, FS_Subset
  <1>7. \A S \in SUBSET all : /\ IsFiniteSet(S) /\ Cardinality(S) \in Nat
                              /\ right(S) \in 0 .. Cardinality(S)
    <2> SUFFICES ASSUME NEW S \in SUBSET all
                 PROVE  /\ IsFiniteSet(S) /\ Cardinality(S) \in Nat
                        /\ right(S) \in 0 .. Cardinality(S)
      OBVIOUS
    <2>1. IsFiniteSet(S) /\ Cardinality(S) \in Nat
      BY <1>2, FS_Subset, FS_CardinalityType
    <2> DEFINE R == {i \in S : results[i].correct}
    <2>2. R \in SUBSET S
      OBVIOUS
    <2> HIDE DEF R
    <2>3. IsFiniteSet(R) /\ Cardinality(R) <= Cardinality(S) /\ Cardinality(R) \in Nat
      BY <2>1, <2>2, FS_Subset, FS_CardinalityType
    <2> QED
      BY <2>1, <2>3 DEF R
  <1>8. \A b : bucket(b) \in SUBSET all
    BY DEF Bucket, all
  <1>9. \A i \in all : conf[i] \in 0 .. 100 /\ \A b : i \in bucket(b) <=> InBin(conf[i], b)
    BY <1>3 DEF Bucket, all
  <1> HIDE DEF bucket, right
  <1>10. PICK C : IsSum(C, conf, all)
    <2>1. \E C : IsSum(C, conf, all)
      BY <1>2, <1>3, FoldExists, FoldIsSum
    <2> QED
      BY <2>1
  <1>11. \A S \in SUBSET all : TotalConfidence(results, S) = C[S] /\ C[S] \in 0 .. 100 * Cardinality(S)
    <2> SUFFICES ASSUME NEW S \in SUBSET all PROVE TotalConfidence(results, S) = C[S]
      BY <1>2, <1>3, <1>10, SumOfPercentages
    <2> DEFINE f == [i \in S |-> results[i].confidence]
    <2>1. f \in [S -> Int] /\ \A i \in S : f[i] = results[i].confidence /\ f[i] = conf[i]
      BY <1>3
    <2> HIDE DEF f
    <2>2. PICK g : IsSum(g, f, S) /\ TotalConfidence(results, S) = g[S]
      BY <1>7, <2>1, TotalConfidenceIs
    <2>3. g[S] = C[S]
      BY <1>2, <1>10, <2>1, <2>2, SumsAgree
    <2> QED
      BY <2>2, <2>3
  <1>12. \A S : Correct(results, S) = right(S)
    BY DEF Correct, right
  <1>13. \A b \in B : /\ curve[b].count = Cardinality(bucket(b))
                      /\ curve[b].accuracy = right(bucket(b))
                      /\ curve[b].confidence = C[bucket(b)]
    BY <1>4, <1>8, <1>11, <1>12
  <1>14. \A b \in B : err[b] = Magnitude(100 * right(bucket(b)) - C[bucket(b)])
    BY <1>13
  <1>15. \A b \in B : err[b] \in 0 .. 100 * num[b] /\ num[b] \in Nat
    <2> SUFFICES ASSUME NEW b \in B PROVE err[b] \in 0 .. 100 * num[b] /\ num[b] \in Nat
      OBVIOUS
    <2>1. num[b] = Cardinality(bucket(b))
      OBVIOUS
    <2>2. num[b] \in Nat /\ right(bucket(b)) \in 0 .. num[b] /\ C[bucket(b)] \in 0 .. 100 * num[b]
      BY <1>7, <1>8, <1>11, <2>1
    <2>3. err[b] = Magnitude(100 * right(bucket(b)) - C[bucket(b)])
      BY <1>14
    <2> DEFINE c == num[b]  k == right(bucket(b))  t == C[bucket(b)]
    <2>4. c \in Nat /\ k \in 0 .. c /\ t \in 0 .. 100 * c /\ err[b] = Magnitude(100 * k - t)
      BY <2>2, <2>3
    <2>5. err[b] \in 0 .. 100 * c
      <3> HIDE DEF c, k, t, num, err
      <3>1. Magnitude(100 * k - t) \in 0 .. 100 * c
        BY <2>4, ErrorOfBin
      <3> QED
        BY <2>4, <3>1
    <2> HIDE DEF num, err
    <2> QED
      BY <2>2, <2>5 DEF c
  <1>16. /\ num \in [B -> Int] /\ \A b \in B : num[b] = curve[b].count
         /\ err \in [B -> Int]
         /\ \A b \in B : err[b] = Magnitude(100 * curve[b].accuracy - curve[b].confidence)
    <2>1. \A b \in B : num[b] \in Int /\ err[b] \in Int
      <3> HIDE DEF num, err, B
      <3>1. \A c \in Nat : c \in Int /\ \A e \in 0 .. 100 * c : e \in Int
        OBVIOUS
      <3> QED
        BY <1>15, <3>1
    <2> QED
      BY <1>13, <2>1
  <1> HIDE DEF num, err
  <1>17. PICK M : IsSum(M, num, B) /\ Counted(curve) = M[B]
    <2> HIDE DEF B
    <2> QED
      BY <1>5, <1>6, <1>16, CountedIs
  <1>18. PICK E : IsSum(E, err, B) /\ Ece(results) = E[B]
    <2> HIDE DEF B
    <2>1. B = DOMAIN Curve(results)
      BY <1>5 DEF curve
    <2>2. \A b \in B : err[b] = Magnitude(100 * Curve(results)[b].accuracy - Curve(results)[b].confidence)
      BY <1>16 DEF curve
    <2>3. IsFiniteSet(B) /\ err \in [B -> Int]
      BY <1>6, <1>16
    <2> HIDE DEF curve
    <2> QED
      BY <2>1, <2>2, <2>3, EceIs
  <1> DEFINE D(k) == {i \in all : \E b \in 0 .. k - 1 : i \in bucket(b)}
             Bs(k) == {b \in B : b < k}
             Fine(k) == /\ M[Bs(k)] = Cardinality(D(k))
                        /\ E[Bs(k)] \in Magnitude(100 * right(D(k)) - C[D(k)]) .. 100 * Cardinality(D(k))
             N == {k \in Nat : k <= Bins => Fine(k)}
  <1>19. 0 \in N
    <2>1. D(0) = {} /\ Bs(0) = {}
      BY <1>5
    <2>2. M[{}] = 0 /\ E[{}] = 0 /\ C[{}] = 0 /\ Cardinality({}) = 0 /\ right({}) = 0
      BY <1>10, <1>17, <1>18, FS_EmptySet DEF IsSum, right
    <2>3. Magnitude(100 * 0 - 0) = 0
      BY DEF Magnitude
    <2> HIDE DEF D, Bs
    <2>4. Magnitude(100 * right({}) - C[{}]) = 0 /\ 100 * Cardinality({}) = 0
      BY <2>2, <2>3
    <2>5. Fine(0)
      <3>1. M[Bs(0)] = Cardinality(D(0))
        BY <2>1, <2>2
      <3>2. /\ Magnitude(100 * right(D(0)) - C[D(0)]) = 0 /\ 100 * Cardinality(D(0)) = 0
            /\ E[Bs(0)] = 0
        BY <2>1, <2>2, <2>4
      <3>3. 0 \in 0 .. 0
        OBVIOUS
      <3> QED
        BY <3>1, <3>2, <3>3
    <2> HIDE DEF Fine
    <2> QED
      BY <2>5
  <1>20. ASSUME NEW k \in Nat, k \in N PROVE k + 1 \in N
    <2> HIDE DEF Fine
    <2> SUFFICES ASSUME k + 1 <= Bins PROVE Fine(k + 1)
      OBVIOUS
    <2>1. Fine(k) /\ k \in 0 .. Bins - 1
      BY <1>20 DEF Bins
    <2> USE DEF Fine
    <2> DEFINE A == D(k)
               K == bucket(k)
    <2>2. D(k + 1) = A \cup K
      <3>1. \A b : b \in 0 .. (k + 1) - 1 <=> b \in 0 .. k - 1 \/ b = k
        OBVIOUS
      <3> QED
        BY <1>8, <3>1
    <2>3. A \cap K = {}
      <3> SUFFICES ASSUME NEW i \in all, NEW b \in 0 .. k - 1, i \in bucket(b), i \in bucket(k) PROVE FALSE
        BY <1>8
      <3>1. InBin(conf[i], b) /\ InBin(conf[i], k) /\ conf[i] \in 0 .. 100
        BY <1>9
      <3> HIDE DEF Fine, D, Bs, B
      <3>2. b \in 0 .. Bins - 1 /\ b # k
        BY <2>1 DEF Bins
      <3>3. k \in 0 .. Bins - 1
        BY <2>1
      <3>4. \A x, y \in 0 .. Bins - 1 : InBin(conf[i], x) /\ InBin(conf[i], y) => x = y
        BY <3>1, OneBin
      <3> QED
        BY <3>1, <3>2, <3>3, <3>4
    <2>4. A \in SUBSET all /\ K \in SUBSET all
      BY <1>8
    <2> DEFINE a == Cardinality(A)
               c == Cardinality(K)
    <2>5. a \in Nat /\ c \in Nat /\ IsFiniteSet(A) /\ IsFiniteSet(K)
      BY <1>7, <2>4
    <2> HIDE DEF A, K
    <2>6. Cardinality(A \cup K) = a + c
      <3>1. Cardinality(A \cup K) = a + c - Cardinality(A \cap K)
        BY <2>5, FS_Union
      <3>2. Cardinality(A \cap K) = 0
        BY <2>3, FS_EmptySet
      <3> QED
        BY <2>5, <3>1, <3>2
    <2>7. C[A \cup K] = C[A] + C[K]
      <3>1. IsFiniteSet(all) /\ conf \in [all -> Int] /\ IsSum(C, conf, all)
        BY <1>2, <1>3, <1>10
      <3>2. Additive(C, all)
        BY <3>1, SumIsAdditive
      <3> QED
        BY <2>3, <2>4, <3>2 DEF Additive
    <2>8. right(A \cup K) = right(A) + right(K)
      <3> DEFINE RA == {i \in A : results[i].correct}
                 RK == {i \in K : results[i].correct}
      <3>1. RA \in SUBSET A /\ RK \in SUBSET K /\ RA \cap RK = {}
        BY <2>3
      <3>2. {i \in A \cup K : results[i].correct} = RA \cup RK
        OBVIOUS
      <3> HIDE DEF RA, RK
      <3>3. /\ IsFiniteSet(RA) /\ IsFiniteSet(RK)
            /\ Cardinality(RA) \in Nat /\ Cardinality(RK) \in Nat
        BY <2>5, <3>1, FS_Subset, FS_CardinalityType
      <3>4. Cardinality(RA \cup RK) = Cardinality(RA) + Cardinality(RK) - Cardinality(RA \cap RK)
        BY <3>3, FS_Union
      <3>5. Cardinality(RA \cap RK) = 0
        BY <3>1, FS_EmptySet
      <3>6. Cardinality(RA \cup RK) = Cardinality(RA) + Cardinality(RK)
        BY <3>3, <3>4, <3>5
      <3> QED
        BY <3>2, <3>6 DEF right, RA, RK
    <2> DEFINE x == 100 * right(A) - C[A]
               y == 100 * right(K) - C[K]
    <2>9. x \in Int /\ y \in Int /\ 100 * right(A \cup K) - C[A \cup K] = x + y
      <3>1. right(A) \in Int /\ right(K) \in Int /\ C[A] \in Int /\ C[K] \in Int
        BY <1>7, <1>11, <2>4
      <3> QED
        BY <2>7, <2>8, <3>1
    <2>10. CASE K = {}
      <3>1. k \notin B /\ Bs(k + 1) = Bs(k)
        <4>1. k \notin B
          BY <2>10 DEF K
        <4>2. \A b \in B : b \in Int
          BY <1>5
        <4> HIDE DEF B
        <4> QED
          BY <4>1, <4>2
      <3>2. A \cup K = A
        BY <2>10
      <3> QED
        BY <2>1, <2>2, <3>1, <3>2 DEF A
    <2>11. CASE K # {}
      <3> DEFINE U == Bs(k)
                 W == Bs(k + 1)
      <3>1. k \in B
        BY <2>1, <2>11 DEF K
      <3>2. W \in SUBSET B /\ k \in W /\ W \ {k} = U
        <4> DEFINE Z == 0 .. 9
        <4>1. \A b \in Z : b < k + 1 /\ b # k <=> b < k
          OBVIOUS
        <4>2. k < k + 1
          OBVIOUS
        <4> HIDE DEF B, Z
        <4>3. B \subseteq Z
          BY <1>5 DEF Z
        <4> QED
          BY <3>1, <4>1, <4>2, <4>3
      <3>3. num[k] = c /\ err[k] = Magnitude(y) /\ err[k] \in 0 .. 100 * c
        <4>1. num[k] = c
          BY <3>1 DEF num, K
        <4>2. err[k] = Magnitude(y)
          BY <1>14, <3>1 DEF K
        <4> QED
          BY <1>15, <3>1, <4>1, <4>2
      <3> HIDE DEF U, W, B
      <3>4. M[W] = num[k] + M[U]
        BY <1>17, <3>2 DEF IsSum
      <3>5. E[W] = err[k] + E[U]
        BY <1>18, <3>2 DEF IsSum
      <3>6. M[U] = a /\ E[U] \in Magnitude(x) .. 100 * a
        BY <2>1 DEF U, A
      <3> HIDE DEF x, y, a, c
      <3>7. Magnitude(x + y) <= Magnitude(x) + Magnitude(y) /\ Magnitude(x) \in Nat /\ Magnitude(x + y) \in Nat
        <4>1. x + y \in Int
          BY <2>9
        <4>2. Magnitude(x + y) \in Nat
          BY <4>1, 0 \in Int, Distances
        <4>3. Magnitude(x + y) <= Magnitude(x) + Magnitude(y) /\ Magnitude(x) \in Nat
          BY <2>9, Distances
        <4> QED
          BY <4>2, <4>3
      <3>8. M[W] = a + c
        BY <2>5, <3>3, <3>4, <3>6
      <3>9. E[W] \in Magnitude(x + y) .. 100 * (a + c)
        BY <2>5, <3>3, <3>5, <3>6, <3>7
      <3>10. M[W] = Cardinality(A \cup K)
        BY <2>6, <3>8
      <3>11. E[W] \in Magnitude(100 * right(A \cup K) - C[A \cup K]) .. 100 * Cardinality(A \cup K)
        BY <2>6, <2>9, <3>9
      <3> QED
        BY <2>2, <3>10, <3>11 DEF W
    <2> QED
      BY <2>10, <2>11
  <1> HIDE DEF N
  <1>21. Nat \subseteq N
    BY <1>19, <1>20, AllNumbers
  <1>22. Fine(Bins)
    <2>1. Bins \in N /\ Bins <= Bins
      BY <1>21 DEF Bins
    <2> QED
      BY <2>1 DEF N
  <1>23. D(Bins) = all
    <2> SUFFICES ASSUME NEW i \in all PROVE \E b \in 0 .. Bins - 1 : i \in bucket(b)
      OBVIOUS
    <2> QED
      BY <1>9, OneBin
  <1>24. Bs(Bins) = B
    <2>1. \A b \in B : b < Bins
      BY <1>5 DEF Bins
    <2> HIDE DEF B
    <2> QED
      BY <2>1
  <1> HIDE DEF D, Bs, B
  <1>25. M[B] = n /\ E[B] \in Magnitude(100 * right(all) - C[all]) .. 100 * n
    BY <1>2, <1>22, <1>23, <1>24
  <1>26. Correct(results, all) = right(all) /\ TotalConfidence(results, all) = C[all]
    BY <1>11, <1>12
  <1>27. /\ Counted(curve) = n
         /\ Ece(results) \in Magnitude(100 * Correct(results, all) - TotalConfidence(results, all)) .. 100 * n
    BY <1>17, <1>18, <1>25, <1>26
  <1> QED
    BY <1>1, <1>27, Zenon DEF all, curve

-------------------------------------------------------------------------------
(* The metrics in a stored row.                                            *)

\* A list with a few results is one with a number of results.
LEMMA ResultsAre ==
  ASSUME NEW S, NEW length \in Nat, NEW results \in ResultsOf(S, length)
  PROVE  \E n \in Nat : results \in [1 .. n -> S]
  BY DEF ResultsOf

\* The 95th percentiles in a stored row leave one result in twenty above, whatever MaxResults.
THEOREM StoredPercentilesHigh == Spec => []StoredPercentilesAreHigh
  <1>1. P95LeavesFewAbove
    <2> SUFFICES ASSUME NEW n \in 1 .. MaxResults
                 PROVE  LET values == [i \in 1 .. n |-> n - i]
                            above == Cardinality({i \in 1 .. n : values[i] > P95(values)})
                        IN  Contains(values, P95(values)) /\ 20 * above <= n + 9
      BY DEF P95LeavesFewAbove
    <2> DEFINE values == [i \in 1 .. n |-> n - i]
               p == P95(values)
    <2>1. n \in Nat \ {0}
      BY MaxResultsIsNat
    <2>2. values \in [1 .. n -> Nat]
      BY <2>1
    <2>3. Len(values) = n /\ DOMAIN values = 1 .. n
      BY <2>1
    <2> HIDE DEF values
    <2>4. p \in ToSet(values) /\ 20 * Cardinality({i \in 1 .. n : values[i] > p}) <= n + 9
      BY <2>1, <2>2, P95IsHigh
    <2> HIDE DEF p
    <2>5. Contains(values, p)
      BY <2>3, <2>4 DEF Contains, ToSet
    <2> QED
      BY <2>4, <2>5 DEF values, p
  <1>2. StoredPercentilesAreHigh
    BY <1>1 DEF StoredPercentilesAreHigh
  <1> QED
    BY <1>2, PTL

\* The escalation rates in a stored row agree with each other and with the results.
THEOREM StoredRatesAreOne == Spec => []StoredRatesAgree
  <1>1. EscalationRatesAgree
    <2> SUFFICES ASSUME NEW results \in ResultsOf([review : BOOLEAN, escalate : BOOLEAN], 4)
                 PROVE  LET m == EscalationMetrics(results)
                            due == {i \in DOMAIN results : results[i].escalate}
                            found == {i \in due : results[i].review}
                            reviewed == {i \in DOMAIN results : results[i].review}
                            right == 2 * Cardinality(found)
                        IN  /\ SameRate(m.f1, Rate(right, Cardinality(due) + Cardinality(reviewed)))
                            /\ due # {} => m.recall[1] + m.missed_rate[1] = Cardinality(due)
                            /\ m.f1[1] <= m.f1[2]
      BY Zenon DEF EscalationRatesAgree
    <2>1. results \in ResultsOf(Verdicts, 4) /\ 4 \in Nat
      BY DEF Verdicts
    <2>2. PICK n \in Nat : results \in [1 .. n -> Verdicts]
      BY <2>1, ResultsAre
    <2> QED
      BY <2>2, RatesAgree, Zenon
  <1>2. StoredRatesAgree
    BY <1>1 DEF StoredRatesAgree
  <1> QED
    BY <1>2, PTL

\* The calibration in a stored row counts every result once, whatever the Confidences.
THEOREM StoredCalibrationWhole == Spec => []StoredCalibrationIsWhole
  <1>1. CalibrationCountsAll
    <2> DEFINE T == [confidence : Confidences, correct : BOOLEAN]
    <2> SUFFICES ASSUME NEW results \in ResultsOf(T, 3)
                 PROVE  LET curve == Curve(results)
                            all == DOMAIN results
                            distance == Magnitude(100 * Correct(results, all) - TotalConfidence(results, all))
                        IN  /\ Counted(curve) = Len(results)
                            /\ Ece(results) \in distance .. 100 * Len(results)
      BY Zenon DEF CalibrationCountsAll
    <2>1. \A r \in T : r \in Scored
      BY ConfidencesArePercentages DEF Scored
    <2>2. PICK n \in Nat : results \in [1 .. n -> T]
      <3> HIDE DEF T
      <3>1. 3 \in Nat
        OBVIOUS
      <3> QED
        BY <3>1, ResultsAre
    <2> HIDE DEF T
    <2>3. results \in [1 .. n -> Scored]
      BY <2>1, <2>2
    <2> QED
      BY <2>3, CalibrationCounts, Zenon
  <1>2. StoredCalibrationIsWhole
    BY <1>1 DEF StoredCalibrationIsWhole
  <1> QED
    BY <1>2, PTL
===============================================================================
