-------------------------------- MODULE Metrics --------------------------------
(***************************************************************************)
(* The metrics of an evaluation (evaluation/metrics.py), as functions of   *)
(* the results of its incidents.  A confidence is in percent, a rate is a  *)
(* fraction of two numbers.  Left out are plain means and totals, and the  *)
(* F1 scores of the classification, which scikit-learn computes.           *)
(***************************************************************************)
EXTENDS Integers, Sequences, SequencesExt, FiniteSetsExt

CONSTANTS
  Confidences,  \* percentages
  MaxResults    \* results of an evaluation, at most, in the checks of its rates

ASSUME ConfidencesArePercentages == Confidences \subseteq 0 .. 100
ASSUME MaxResultsIsNat == MaxResults \in Nat

\* num / den, and 0.0 where there is nothing to divide by.
Rate(num, den) == IF den = 0 THEN <<0, 1>> ELSE <<num, den>>

SameRate(a, b) == a[1] * b[2] = b[1] * a[2]

Magnitude(n) == IF n < 0 THEN -n ELSE n

-------------------------------------------------------------------------------
(* _p95                                                                    *)

\* Mutant: rounded down.
RoundDown(num, den) == num \div den

\* round(num / den), which takes a half to the even neighbour.
Round(num, den) ==
  LET floor == num \div den
      twice == 2 * (num % den)
  IN  IF twice < den \/ (twice = den /\ floor % 2 = 0) THEN floor ELSE floor + 1

\* sorted(values)[k]: k of the values at most are less, and more than k are not greater.
Ranked(values, k) ==
  CHOOSE v \in ToSet(values) :
    /\ Cardinality({i \in DOMAIN values : values[i] < v}) <= k
    /\ Cardinality({i \in DOMAIN values : values[i] <= v}) > k

P95(values) ==
  LET last == Len(values) - 1
      index == Round(95 * last, 100)
  IN  IF values = <<>> THEN 0 ELSE Ranked(values, IF index < last THEN index ELSE last)

-------------------------------------------------------------------------------
(* _escalation_metrics                                                     *)

\* Mutant: the mean of precision and recall.
MeanOfRates(p, r) == Rate(p[1] * r[2] + r[1] * p[2], 2 * p[2] * r[2])

\* 2 * precision * recall / (precision + recall)
F1(p, r) == Rate(2 * p[1] * r[1], p[1] * r[2] + r[1] * p[2])

EscalationMetrics(results) ==
  LET count(review, escalate) ==
        Cardinality({i \in DOMAIN results :
                       results[i].review = review /\ results[i].escalate = escalate})
      tp == count(TRUE, TRUE)
      fp == count(TRUE, FALSE)
      fn == count(FALSE, TRUE)
      tn == count(FALSE, FALSE)
      precision == Rate(tp, tp + fp)
      recall == Rate(tp, tp + fn)
  IN  [precision |-> precision, recall |-> recall, f1 |-> F1(precision, recall),
       false_rate |-> Rate(fp, fp + tn), missed_rate |-> Rate(fn, fn + tp)]

-------------------------------------------------------------------------------
(* _calibration                                                            *)

Bins == 10

\* Mutant: a confidence on the border of two bins is in neither.
StrictlyInBin(confidence, b) ==
  b * 100 < confidence * Bins /\ confidence * Bins < (b + 1) * 100

InBin(confidence, b) ==
  \/ b * 100 < confidence * Bins /\ confidence * Bins <= (b + 1) * 100
  \/ b = 0 /\ confidence = 0

Correct(results, S) == Cardinality({i \in S : results[i].correct})
TotalConfidence(results, S) == MapThenSumSet(LAMBDA i : results[i].confidence, S)

\* The bins that are not empty; accuracy and confidence are sums, not divided by count.
Curve(results) ==
  LET bucket(b) == {i \in DOMAIN results : InBin(results[i].confidence, b)}
  IN  [b \in {x \in 0 .. Bins - 1 : bucket(x) # {}} |->
         [count |-> Cardinality(bucket(b)), accuracy |-> Correct(results, bucket(b)),
          confidence |-> TotalConfidence(results, bucket(b))]]

\* The expected calibration error, times a hundred results.
Ece(results) ==
  LET curve == Curve(results)
  IN  MapThenSumSet(LAMBDA b : Magnitude(100 * curve[b].accuracy - curve[b].confidence),
                    DOMAIN curve)

-------------------------------------------------------------------------------
(* Properties, for every evaluation with a few results.                    *)

\* The results in all bins of a curve.
Counted(curve) == MapThenSumSet(LAMBDA b : curve[b].count, DOMAIN curve)

ResultsOf(S, length) == UNION {[1 .. n -> S] : n \in 0 .. length}

\* However few tool calls or seconds are measured and however half an index is rounded,
\* the 95th percentile is one of them, and about one in twenty or less is above.
P95LeavesFewAbove ==
  \A n \in 1 .. MaxResults :
    LET values == [i \in 1 .. n |-> n - i]
        above == Cardinality({i \in 1 .. n : values[i] > P95(values)})
    IN  Contains(values, P95(values)) /\ 20 * above <= n + 9

\* The rates of escalation agree, also where one has nothing to divide by: F1 is that of
\* the counts, and what is not recalled is missed.
EscalationRatesAgree ==
  \A results \in ResultsOf([review : BOOLEAN, escalate : BOOLEAN], 4) :
    LET m == EscalationMetrics(results)
        due == {i \in DOMAIN results : results[i].escalate}
        found == {i \in due : results[i].review}
        reviewed == {i \in DOMAIN results : results[i].review}
        right == 2 * Cardinality(found)
    IN  /\ SameRate(m.f1, Rate(right, Cardinality(due) + Cardinality(reviewed)))
        /\ due # {} => m.recall[1] + m.missed_rate[1] = Cardinality(due)
        /\ m.f1[1] <= m.f1[2]

\* The calibration counts every result once, also on the border of two bins and at a
\* confidence of zero or one, so that the error is not less than the distance between
\* accuracy and mean confidence, nor more than one.
CalibrationCountsAll ==
  \A results \in ResultsOf([confidence : Confidences, correct : BOOLEAN], 3) :
    LET curve == Curve(results)
        all == DOMAIN results
        distance == Magnitude(100 * Correct(results, all) - TotalConfidence(results, all))
    IN  /\ Counted(curve) = Len(results)
        /\ Ece(results) \in distance .. 100 * Len(results)
===============================================================================
