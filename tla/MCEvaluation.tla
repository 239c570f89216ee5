----------------------------- MODULE MCEvaluation ------------------------------
(***************************************************************************)
(* Three jobs of any kind, and the metrics that their rows hold.           *)
(***************************************************************************)
EXTENDS Evaluation, Metrics

Symmetry == Permutations(Jobs)

-------------------------------------------------------------------------------
(* Evaluation does not say which results a job has scored: what a stored   *)
(* row shows has to hold for all of them.                                  *)

\* The 95th percentiles in a stored row are values of the results, and about one result
\* in twenty or less is above, however few there are and however a half is rounded.
StoredPercentilesAreHigh == rows # {} => P95LeavesFewAbove

\* The escalation rates in a stored row agree with each other and with the results.
StoredRatesAgree == rows # {} => EscalationRatesAgree

\* The calibration in a stored row counts every result once.
StoredCalibrationIsWhole == rows # {} => CalibrationCountsAll
===============================================================================
