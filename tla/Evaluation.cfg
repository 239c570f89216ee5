SPECIFICATION Spec
CONSTANTS
  Jobs = {j1, j2, j3}
  Kinds = {"api", "cli", "empty", "train"}
  None = None
  Torn = Torn
  Setup = Setup
  TicksPerSecond = 2
  MinDuration = 2
  MaxTime = 5
  Confidences = {0, 1, 10, 11, 50, 90, 99, 100}
  MaxResults = 80
SYMMETRY Symmetry
INVARIANTS
  TypeOK
  StoredRunHasItsReport
  LatestReportIsNotOutdated
  ArtifactsOfOneTraining
  AnswerIsNotOlder
  StoredPercentilesAreHigh
  StoredRatesAgree
  StoredCalibrationIsWhole
PROPERTIES
  NothingReplacedUnseen
CHECK_DEADLOCK FALSE
