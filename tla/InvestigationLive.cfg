SPECIFICATION FairSpec
CONSTANTS
  i1 = i1
  i2 = i2
  i3 = i3
  Runs = {r1, r2}
  Incidents = {i1}
  AlertCauses <- MCAlertCauses
  SeverityOf <- MCSeverityOf
  Dialects = {"postgres", "sqlite"}
  NoEvidence = NoEvidence
  MaxToolCalls = 8
  MaxDuration = 0
PROPERTIES
  Termination
  ImplementsAtomicInvestigation
CHECK_DEADLOCK FALSE
