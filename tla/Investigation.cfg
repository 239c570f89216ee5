SPECIFICATION Spec
CONSTANTS
  i1 = i1
  i2 = i2
  i3 = i3
  Runs = {r1, r2}
  Incidents = {i1, i2, i3}
  AlertCauses <- MCAlertCauses
  SeverityOf <- MCSeverityOf
  Dialects = {"postgres", "sqlite"}
  NoEvidence = NoEvidence
  MaxToolCalls = 4
  MaxDuration = 0
INVARIANTS
  TypeOK
  CitedEvidencePersisted
  ToolCountMatchesEvidence
  AllOrNothing
  UnreviewedIsGrounded
  NoSelfRejection
CHECK_DEADLOCK FALSE
