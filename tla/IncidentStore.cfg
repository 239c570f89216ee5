SPECIFICATION MCSpec
CONSTANTS
  m1 = m1
  m2 = m2
  Clean = Clean
  Setup = Setup
  Requests = {1, 2, 3}
  Manifests = {m1, m2}
  Operations <- MCOperations
  Findings <- MCFindings
INVARIANTS
  TypeOK
  ArtifactsTogether
  InvestigatesWhatIsStored
  SomeoneGoesOn
PROPERTIES
  RegeneratesOneAtATime
  RequestsEnd
CHECK_DEADLOCK FALSE
