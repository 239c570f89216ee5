SPECIFICATION Spec
CONSTANTS
  m1 = m1
  m2 = m2
  Clean = Clean
  Setup = Setup
  Requests = {r1, r2}
  Manifests = {m1, m2}
  Operations <- MCWipes
  Findings <- MCFindings
INVARIANT
  RestoreIsFull
CHECK_DEADLOCK FALSE
