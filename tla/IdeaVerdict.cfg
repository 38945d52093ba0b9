SPECIFICATION Spec
CONSTANTS
  w1 = w1
  w2 = w2
  Workers <- Worker
  JobSpecs <- OneJob
  BadOutput <- NoBadOutput
  LlmCanStop = FALSE
  MaxCrashes = 1
  MaxRequests = 0
  ApiOps <- NoOps
  FreeApproval = FALSE
INVARIANTS
  VerdictFaithful
CHECK_DEADLOCK FALSE
