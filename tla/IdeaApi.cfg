SPECIFICATION FairSpec
CONSTANTS
  w1 = w1
  w2 = w2
  Workers <- Worker
  JobSpecs <- OneJob
  BadOutput <- NoBadOutput
  LlmCanStop = FALSE
  MaxCrashes = 1
  MaxRequests = 1
  ApiOps <- IndexOps
  FreeApproval = FALSE
PROPERTIES
  ImplementsPipeline
  
CHECK_DEADLOCK FALSE
