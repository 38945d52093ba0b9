SPECIFICATION FairSpec
CONSTANTS
  w1 = w1
  w2 = w2
  Workers <- Worker
  JobSpecs <- AllJobs
  BadOutput <- SomeBadOutput
  LlmCanStop = TRUE
  MaxCrashes = 1
  MaxRequests = 0
  ApiOps <- SpawnOp
  FreeApproval = FALSE
INVARIANTS
  TypeOK
  CheckpointDiscipline
  EventsInOrder
  CleanFinish
  CardIsEarned
PROPERTIES
  ClosedIsFinal
  EvidenceIsAppendOnly
  ImplementsPipeline
  
CHECK_DEADLOCK FALSE
