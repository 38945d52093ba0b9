SPECIFICATION Spec
CONSTANTS
  j1 = j1
  worker = worker
  t1 = t1
  Jobs <- OneJob
  Worker = worker
  Threads <- OneThread
  AgentOrder <- ThreeAgents
  RerunAgents <- RerunBacktest
  MaxCalls = 3
  MaxSize = 3
  Sizes <- SmallAndLarge
  None = none
  MaxFaults = 2
  MaxReruns = 2
INVARIANTS
  TypeOK
  CallsWithinBudget
  NoFreeRun
  OutputsOfOneCall
CHECK_DEADLOCK FALSE
