SPECIFICATION Spec
CONSTANTS
  w1 = w1
  w2 = w2
  sh = sh
  j1 = j1
  j2 = j2
  r1 = r1
  Workers <- OneWorker
  Shells <- OneShell
  Actors <- WorkerAndShell
  Runs <- OneRun
  Composed <- NoRun
  AllowSkip = FALSE
  Commands <- Runner
  Jobs <- TwoJobs
  RunOf <- SharedRun
  SweepJobs <- OneJob
  Rank <- InOrder
  Approvals <- Steps
  MaxEvents = 1
INVARIANTS
  DossierWhole
CHECK_DEADLOCK FALSE
