SPECIFICATION Spec
CONSTANTS
  idea = idea
  blueprint = blueprint
  p1 = p1
  p2 = p2
  r1 = r1
  r2 = r2
  Roots <- OneBlueprint
  IdeaRoots <- NoIdea
  Proposals <- NoProposal
  Best = best
  OwnPolicy <- OneSpawn
  DefaultPolicy <- OneSpawn
  Swept <- EveryJob
  MaxDepth = 2
  Requests <- TwoThreads
  Rank <- BlueprintsFirst
  None = none
  MaxCrashes = 1
INVARIANTS
  TypeOK
  SpawnOvershoot
  SpawnedIsReal
SYMMETRY Threads
CHECK_DEADLOCK FALSE
