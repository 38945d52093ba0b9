----------------------------- MODULE MCJobStore -----------------------------
(* Small instances of JobStore for TLC. *)
EXTENDS JobStore, TLC

CONSTANTS idea, blueprint, p1, p2, r1, r2

OneIdea == {idea}
OneBlueprint == {blueprint}
BothKinds == {idea, blueprint}
NoIdea == {}

NoProposal == {}
OneProposal == {p1}

OneThread == {r1}
TwoThreads == {r1, r2}
Threads == Permutations(TwoThreads)

EveryJob == Job
NotBest == {j \in Job : j.path = <<>> \/ j.path[1] # Best}

OneSpawn == [spawn |-> 1, iterations |-> 2]
Deeper == [spawn |-> 1, iterations |-> 3]

(* Root jobs by kind, then the deeper ones: blueprints first. *)
BlueprintsFirst ==
  [j \in Job |-> Generation(j) + (IF j.root = blueprint THEN 0 ELSE MaxDepth + 1)]
=============================================================================
