------------------------------- MODULE JobIds -------------------------------
(***************************************************************************)
(* The jobs of the job store (jobstore/store.py).  A root job is submitted *)
(* by a user; a child is spawned from a job by choosing one of its         *)
(* improvement proposals or the best point of its parameter sweep.  A job  *)
(* id is the hash of the job's spec, and the spec of a child names its     *)
(* parent and the choice: an id is modelled by the root and the choices    *)
(* that lead from it to the job.                                           *)
(***************************************************************************)
EXTENDS Naturals, Sequences

CONSTANTS
  Roots,          \* specs users may submit
  IdeaRoots,      \* those that are idea specs; the others are blueprints
  Proposals,      \* proposal ids an improvement agent gives out
  Best,           \* the choice of the sweep's best parameters
  OwnPolicy,      \* budget policy an idea spec names
  DefaultPolicy,  \* policies/budget_policy_v1.yaml, used for the other jobs
  Swept,          \* jobs with a sweep_spec
  MaxDepth        \* bound on the depth of an instance

Choice == Proposals \cup {Best}
Path == UNION {[1..n -> Choice] : n \in 0..MaxDepth}
Job == [root : Roots, path : Path]

RootJob(r) == [root |-> r, path |-> <<>>]
Child(j, c) == [root |-> j.root, path |-> Append(j.path, c)]
Generation(j) == Len(j.path)

IsIdea(j) == j.path = <<>> /\ j.root \in IdeaRoots

(* Only idea jobs have an improvement agent. *)
Offerable(j) ==
  (IF IsIdea(j) THEN Proposals ELSE {}) \cup (IF j \in Swept THEN {Best} ELSE {})

(* The policy a spawn is checked against; 0 means no limit. *)
Policy == [spawn : Nat, iterations : Nat]
Limit(j) == IF IsIdea(j) THEN OwnPolicy ELSE DefaultPolicy

ASSUME RootsAssumption == IdeaRoots \subseteq Roots
ASSUME PolicyAssumption == OwnPolicy \in Policy /\ DefaultPolicy \in Policy
ASSUME DepthAssumption == MaxDepth \in Nat

(* max_total_iterations: the generation a child of j would have. *)
MayDeepen(j) ==
  Limit(j).iterations # 0 => Generation(j) + 1 < Limit(j).iterations
=============================================================================
