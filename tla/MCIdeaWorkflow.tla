-------------------------- MODULE MCIdeaWorkflow --------------------------
(* Small instances of IdeaWorkflow for TLC. *)
EXTENDS IdeaWorkflow

CONSTANTS w1, w2

Spec0 == [sweep |-> FALSE, fetch |-> "absent", live |-> FALSE,
          lastGeneration |-> FALSE, raises |-> {}]
OneJob == {Spec0}
SweepSpec == [Spec0 EXCEPT !.sweep = TRUE]

(* Every option, and a job with a sweep for each call that may raise. *)
RaisingJobs == {[SweepSpec EXCEPT !.raises = {s}] : s \in Unguarded}
AllJobs == {j \in JobSpec : j.raises = {}} \cup RaisingJobs

Worker == {w1}
NoBadOutput == {}
SomeBadOutput == {"BLUEPRINT_PROPOSED", "REPORT_COMPLETED"}
NoOps == {}
IndexOps == {"reject", "rerun"}
SpawnOp == {"spawn"}
=============================================================================
