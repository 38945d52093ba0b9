------------------------ MODULE MCBlueprintWorkflow ------------------------
(* Small instances of BlueprintWorkflow for TLC. *)
EXTENDS BlueprintWorkflow, TLC

CONSTANTS w1, w2, sh, j1, j2, r1

OneWorker == {w1}
OneShell == {sh}
WorkerAndShell == {w1, sh}
SharedRun == [j \in {j1, j2} |-> r1]
TwoJobs == {j1, j2}
OneRun == {r1}
InOrder == (j1 :> 1) @@ (j2 :> 2)
Steps == (j1 :> {"blueprint", "sweep"}) @@ (j2 :> {"any"})
NoRun == {}
OneJob == {j1}
Runner == {"run"}
Registry == {"gates", "record-trial", "create-card", "promote-card"}
Makers == {"create-card"}
=============================================================================
