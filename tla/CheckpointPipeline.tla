------------------------- MODULE CheckpointPipeline -------------------------
(***************************************************************************)
(* What the orchestrator promises of a job, without its files, processes   *)
(* and crashes: a pipeline of stages with review steps between them.  A    *)
(* stage is performed once, after the stages it builds on were announced   *)
(* and the reviews in front of it were approved; it is announced after it  *)
(* was performed; and when the job is closed nothing more happens to it.   *)
(***************************************************************************)
CONSTANTS
  Stages,   \* units of work
  Steps,    \* review steps
  Pre,      \* Pre[s]: the stages that must have been announced before s
  Gate      \* Gate[s]: the steps that must have been approved before s

VARIABLES
  performed,   \* stages whose work is done
  announced,   \* stages the log tells of
  approved,    \* steps the operator has approved
  open         \* may the job still advance?

vars == <<performed, announced, approved, open>>

Init ==
  /\ performed = {}
  /\ announced = {}
  /\ approved = {}
  /\ open = TRUE

Approve(c) ==
  /\ approved' = approved \cup {c}
  /\ UNCHANGED <<performed, announced, open>>

Perform(s) ==
  /\ open
  /\ s \notin performed
  /\ Pre[s] \subseteq announced
  /\ Gate[s] \subseteq approved
  /\ performed' = performed \cup {s}
  /\ UNCHANGED <<announced, approved, open>>

Announce(s) ==
  /\ open
  /\ s \in performed
  /\ announced' = announced \cup {s}
  /\ UNCHANGED <<performed, approved, open>>

Close ==
  /\ open' = FALSE
  /\ UNCHANGED <<performed, announced, approved>>

Next ==
  \/ \E c \in Steps : Approve(c)
  \/ \E s \in Stages : Perform(s) \/ Announce(s)
  \/ Close

Spec == Init /\ [][Next]_vars
=============================================================================
