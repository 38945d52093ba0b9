------------------------------ MODULE JobTree ------------------------------
(***************************************************************************)
(* What the job store promises of its jobs, without files and processes:   *)
(* they form trees, a child is only made from a job that exists, by a      *)
(* choice that job can offer, no deeper than its budget policy allows; and *)
(* a job that exists stays.                                                *)
(***************************************************************************)
EXTENDS JobIds

VARIABLE jobs

Submit(r) == jobs' = jobs \cup {RootJob(r)}

Spawn(j, c) ==
  /\ j \in jobs
  /\ c \in Offerable(j)
  /\ MayDeepen(j)
  /\ jobs' = jobs \cup {Child(j, c)}

Init == jobs = {}
Next == \/ \E r \in Roots : Submit(r)
        \/ \E j \in Job, c \in Choice : Spawn(j, c)
Spec == Init /\ [][Next]_jobs
=============================================================================
