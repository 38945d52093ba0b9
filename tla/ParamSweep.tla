------------------------------ MODULE ParamSweep ------------------------------
(***************************************************************************)
(* The parameter sweep of a job (orchestrator/param_sweep.py): one process *)
(* goes over the grid in order, runs and judges each point, appends what   *)
(* came of it to trials.jsonl, and at the end ranks the log in             *)
(* leaderboard.json, from which children are spawned.  A process that dies *)
(* is followed by another, which has only the files to go by.              *)
(***************************************************************************)
EXTENDS Integers, Sequences, FiniteSets, SequencesExt, Ordering

CONSTANTS
  Points,      \* parameter settings
  Combos,      \* the grid as it is enumerated; a point may be there twice
  Outcomes,    \* what running and judging a point may come to
  Knobs,       \* governance and user limits
  Earlier,     \* points another job with the same run spec may have judged
  NoMetric,    \* a metric that is missing
  TopLength,   \* rows on the leaderboard
  MaxCrashes

(* The back test of a point may be invalid, or may raise for one of the     *)
(* other segments; else there is a metric and a verdict of the gates.  A    *)
(* metric is missing or can be compared: the NaN of a degenerate equity     *)
(* curve, which the code keeps as a metric, is left out (README, section 6).*)
Outcome == [run : {"completed", "invalid", "raises"}, pass : BOOLEAN,
            holdout : {"absent", "pass", "fail"}, metric : Int \cup {NoMetric}]
Trial == [point : Points, index : Nat, pass : BOOLEAN, holdout : {"absent", "pass", "fail"},
          metric : Int \cup {NoMetric}]

ASSUME GridAssumption == Combos \in Seq(Points) /\ TopLength \in Nat \ {0}
ASSUME OutcomesAssumption == Outcomes \subseteq Outcome
ASSUME EarlierAssumption == Earlier \subseteq Points
ASSUME MetricAssumption == NoMetric \notin Int
ASSUME KnobsAssumption ==
  Knobs \subseteq [proposals : Nat, trials : Nat, stop : Nat, user : Nat \cup {-1},
                   higher : BOOLEAN]

VARIABLES
  outcome,      \* of each point: back test and gates are deterministic
  knobs,        \* max_proposals_per_job, max_trials, stop_if_no_improvement_n
                \* of the policy and of the sweep (-1: not given), higher_is_better
  valid,        \* the sweep can be run at all
  dossiers,     \* points with a dossier
  judged,       \* points whose dossier has gate results
  trials,       \* trials.jsonl
  leaderboard,  \* leaderboard.json
  indexed,      \* outputs.json names it
  stopped,      \* reasons of the STOPPED_BUDGET events
  job,          \* has the workflow gone past the sweep?
  proc,         \* the process that sweeps
  crashes

given == <<outcome, knobs, valid>>
evidence == <<dossiers, judged, trials, leaderboard, indexed, stopped>>
vars == <<given, evidence, job, proc, crashes>>

Idle == [at |-> "idle", i |-> 1, tried |-> 0, best |-> NoMetric, streak |-> 0, passed |-> FALSE]
NoLeaderboard == [there |-> FALSE, top |-> <<>>]
TypeOK ==
  /\ outcome \in [Points -> Outcomes]
  /\ knobs \in Knobs
  /\ valid \in BOOLEAN
  /\ dossiers \subseteq Points
  /\ judged \subseteq dossiers
  /\ trials \in Seq(Trial)
  /\ leaderboard \in [there : BOOLEAN, top : Seq(Nat)]
  /\ indexed \in BOOLEAN
  /\ stopped \in Seq({"max_trials", "stop_if_no_improvement_n"})
  /\ job \in {"due", "past", "error"}
  /\ proc \in [at : {"idle", "next", "gates", "append", "stop", "rank", "index", "return"},
               i : Nat, tried : Nat, best : Int \cup {NoMetric}, streak : Nat, passed : BOOLEAN]
  /\ crashes \in Nat

Init ==
  /\ outcome \in [Points -> Outcomes]
  /\ knobs \in Knobs
  /\ valid \in BOOLEAN
  /\ judged \in SUBSET Earlier
  /\ \A p \in judged : outcome[p].run = "completed"
  /\ dossiers = judged
  /\ trials = <<>>
  /\ leaderboard = NoLeaderboard
  /\ indexed = FALSE
  /\ stopped = <<>>
  /\ job = "due"
  /\ proc = Idle
  /\ crashes = 0

-----------------------------------------------------------------------------
(* Slip: the sweep's own limit replaces the policy's. *)
MaxTrialsUser(k) ==
  IF k.trials > 0 THEN (IF k.trials < Len(Combos) THEN k.trials ELSE Len(Combos))
  ELSE IF k.proposals > 0 /\ k.proposals < Len(Combos) THEN k.proposals ELSE Len(Combos)

(* The smallest of the grid and the limits that are set. *)
MaxTrials(k) ==
  CHOOSE n \in {Len(Combos), k.proposals, k.trials} :
    /\ n > 0 \/ n = Len(Combos)
    /\ \A o \in {Len(Combos), k.proposals, k.trials} : o > 0 => n <= o

(* 0 never stops; the sweep may ask for a smaller number - or for 0, which  *)
(* turns the policy's stop off.                                             *)
StopAfter(k) ==
  IF k.user = -1 \/ (k.stop > 0 /\ k.user > k.stop) THEN k.stop ELSE k.user

(* Slip: a point that failed may be tried again. *)
RecordedPassing == {trials[k].point : k \in {l \in DOMAIN trials : trials[l].pass}}

Recorded == {trials[k].point : k \in DOMAIN trials}
Point == Combos[proc.i]
NewTrial(passed, holdout, metric) ==
  [point |-> Point, index |-> proc.i, pass |-> passed, holdout |-> holdout, metric |-> metric]
Eligible(t) == t.pass /\ t.holdout # "fail" /\ t.metric # NoMetric
Better(a, b) == IF knobs.higher THEN a > b ELSE a < b

Goto(place) == proc' = [proc EXCEPT !.at = place]

-----------------------------------------------------------------------------
(* Slip: a sweep is taken up whether or not it has a leaderboard. *)
BeginAgain ==
  /\ job = "due" /\ proc.at = "idle"
  /\ valid
  /\ proc' = [Idle EXCEPT !.at = "next"]
  /\ UNCHANGED <<given, evidence, job, crashes>>

(* A sweep that has no leaderboard is begun, or taken up where the log      *)
(* ends: what the process before remembered is lost.                        *)
Begin ==
  /\ job = "due" /\ proc.at = "idle"
  /\ valid
  /\ ~leaderboard.there
  /\ proc' = [Idle EXCEPT !.at = "next"]
  /\ UNCHANGED <<given, evidence, job, crashes>>

Refuse ==
  /\ job = "due" /\ proc.at = "idle"
  /\ ~valid
  /\ job' = "error"
  /\ UNCHANGED <<given, evidence, proc, crashes>>

(* The trial budget is used up; every position of the grid counts.          *)
Exhausted ==
  /\ proc.at = "next"
  /\ proc.i <= Len(Combos)
  /\ proc.tried >= MaxTrials(knobs)
  /\ stopped' = Append(stopped, "max_trials")
  /\ Goto("rank")
  /\ UNCHANGED <<given, dossiers, judged, trials, leaderboard, indexed, job, crashes>>

Room == proc.at = "next" /\ proc.i <= Len(Combos) /\ proc.tried < MaxTrials(knobs)

SkipDone ==
  /\ Room
  /\ Point \in Recorded
  /\ proc' = [proc EXCEPT !.i = @ + 1, !.tried = @ + 1]
  /\ UNCHANGED <<given, evidence, job, crashes>>

RecordInvalid ==
  /\ Room
  /\ Point \notin Recorded
  /\ outcome[Point].run = "invalid"
  /\ trials' = Append(trials, NewTrial(FALSE, "absent", NoMetric))
  /\ proc' = [proc EXCEPT !.i = @ + 1, !.tried = @ + 1]
  /\ UNCHANGED <<given, dossiers, judged, leaderboard, indexed, stopped, job, crashes>>

(* Only the back test of the test segment is guarded. *)
SegmentRaises ==
  /\ Room
  /\ Point \notin Recorded
  /\ outcome[Point].run = "raises"
  /\ proc' = Idle
  /\ UNCHANGED <<given, evidence, job, crashes>>

(* Slip: the gates are given the temporary directory. *)
JudgeTemporary ==
  /\ Room
  /\ Point \notin Recorded
  /\ outcome[Point].run = "completed"
  /\ Goto("gates")
  /\ UNCHANGED <<given, evidence, job, crashes>>

(* A dossier that is there, of this job or of another, is left alone. *)
WriteDossier ==
  /\ Room
  /\ Point \notin Recorded
  /\ outcome[Point].run = "completed"
  /\ dossiers' = dossiers \cup {Point}
  /\ Goto("gates")
  /\ UNCHANGED <<given, judged, trials, leaderboard, indexed, stopped, job, crashes>>

(* Slip: a gate run that finds results is taken for a pass. *)
JudgeNoopPasses ==
  /\ proc.at = "gates"
  /\ judged' = judged \cup {Point}
  /\ proc' = [proc EXCEPT !.at = "append",
       !.passed = outcome[Point].pass \/ Point \in judged]
  /\ UNCHANGED <<given, dossiers, trials, leaderboard, indexed, stopped, job, crashes>>

(* The reply of a gate run that finds results has no verdict in it, which   *)
(* counts as a failure.                                                     *)
Judge ==
  /\ proc.at = "gates"
  /\ judged' = judged \cup {Point}
  /\ proc' = [proc EXCEPT !.at = "append",
       !.passed = outcome[Point].pass /\ Point \notin judged]
  /\ UNCHANGED <<given, dossiers, trials, leaderboard, indexed, stopped, job, crashes>>

(* Slip: a tie counts as an improvement. *)
ImprovesOrTies(t) == Eligible(t) /\ (proc.best = NoMetric \/ ~Better(proc.best, t.metric))

Improves(t) == Eligible(t) /\ (proc.best = NoMetric \/ Better(t.metric, proc.best))

(* Every trial that does not improve counts, eligible or not. *)
Streak(t) == IF Improves(t) THEN 0 ELSE proc.streak + 1

AppendTrial ==
  /\ proc.at = "append"
  /\ LET t == NewTrial(proc.passed, outcome[Point].holdout, outcome[Point].metric) IN
     /\ trials' = Append(trials, t)
     /\ proc' = [proc EXCEPT
          !.i = @ + 1, !.tried = @ + 1,
          !.best = IF Improves(t) THEN t.metric ELSE @,
          !.streak = Streak(t),
          !.at = IF StopAfter(knobs) > 0 /\ Streak(t) >= StopAfter(knobs) THEN "stop" ELSE "next"]
  /\ UNCHANGED <<given, dossiers, judged, leaderboard, indexed, stopped, job, crashes>>

Barren ==
  /\ proc.at = "stop"
  /\ stopped' = Append(stopped, "stop_if_no_improvement_n")
  /\ Goto("rank")
  /\ UNCHANGED <<given, dossiers, judged, trials, leaderboard, indexed, job, crashes>>

Ahead(k, l) ==
  \/ Better(trials[k].metric, trials[l].metric)
  \/ trials[k].metric = trials[l].metric /\ k < l
ByRank(numbers) == InOrder(numbers, {p \in numbers \X numbers : Ahead(p[1], p[2])})

(* Slip: rank by metric alone. *)
RankingByMetric == ByRank({k \in DOMAIN trials : trials[k].metric # NoMetric})

(* All eligible trials of the log, the best first, ties as recorded.        *)
Ranking == ByRank({k \in DOMAIN trials : Eligible(trials[k])})

WriteLeaderboard ==
  /\ proc.at = "rank" \/ (proc.at = "next" /\ proc.i > Len(Combos))
  /\ leaderboard' = [there |-> TRUE,
                     top |-> SubSeq(Ranking, 1, IF Len(Ranking) < TopLength THEN Len(Ranking) ELSE TopLength)]
  /\ Goto("index")
  /\ UNCHANGED <<given, dossiers, judged, trials, indexed, stopped, job, crashes>>

WriteIndex ==
  /\ proc.at = "index"
  /\ indexed' = TRUE
  /\ Goto("return")
  /\ UNCHANGED <<given, dossiers, judged, trials, leaderboard, stopped, job, crashes>>

(* Slip: the workflow waits for a sweep to return. *)
ProceedOnReturn ==
  /\ job = "due"
  /\ proc.at = "return"
  /\ job' = "past"
  /\ proc' = Idle
  /\ UNCHANGED <<given, evidence, crashes>>

(* The workflow goes on when the sweep returns or a leaderboard is there.   *)
Proceed ==
  /\ job = "due"
  /\ proc.at = "return" \/ (proc.at = "idle" /\ leaderboard.there)
  /\ job' = "past"
  /\ proc' = Idle
  /\ UNCHANGED <<given, evidence, crashes>>

Crash ==
  /\ proc.at # "idle"
  /\ crashes < MaxCrashes
  /\ crashes' = crashes + 1
  /\ proc' = Idle
  /\ UNCHANGED <<given, evidence, job>>

Sweep ==
  \/ Begin \/ Refuse \/ Exhausted \/ SkipDone \/ RecordInvalid \/ SegmentRaises
  \/ WriteDossier \/ Judge \/ AppendTrial \/ Barren \/ WriteLeaderboard \/ WriteIndex
  \/ Proceed

Next == Sweep \/ Crash
Spec == Init /\ [][Next]_vars
(* The worker comes back to the job in every pass. *)
FairSpec == Spec /\ WF_vars(Sweep)

-----------------------------------------------------------------------------
(* Properties *)

(* The log is the grid from its beginning, each point once, whatever dies   *)
(* and resumes: no point is tried twice, none is passed over (343-348,      *)
(* 428-431).                                                                *)
GridOrder ==
  \A k \in DOMAIN trials :
    /\ trials[k].point = Combos[trials[k].index]
    /\ \A l \in 1..(k - 1) : trials[l].index < trials[k].index /\ trials[l].point # trials[k].point
    /\ \A i \in 1..trials[k].index : \E l \in 1..k : trials[l].point = Combos[i]

(* "sweep may reduce limits but must not increase" (param_sweep.py 320):     *)
(* over all its processes a sweep records no more trials than the policy    *)
(* allows, nor than it asked for.                                           *)
WithinBudget ==
  /\ knobs.proposals > 0 => Len(trials) <= knobs.proposals
  /\ knobs.trials > 0 => Len(trials) <= knobs.trials

(* A trial that is recorded as passing was judged so by the gates on        *)
(* evidence that can be read (632-660); the converse fails after a crash.   *)
NoFalsePass ==
  \A k \in DOMAIN trials :
    trials[k].pass =>
      /\ trials[k].point \in judged
      /\ outcome[trials[k].point].run = "completed" /\ outcome[trials[k].point].pass

(* What a child job will be made of: the first row of the leaderboard is    *)
(* the best of all recorded trials that pass, over all processes, and none  *)
(* that fails the holdout is on it (698-753).                               *)
BestIsBest ==
  leaderboard.there =>
    /\ \A r \in DOMAIN leaderboard.top :
         LET t == trials[leaderboard.top[r]] IN t.pass /\ t.holdout # "fail"
    /\ \A k \in DOMAIN trials : Eligible(trials[k]) =>
         LET b == leaderboard.top[1] IN
         /\ leaderboard.top # <<>>
         /\ ~Better(trials[k].metric, trials[b].metric)
         /\ trials[k].metric = trials[b].metric => b <= k

(* A trial of the log improves on all before it, by the log alone. *)
Improvement(k) ==
  /\ Eligible(trials[k])
  /\ \A l \in 1..(k - 1) : Eligible(trials[l]) => Better(trials[k].metric, trials[l].metric)

(* A sweep that no crash interrupts records no more eligible trials in a    *)
(* row that do not improve than the policy says (param_sweep_v1.md 40:      *)
(* "stop after N consecutive non-improving eligible trials"), nor than the  *)
(* sweep itself asks for, whatever of its points raise and have it begin    *)
(* again without a memory (666-696).  Two things the code does otherwise    *)
(* are in README, section 6: it also counts trials that are not eligible,   *)
(* and so may stop earlier than that; and a sweep that asks for 0 turns the *)
(* policy's stop off, where the comment at 339 allows "only a stricter      *)
(* (smaller) knob".                                                         *)
StopsWhenBarren ==
  crashes = 0 /\ knobs.user # 0 =>
    \A n \in {knobs.stop, knobs.user}, k \in DOMAIN trials :
      LET since == {l \in 1..k : Eligible(trials[l]) /\ \A i \in l..k : ~Improvement(i)}
      IN n > 0 => Cardinality(since) <= n

(* A leaderboard is final, with the log it ranks; the log only grows        *)
(* (317-318).                                                               *)
LeaderboardIsFinal ==
  [][/\ IsPrefix(trials, trials')
     /\ leaderboard.there => leaderboard' = leaderboard /\ trials' = trials]_vars

(* The sweep comes to an end unless a point cannot be run on one of its     *)
(* segments: then every pass of the worker dies there (513).                *)
SweepEnds == (\A i \in DOMAIN Combos : outcome[Combos[i]].run # "raises") => <>(job # "due")
=============================================================================
