-------------------------- MODULE BlueprintWorkflow --------------------------
(***************************************************************************)
(* Blueprint jobs: submitted with a finished blueprint, compiled, run,     *)
(* judged and registered (orchestrator/workflow.py, the second half of     *)
(* advance_job_once), next to an operator who approves them and uses the   *)
(* command line tools on the same artifacts.                               *)
(*                                                                         *)
(* Jobs with the same run spec share its run id and all evidence of it.    *)
(***************************************************************************)
EXTENDS Evidence

CONSTANTS
  Workers,       \* processes running advance_all_once
  Shells,        \* command lines
  Commands,      \* what is typed there
  Jobs,
  RunOf,         \* the run id each job compiles to
  SweepJobs,     \* jobs with a sweep_spec
  Rank,          \* order of the job ids, in which a pass visits them
  Approvals,     \* the steps of each job the operator approves, AnyStep for none
  MaxEvents      \* processes killed and command lines typed

ASSUME ActorsAssumption == Actors = Workers \cup Shells /\ Workers \cap Shells = {}
ASSUME ApprovalsAssumption ==
  Approvals \in [Jobs -> SUBSET {"blueprint", "runspec", "sweep", "any"}]
ASSUME CommandsAssumption ==
  Commands \subseteq {"run", "gates", "record-trial", "create-card", "promote-card"}
ASSUME JobsAssumption == RunOf \in [Jobs -> Runs] /\ SweepJobs \subseteq Jobs
ASSUME RankAssumption == Rank \in [Jobs -> Nat]

Stages == <<"RUNSPEC_COMPILED", "RUN_COMPLETED", "GATES_COMPLETED", "REGISTRY_UPDATED">>
Stage == {Stages[i] : i \in DOMAIN Stages}
APPROVAL_STEPS == {"blueprint", "runspec", "sweep"}
AnyStep == "any"

VARIABLES
  events,    \* event types in each job's events.jsonl, approvals apart
  approved,  \* steps with an APPROVED event
  asked,     \* steps with a WAITING_APPROVAL event
  overall,   \* overall_pass in outputs.json and GATES_COMPLETED
  carded,    \* card_id in outputs.json is a card
  swept,     \* the sweep has left its evidence
  worker,    \* the job and the stage each worker is in
  crashes,   \* processes killed so far
  commands   \* command lines typed so far

log == <<events, approved, asked, overall, carded, swept>>
vars == <<store, merit, op, log, worker, crashes, commands>>

Free == [at |-> "idle"]
Work == [at : {"loop", "compile", "call", "record", "card", "index", "event", "ask", "sweep"},
         job : Jobs, stage : Stage, card : BOOLEAN]

TypeOK ==
  /\ StoreTypeOK
  /\ events \in [Jobs -> SUBSET (Stage \cup {"ERROR", "DONE"})]
  /\ approved \in [Jobs -> SUBSET (APPROVAL_STEPS \cup {AnyStep})]
  /\ asked \in [Jobs -> SUBSET APPROVAL_STEPS]
  /\ overall \in [Jobs -> {"none", "pass", "fail"}]
  /\ carded \in [Jobs -> BOOLEAN]
  /\ swept \subseteq Jobs
  /\ worker \in [Workers -> Work \cup {Free}]
  /\ crashes \in Nat
  /\ commands \in Nat

Init ==
  /\ StoreInit
  /\ events = [j \in Jobs |-> {}]
  /\ approved = [j \in Jobs |-> {}]
  /\ asked = [j \in Jobs |-> {}]
  /\ overall = [j \in Jobs |-> "none"]
  /\ carded = [j \in Jobs |-> FALSE]
  /\ swept = {}
  /\ worker = [w \in Workers |-> Free]
  /\ crashes = 0
  /\ commands = 0

-----------------------------------------------------------------------------
Ended(j) == events[j] \cap {"ERROR", "DONE"} # {}

(* Slip: a job that has asked goes on. *)
IsApprovedWhenAsked(j) == approved[j] # {} \/ asked[j] # {}

(* Any approval releases the blueprint and the run spec: the check for an   *)
(* APPROVED event without a step accepts one with any step.                 *)
IsApproved(j) == approved[j] # {}

(* The first stage that is not in the log. *)
Due(j, s) ==
  /\ ~Ended(j)
  /\ s \notin events[j]
  /\ \A i \in DOMAIN Stages : Stages[i] = s => \A k \in 1..(i - 1) : Stages[k] \in events[j]

CallOf(s, j) ==
  CASE s = "RUN_COMPLETED"    -> Call("exists", RunOf[j], TRUE, "none")
    [] s = "GATES_COMPLETED"  -> Call("judge", RunOf[j], TRUE, "none")
    [] s = "REGISTRY_UPDATED" -> Call("look", RunOf[j], TRUE, "none")

AskBlueprint(w, j) ==
  /\ worker[w] = Free
  /\ Due(j, "RUNSPEC_COMPILED")
  /\ ~IsApproved(j)
  /\ asked[j] = {}
  /\ asked' = [asked EXCEPT ![j] = {"blueprint"}]
  /\ UNCHANGED <<store, merit, op, events, approved, overall, carded, swept, worker,
                 crashes, commands>>

(* The worker takes up a job and stays with it until it is blocked or ends. *)
Looks(w, j) == worker[w] = Free \/ (worker[w].at = "loop" /\ worker[w].job = j)
Loop(j) == [at |-> "loop", job |-> j, stage |-> "RUNSPEC_COMPILED", card |-> FALSE]

(* The head of the loop: which stage is due, and may it be worked on? *)
Begin(w, j, s) ==
  /\ Looks(w, j)
  /\ Due(j, s)
  /\ IsApproved(j)
  /\ worker' = [worker EXCEPT ![w] =
       [at |-> IF s = "RUNSPEC_COMPILED" THEN "compile" ELSE "call",
        job |-> j, stage |-> s, card |-> FALSE]]
  /\ op' = IF s = "RUNSPEC_COMPILED" THEN op ELSE [op EXCEPT ![w] = CallOf(s, j)]
  /\ UNCHANGED <<store, merit, log, crashes, commands>>

Compile(w) ==
  /\ worker[w].at = "compile"
  /\ worker' = [worker EXCEPT ![w].at = "index"]
  /\ UNCHANGED <<store, merit, op, log, crashes, commands>>

Fail(w) ==
  /\ events' = [events EXCEPT ![worker[w].job] = @ \cup {"ERROR"}]
  /\ worker' = [worker EXCEPT ![w] = Free]

CompileFails(w) ==
  /\ worker[w].at = "compile"
  /\ Fail(w)
  /\ UNCHANGED <<store, merit, op, approved, asked, overall, carded, swept,
                 crashes, commands>>

-----------------------------------------------------------------------------
(* The runner, gate runner and registry return                              *)

Returned(w) == worker[w].at \in {"call", "card"} /\ At(w, "reply")

(* Slip: whatever a stage returns is taken for its result. *)
AcceptsAnything(w) == op[w].reply \in {"ok", "noop", "pass", "fail", "invalid", "refused"}

Accepts(w) ==
  \/ worker[w].stage = "RUN_COMPLETED" /\ op[w].reply = "ok"
  \/ worker[w].stage = "GATES_COMPLETED" /\ op[w].reply \in {"pass", "fail", "noop"}
  \/ worker[w].stage = "REGISTRY_UPDATED" /\ op[w].reply = "fail"
  \/ worker[w].at = "card" /\ op[w].reply \in {"ok", "refused"}

(* The reply of a gate run that found results has no verdict in it. *)
Accept(w) ==
  LET j == worker[w].job IN
  /\ Returned(w)
  /\ Accepts(w)
  /\ worker' = [worker EXCEPT ![w] = [@ EXCEPT !.at = "index",
       !.card = worker[w].at = "card" /\ op[w].reply = "ok"]]
  /\ overall' = IF worker[w].stage = "GATES_COMPLETED"
                THEN [overall EXCEPT ![j] = IF op[w].reply = "pass" THEN "pass" ELSE "fail"]
                ELSE overall
  /\ op' = [op EXCEPT ![w] = Idle]
  /\ UNCHANGED <<store, merit, events, approved, asked, carded, swept, crashes, commands>>

(* A trial that passed gets its card. *)
CreateCard(w) ==
  /\ Returned(w)
  /\ worker[w].stage = "REGISTRY_UPDATED" /\ worker[w].at = "call"
  /\ op[w].reply = "pass"
  /\ worker' = [worker EXCEPT ![w].at = "card"]
  /\ op' = [op EXCEPT ![w] = Call("trial", RunOf[worker[w].job], TRUE, "none")]
  /\ UNCHANGED <<store, merit, log, crashes, commands>>

(* ERROR: an invalid run, invalid gates, a trial that cannot be recorded.   *)
Refuse(w) ==
  /\ Returned(w) /\ worker[w].at = "call"
  /\ \/ op[w].reply = "invalid"
     \/ worker[w].stage = "REGISTRY_UPDATED" /\ op[w].reply = "refused"
  /\ Fail(w)
  /\ op' = [op EXCEPT ![w] = Idle]
  /\ UNCHANGED <<store, merit, approved, asked, overall, carded, swept, crashes, commands>>

(* Other exceptions are nobody's: they end the pass and the process, which  *)
(* is started again.                                                        *)
Raise(w) ==
  /\ Returned(w)
  /\ op[w].reply = "raised"
  /\ worker' = [worker EXCEPT ![w] = Free]
  /\ op' = [op EXCEPT ![w] = Idle]
  /\ UNCHANGED <<store, merit, log, crashes, commands>>

-----------------------------------------------------------------------------
WriteIndex(w) ==
  /\ worker[w].at = "index"
  /\ carded' = IF worker[w].stage = "REGISTRY_UPDATED"
               THEN [carded EXCEPT ![worker[w].job] = worker[w].card] ELSE carded
  /\ worker' = [worker EXCEPT ![w].at = "event"]
  /\ UNCHANGED <<store, merit, op, events, approved, asked, overall, swept, crashes, commands>>

AppendEvent(w) ==
  /\ worker[w].at = "event"
  /\ events' = [events EXCEPT ![worker[w].job] = @ \cup {worker[w].stage}]
  /\ worker' = [worker EXCEPT ![w] =
       IF worker[w].stage = "RUNSPEC_COMPILED" THEN [@ EXCEPT !.at = "ask"]
       ELSE Loop(worker[w].job)]
  /\ UNCHANGED <<store, merit, op, approved, asked, overall, carded, swept, crashes, commands>>

AskRunspec(w) ==
  /\ worker[w].at = "ask"
  /\ asked' = [asked EXCEPT ![worker[w].job] = @ \cup {"runspec"}]
  /\ worker' = [worker EXCEPT ![w] = Loop(worker[w].job)]
  /\ UNCHANGED <<store, merit, op, events, approved, overall, carded, swept, crashes, commands>>

(* After the registry: the sweep, once approved, and the end. *)
Registered(j) == ~Ended(j) /\ \A s \in Stage : s \in events[j]

AskSweep(w, j) ==
  /\ Looks(w, j)
  /\ Registered(j)
  /\ j \in SweepJobs \ swept
  /\ "sweep" \notin approved[j]
  /\ asked' = [asked EXCEPT ![j] = @ \cup {"sweep"}]
  /\ worker' = [worker EXCEPT ![w] = Free]
  /\ UNCHANGED <<store, merit, op, events, approved, overall, carded, swept,
                 crashes, commands>>

BeginSweep(w, j) ==
  /\ Looks(w, j)
  /\ Registered(j)
  /\ j \in SweepJobs \ swept
  /\ "sweep" \in approved[j]
  /\ worker' = [worker EXCEPT ![w] = [Loop(j) EXCEPT !.at = "sweep"]]
  /\ UNCHANGED <<store, merit, op, log, crashes, commands>>

(* run_param_sweep_for_job leaves its leaderboard, or is INVALID ... *)
Sweep(w) ==
  LET j == worker[w].job IN
  /\ worker[w].at = "sweep"
  /\ \/ /\ swept' = swept \cup {j}
        /\ worker' = [worker EXCEPT ![w] = Loop(j)]
        /\ UNCHANGED events
     \/ /\ Fail(w)
        /\ UNCHANGED swept
  /\ UNCHANGED <<store, merit, op, approved, asked, overall, carded, crashes, commands>>

(* ... or raises, which ends the pass and the process. *)
SweepRaises(w) ==
  /\ worker[w].at = "sweep"
  /\ worker' = [worker EXCEPT ![w] = Free]
  /\ UNCHANGED <<store, merit, op, log, crashes, commands>>

Finish(w, j) ==
  /\ Looks(w, j)
  /\ Registered(j)
  /\ j \in SweepJobs => j \in swept
  /\ events' = [events EXCEPT ![j] = @ \cup {"DONE"}]
  /\ worker' = [worker EXCEPT ![w] = Free]
  /\ UNCHANGED <<store, merit, op, approved, asked, overall, carded, swept,
                 crashes, commands>>

-----------------------------------------------------------------------------
(* The operator *)

approve(j, step) ==
  /\ step \notin approved[j]
  /\ step = AnyStep => approved[j] = {}
  /\ approved' = [approved EXCEPT ![j] = @ \cup {step}]
  /\ UNCHANGED <<store, merit, op, events, asked, overall, carded, swept, worker,
                 crashes, commands>>

ShellCall(cmd, r) ==
  CASE cmd = "run"         -> {Call("exists", r, TRUE, "none")}
    [] cmd = "gates"       -> {Call("judge", r, TRUE, "none")}
    [] cmd = "record-trial" -> {Call("look", r, TRUE, "none")}
    [] cmd = "create-card" -> {Call("trial", r, n, "none") : n \in BOOLEAN}
    [] cmd = "promote-card" -> {Call("status", r, FALSE, s) : s \in ALLOWED_STATUSES}

Type(s, cmd, r) ==
  /\ At(s, "idle") \/ At(s, "reply")
  /\ crashes + commands < MaxEvents
  /\ commands' = commands + 1
  /\ \E c \in ShellCall(cmd, r) : op' = [op EXCEPT ![s] = c]
  /\ UNCHANGED <<store, merit, log, worker, crashes>>

Kill(a) ==
  /\ crashes + commands < MaxEvents
  /\ crashes' = crashes + 1
  /\ \/ /\ a \in Workers /\ worker[a] # Free
        /\ worker' = [worker EXCEPT ![a] = Free]
     \/ /\ a \in Shells /\ op[a].at \notin {"idle", "reply"}
        /\ UNCHANGED worker
  /\ op' = [op EXCEPT ![a] = Idle]
  /\ UNCHANGED <<store, merit, log, commands>>

-----------------------------------------------------------------------------
Operate(a) == Operation(a) /\ UNCHANGED <<log, worker, crashes, commands>>

advance_job_once(w, j) ==
  \/ AskBlueprint(w, j)
  \/ \E s \in Stage : Begin(w, j, s)
  \/ AskSweep(w, j) \/ BeginSweep(w, j) \/ Finish(w, j)

Continue(w) ==
  \/ Compile(w) \/ CompileFails(w)
  \/ Accept(w) \/ CreateCard(w) \/ Refuse(w) \/ Raise(w)
  \/ WriteIndex(w) \/ AppendEvent(w) \/ AskRunspec(w)
  \/ Sweep(w) \/ SweepRaises(w)

Next ==
  \/ \E w \in Workers : Continue(w) \/ \E j \in Jobs : advance_job_once(w, j)
  \/ \E a \in Actors : Operate(a) \/ Kill(a)
  \/ \E j \in Jobs : \E step \in Approvals[j] : approve(j, step)
  \/ \E s \in Shells : \E cmd \in Commands, r \in Runs : Type(s, cmd, r)

(* An exception ends the pass at job j: the jobs behind it are not visited, *)
(* and the worker that is started again begins with the first one.          *)
PassDies(w, j) == (Raise(w) \/ SweepRaises(w)) /\ worker[w].job = j
PassDiesBefore(w, j) == \E k \in Jobs : Rank[k] < Rank[j] /\ PassDies(w, k)

(* The worker is started again when it dies, and an operation that has begun *)
(* goes on.  A pass visits every job, one after the other, so a job is taken *)
(* up again and again - unless again and again a pass dies before it.        *)
Fairness ==
  /\ \A w \in Workers : WF_vars(Continue(w)) /\ WF_vars(Operate(w))
  /\ \A w \in Workers, j \in Jobs :
       []<><<PassDiesBefore(w, j)>>_vars \/ SF_vars(advance_job_once(w, j))

Spec == Init /\ [][Next]_vars
FairSpec == Spec /\ Fairness

-----------------------------------------------------------------------------
(* Properties *)

(* dossier/writer.py 45: "Append-only dossier writer. Writes to a temp dir   *)
(* then atomically renames."  A dossier that can be seen is complete, with  *)
(* the hashes of all its artifacts - whatever a killed writer has left in   *)
(* the temporary directory (71-141).                                        *)
DossierWhole ==
  \A r \in Runs : dossier[r].there =>
    FileName \subseteq dossier[r].files /\ dossier[r].hashed = Hashed

(* Every entry the trial log ever gets for a run says what gate_results.json *)
(* says, however many recorders append at once; a card is only there for a  *)
(* run whose trial passed (triallog.py 70-111, cards.py 68-72).             *)
RegistryFaithful ==
  \A r \in Runs :
    /\ \A i \in DOMAIN trials[r] : trials[r][i] = results[r]
    /\ card[r] # "none" => results[r] = "pass"
    /\ cardlog[r] # <<>> => card[r] = "json"

(* What a job's log tells is there: each stage's event comes with the       *)
(* evidence of the shared run, and a job that is registered refers to a     *)
(* card exactly if its run passed (workflow.py 1211-1268).                  *)
LogHasEvidence ==
  \A j \in Jobs :
    LET r == RunOf[j] IN
    /\ "RUN_COMPLETED" \in events[j] => Whole(r)
    /\ "GATES_COMPLETED" \in events[j] => results[r] # "none"
    /\ "REGISTRY_UPDATED" \in events[j] =>
         /\ trials[r] # <<>>
         /\ carded[j] <=> results[r] = "pass"
         /\ carded[j] => card[r] = "json"

(* No evidence of a run before a job that compiles to it was approved and   *)
(* compiled (workflow.py 1184-1187, 1207-1208): the worker and the commands *)
(* that judge, record and make cards do not go ahead of the reviews of all  *)
(* jobs that could have asked for it.  The command "run" does, it asks      *)
(* nobody; Commands leaves it out where this is checked.  One approval of   *)
(* any step is enough, also for a job that has asked for the run spec: less *)
(* than orchestrator_v1.md 73-74 says (README, section 6).                  *)
NothingUnapproved ==
  \A r \in Runs :
    tmp[r].there \/ dossier[r].there =>
      \E j \in Jobs : RunOf[j] = r /\ approved[j] # {} /\ "RUNSPEC_COMPILED" \in events[j]

(* The exceptions for which no later pass is better off: a run or a sweep   *)
(* that cannot be carried out, and a card that a kill has left half made    *)
(* (catalog.py 33, param_sweep.py 513, cards.py 135).                       *)
DiesForGood(w, j) ==
  /\ PassDies(w, j)
  /\ \/ worker[w].at = "sweep"
     \/ merit[RunOf[j]] = "raises"
     \/ card[RunOf[j]] = "dir"


Record == INSTANCE RunRecord WITH
  published <- {r \in Runs : dossier[r].there /\ FileName \subseteq dossier[r].files
                               /\ dossier[r].hashed = Hashed},
  verdict <- results,
  recorded <- [r \in Runs |-> IF trials[r] = <<>> THEN "none" ELSE Head(trials[r])],
  carded <- {r \in Runs : card[r] = "json"},
  status <- [r \in Runs |-> EffectiveStatus(r)]

(* With one writer of dossiers and one command line at a time the files     *)
(* implement RunRecord, over crashes and half-done operations.              *)
ImplementsRunRecord == Record!Spec
=============================================================================
