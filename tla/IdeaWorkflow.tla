---------------------------- MODULE IdeaWorkflow ----------------------------
(***************************************************************************)
(* One idea job of the orchestrator (orchestrator/workflow.py, the         *)
(* idea_spec_v1 branch of advance_job_once) together with the API handlers *)
(* that write to the same job directory (api/jobs_api.py).                 *)
(*                                                                         *)
(* The program keeps all of a job's state in files: events.jsonl           *)
(* (append-only), outputs/outputs.json (an index of paths), the evidence   *)
(* the stages leave behind, and the LLM usage report.  A worker daemon     *)
(* reads them at the head of its loop, decides which stage is next and     *)
(* makes a series of separate durable writes; it may be killed between any *)
(* two of them, and the API may append in between.                         *)
(*                                                                         *)
(* A stage is named by the event it appends (upper case), or, where the    *)
(* program keys it on an index entry or a file instead, by its agent (lower*)
(* case).                                                                  *)
(***************************************************************************)
EXTENDS Naturals, FiniteSets

CONSTANTS
  Workers,       \* processes running advance_all_once
  JobSpecs,      \* the job specs an instance considers
  BadOutput,     \* guarded agents whose answer may fail the output guard
  LlmCanStop,    \* may the job's LLM budget run out?
  MaxCrashes,    \* how many times a worker may be killed
  MaxRequests,   \* how many rejects and reruns a behaviour has
  ApiOps,        \* which of "reject", "rerun", "spawn" the operator uses
  FreeApproval   \* TRUE: approve any step at any time (what the endpoint
                 \* allows); FALSE: only steps the job has asked for (the UI)

(* The ladder of `if` blocks of advance_job_once, in the order of the code. *)
Position ==
  [BLUEPRINT_PROPOSED |-> 1, STRATEGY_SPEC_PROPOSED |-> 2, spec_qa |-> 3,
   RUNSPEC_COMPILED |-> 4, backtest |-> 5, demo |-> 6,
   TRACE_PREVIEW_COMPLETED |-> 7, RUN_COMPLETED |-> 8, GATES_COMPLETED |-> 9,
   REGISTRY_UPDATED |-> 10, diagnostics |-> 11, curator |-> 12,
   composer |-> 13, REPORT_COMPLETED |-> 14, sweep |-> 15,
   IMPROVEMENTS_PROPOSED |-> 16]

Stage == DOMAIN Position
Before(s) == {t \in Stage : Position[t] < Position[s]}

RoleAgents == {"diagnostics", "curator", "composer"}
IndexKeyed == {"spec_qa", "backtest", "demo"} \cup RoleAgents
EventStage == Stage \ (IndexKeyed \cup {"sweep"})

(* Agents whose result the orchestrator checks for a budget stop and for a *)
(* failed output guard; the others' results are recorded unseen.           *)
Guarded == {"BLUEPRINT_PROPOSED", "STRATEGY_SPEC_PROPOSED",
            "REPORT_COMPLETED", "IMPROVEMENTS_PROPOSED"}
Agents == Guarded \cup IndexKeyed

(* The review step a stage ends in: the job stops there until approved. *)
Checkpoint ==
  [s \in Stage |->
     CASE s = "BLUEPRINT_PROPOSED"      -> "blueprint"
       [] s = "STRATEGY_SPEC_PROPOSED"  -> "strategy_spec"
       [] s = "spec_qa"                 -> "spec_qa"
       [] s = "RUNSPEC_COMPILED"        -> "runspec"
       [] s = "TRACE_PREVIEW_COMPLETED" -> "trace_preview"
       [] s = "IMPROVEMENTS_PROPOSED"   -> "improvements"
       [] OTHER                         -> "none"]

(* Calls outside any `try`: what they raise leaves advance_job_once. *)
Unguarded == {"TRACE_PREVIEW_COMPLETED", "RUN_COMPLETED", "GATES_COMPLETED",
              "REGISTRY_UPDATED", "sweep"}

REJECTABLE_STEPS == {"blueprint", "strategy_spec", "spec_qa", "runspec",
                     "trace_preview", "improvements", "sweep"}
APPROVAL_STEPS == REJECTABLE_STEPS \cup {"llm_live_confirm", "agent_output_invalid"}

Evidence == {"none", "ok", "invalid", "stopped", "pass", "fail"}
Final == {"DONE", "ERROR"}
EventType == EventStage \cup Final \cup {"STOPPED_BUDGET", "SPAWNED"}

VARIABLES
  job,        \* job_spec.json: the options of this job, and which of the
              \* unguarded calls may raise for it, once or on every pass
  events,     \* event types in events.jsonl, approvals and waits apart
  approved,   \* steps with an APPROVED event
  waiting,    \* steps with a WAITING_APPROVAL event
  tail,       \* the end of events.jsonl, as far as the code looks at it
  index,      \* stages whose entries are in outputs.json
  evidence,   \* what each stage's work has left on disk
  overall,    \* overall_pass as the job's index and event record it
  card,       \* has an experience card been created for the run?
  budget,     \* what llm_usage_report.json says: "open" or "stopped"
  worker,     \* where each worker is
  api,        \* the API request being handled
  crashes,    \* workers killed so far
  requests    \* rejects and reruns so far

files == <<index, evidence, overall, card, budget>>
vars == <<job, events, approved, waiting, tail, files, worker, api, crashes, requests>>

JobSpec == [sweep : BOOLEAN, fetch : {"absent", "valid", "invalid"},
            live : BOOLEAN, lastGeneration : BOOLEAN,
            raises : SUBSET Unguarded]

Tail == [step : APPROVAL_STEPS \cup {"none"}, rerun : BOOLEAN]
NoWait == [step |-> "none", rerun |-> FALSE]
WaitingFor(c) == [step |-> c, rerun |-> FALSE]

WorkerState ==
  [at : {"down", "poll", "work", "result", "event", "wait", "close"},
   stage : Stage, invalid : {"unasked", "asked", "approved"},
   out : Evidence \cup {"noop"}]
Polling == [at |-> "poll", stage |-> "BLUEPRINT_PROPOSED",
            invalid |-> "unasked", out |-> "none"]
Down == [at |-> "down", stage |-> "BLUEPRINT_PROPOSED",
         invalid |-> "unasked", out |-> "none"]

Request == [op : {"none", "reject", "rerun"}, at : {"idle", "read", "write", "append"},
            step : APPROVAL_STEPS \cup {"none"}, seen : SUBSET Stage]
NoRequest == [op |-> "none", at |-> "idle", step |-> "none", seen |-> {}]

TypeOK ==
  /\ job \in JobSpecs
  /\ events \subseteq EventType
  /\ approved \subseteq APPROVAL_STEPS
  /\ waiting \subseteq APPROVAL_STEPS
  /\ tail \in Tail
  /\ index \subseteq Stage
  /\ evidence \in [Stage -> Evidence]
  /\ overall \in {"none", "pass", "fail"}
  /\ card \in BOOLEAN
  /\ budget \in {"open", "stopped"}
  /\ worker \in [Workers -> WorkerState]
  /\ api \in Request
  /\ crashes \in Nat
  /\ requests \in Nat

ASSUME JobSpecsAssumption == JobSpecs \subseteq JobSpec
ASSUME BadOutputAssumption == BadOutput \subseteq Guarded
ASSUME BoundsAssumption == /\ MaxCrashes \in Nat
                           /\ MaxRequests \in Nat
                           /\ LlmCanStop \in BOOLEAN
                           /\ FreeApproval \in BOOLEAN

Init ==
  /\ job \in JobSpecs
  /\ events = {}
  /\ approved = {}
  /\ waiting = {}
  /\ tail = NoWait
  /\ index = {}
  /\ evidence = [s \in Stage |-> "none"]
  /\ overall = "none"
  /\ card = FALSE
  /\ budget = "open"
  /\ worker = [w \in Workers |-> Polling]
  /\ api = NoRequest
  /\ crashes = 0
  /\ requests = 0

-----------------------------------------------------------------------------
(* Reading the job's state *)

Open == events \cap Final = {}

(* Slip: a stage counts as done once its index entry is there. *)
CompletedByIndex(s) ==
  IF s = "sweep" THEN job.sweep => evidence[s] # "none" ELSE s \in index

Completed(s) ==
  CASE s \in EventStage -> s \in events
    [] s = "spec_qa"    -> s \in index /\ evidence[s] \in {"ok", "invalid"}
    [] s \in {"backtest", "demo"}
                        -> s \in index \/ "TRACE_PREVIEW_COMPLETED" \in events
    [] s \in RoleAgents -> s \in index
    [] s = "sweep"      -> job.sweep => evidence[s] # "none"

LiveConfirmed == job.live => "llm_live_confirm" \in approved
(* Slip: the request for an approval is taken for the approval. *)
PassedWhenAsked(s) == Checkpoint[s] = "none" \/ Checkpoint[s] \in waiting

Passed(s) == Checkpoint[s] = "none" \/ Checkpoint[s] \in approved

(* Slip: only the reviews of the earlier stages are looked at. *)
DueWhenReviewed(s) ==
  LiveConfirmed /\ ~Completed(s) /\ \A t \in Before(s) : Passed(t)

(* The first block of the ladder whose condition holds. *)
Due(s) ==
  /\ LiveConfirmed
  /\ ~Completed(s)
  /\ \A t \in Before(s) : Completed(t) /\ Passed(t)

(* The index entries a stage's inputs are read from are there. *)
HasInputs(s) ==
  CASE s = "STRATEGY_SPEC_PROPOSED" -> "BLUEPRINT_PROPOSED" \in index
    [] s \in {"spec_qa", "RUNSPEC_COMPILED", "TRACE_PREVIEW_COMPLETED"}
                                   -> "STRATEGY_SPEC_PROPOSED" \in index
    [] s \in {"GATES_COMPLETED", "REGISTRY_UPDATED", "REPORT_COMPLETED"}
                                   -> "RUN_COMPLETED" \in index
    [] s = "IMPROVEMENTS_PROPOSED" ->
         index \cap {"BLUEPRINT_PROPOSED", "STRATEGY_SPEC_PROPOSED"} # {}
    [] OTHER                       -> TRUE

(* Those that are gone and that no error path of the stage is there for. *)
InputsLost(s) ==
  /\ ~HasInputs(s)
  /\ s \notin {"STRATEGY_SPEC_PROPOSED", "REGISTRY_UPDATED", "REPORT_COMPLETED"}

(* A gate run that finds results returns before anything can raise. *)
MayRaise(s) ==
  s \in job.raises /\ (s = "GATES_COMPLETED" => evidence[s] = "none")

(* Slip: a job that has ended is advanced all the same. *)
ReadyAnyway(w) == worker[w].at = "poll" /\ budget = "open"

Ready(w) ==
  /\ worker[w].at = "poll"
  /\ Open
  /\ budget = "open"

-----------------------------------------------------------------------------
(* Writing it *)

append_event(e) ==
  /\ events' = events \cup {e}
  /\ tail' = NoWait
  /\ UNCHANGED waiting

AppendWaiting(c) ==
  /\ waiting' = waiting \cup {c}
  /\ tail' = WaitingFor(c)
  /\ UNCHANGED events

AppendNothing == UNCHANGED <<events, waiting, tail>>

Goto(w, place) == worker' = [worker EXCEPT ![w].at = place]
Yield(w) == worker' = [worker EXCEPT ![w] = Polling]
WorkOn(w, s) ==
  worker' = [worker EXCEPT ![w] =
    [at |-> "work", stage |-> s, invalid |-> @.invalid, out |-> "none"]]
Produce(w, result) ==
  worker' = [worker EXCEPT ![w] =
    [at |-> "result", stage |-> @.stage, invalid |-> @.invalid, out |-> result]]

At(w, place, stages) == worker[w].at = place /\ worker[w].stage \in stages

OperatorIdle == UNCHANGED <<job, approved, api, crashes, requests>>

-----------------------------------------------------------------------------
(* The head of the loop *)

(* The usage report says the budget is spent: STOPPED_BUDGET, then DONE.  *)
(* With a STOPPED_BUDGET event already in the log the code returns instead. *)
StopOnBudget(w) ==
  /\ worker[w].at = "poll"
  /\ Open
  /\ budget = "stopped"
  /\ "STOPPED_BUDGET" \notin events
  /\ append_event("STOPPED_BUDGET")
  /\ Goto(w, "close")
  /\ OperatorIdle /\ UNCHANGED files

AskLiveConfirm(w) ==
  /\ Ready(w)
  /\ ~LiveConfirmed
  /\ tail # WaitingFor("llm_live_confirm")
  /\ AppendWaiting("llm_live_confirm")
  /\ OperatorIdle /\ UNCHANGED <<files, worker>>

(* Enter the block of stage s, with the events as they are now. *)
Begin(w, s) ==
  /\ Ready(w)
  /\ Due(s)
  /\ s = "sweep" => "sweep" \in approved
  /\ worker' = [worker EXCEPT ![w] =
       [at |-> "work", stage |-> s, out |-> "none",
        invalid |-> IF "agent_output_invalid" \in approved THEN "approved"
                    ELSE IF tail = WaitingFor("agent_output_invalid")
                    THEN "asked" ELSE "unasked"]]
  /\ AppendNothing /\ OperatorIdle /\ UNCHANGED files

(* Appended again on every pass while the sweep is not approved. *)
AskSweep(w) ==
  /\ Ready(w)
  /\ Due("sweep")
  /\ "sweep" \notin approved
  /\ AppendWaiting("sweep")
  /\ OperatorIdle /\ UNCHANGED <<files, worker>>

(* Slip: the last review is forgotten. *)
FinishUnreviewed(w) ==
  /\ Ready(w)
  /\ \A s \in Stage : Completed(s)
  /\ append_event("DONE")
  /\ OperatorIdle /\ UNCHANGED <<files, worker>>

Finish(w) ==
  /\ Ready(w)
  /\ LiveConfirmed
  /\ \A s \in Stage : Completed(s) /\ Passed(s)
  /\ append_event("DONE")
  /\ OperatorIdle /\ UNCHANGED <<files, worker>>

-----------------------------------------------------------------------------
(* The work of a stage *)

(* agents/harness.py run_agent: an agent_run.json already there is returned *)
(* as it is; otherwise the call is blocked by the budget, or made, and may  *)
(* then use the budget up.                                                  *)
CallAgent(w, s) ==
  /\ At(w, "work", {s})
  /\ s \in Agents
  /\ HasInputs(s)
  /\ s \in {"backtest", "demo"} => job.fetch # "invalid"
  /\ s = "IMPROVEMENTS_PROPOSED" => ~job.lastGeneration
  /\ \/ /\ evidence[s] # "none"
        /\ Produce(w, evidence[s])
        /\ UNCHANGED <<evidence, budget>>
     \/ /\ evidence[s] = "none"
        /\ LlmCanStop
        /\ budget' = "stopped"
        /\ evidence' = [evidence EXCEPT ![s] = "stopped"]
        /\ Produce(w, "stopped")
     \/ /\ evidence[s] = "none"
        /\ budget' \in {budget} \cup (IF LlmCanStop THEN {"stopped"} ELSE {})
        /\ \E answer \in {"ok"} \cup (IF s \in BadOutput THEN {"invalid"} ELSE {}) :
             /\ evidence' = [evidence EXCEPT ![s] = answer]
             /\ Produce(w, answer)
  /\ AppendNothing /\ OperatorIdle /\ UNCHANGED <<index, overall, card>>

(* run_agent raises: ERROR, then DONE.  A report whose dossier path is lost *)
(* looks for its input, and for an earlier answer, in another directory.    *)
AgentFails(w, s) ==
  /\ At(w, "work", {s})
  /\ s \in Agents
  /\ s \in {"backtest", "demo"} => job.fetch # "invalid"
  /\ s = "IMPROVEMENTS_PROPOSED" => ~job.lastGeneration
  /\ IF HasInputs(s) THEN evidence[s] = "none" ELSE s = "REPORT_COMPLETED"
  /\ append_event("ERROR")
  /\ Goto(w, "close")
  /\ OperatorIdle /\ UNCHANGED files


(* The block was entered with an index that has lost its draft path. *)
MissingDraft(w) ==
  /\ At(w, "work", {"STRATEGY_SPEC_PROPOSED"})
  /\ ~HasInputs("STRATEGY_SPEC_PROPOSED")
  /\ append_event("ERROR")
  /\ Yield(w)
  /\ OperatorIdle /\ UNCHANGED files

StopOnBlockedAgent(w) ==
  /\ At(w, "result", Guarded)
  /\ worker[w].out = "stopped"
  /\ append_event("STOPPED_BUDGET")
  /\ Goto(w, "close")
  /\ OperatorIdle /\ UNCHANGED files

(* The output guard failed and the operator has not accepted that. *)
AskInvalidOutput(w) ==
  /\ At(w, "result", Guarded)
  /\ worker[w].out = "invalid"
  /\ worker[w].invalid # "approved"
  /\ IF worker[w].invalid = "unasked" THEN AppendWaiting("agent_output_invalid")
                                      ELSE AppendNothing
  /\ Yield(w)
  /\ OperatorIdle /\ UNCHANGED files

(* _stop_on_invalid_fetch_request: ERROR, then DONE. *)
StopOnInvalidFetch(w) ==
  /\ At(w, "work", {"backtest", "demo", "TRACE_PREVIEW_COMPLETED"})
  /\ job.fetch = "invalid"
  /\ append_event("ERROR")
  /\ Goto(w, "close")
  /\ OperatorIdle /\ UNCHANGED files

(* No further generation may be spawned from this job: do not propose any. *)
StopOnIterations(w) ==
  /\ At(w, "work", {"IMPROVEMENTS_PROPOSED"})
  /\ job.lastGeneration
  /\ append_event("STOPPED_BUDGET")
  /\ Goto(w, "close")
  /\ OperatorIdle /\ UNCHANGED files

(* Compiler, trace preview and runner: the stage's files are written. *)
Execute(w, s) ==
  /\ At(w, "work", {s})
  /\ s \in {"RUNSPEC_COMPILED", "TRACE_PREVIEW_COMPLETED", "RUN_COMPLETED"}
  /\ HasInputs(s)
  /\ s = "TRACE_PREVIEW_COMPLETED" => job.fetch # "invalid"
  /\ evidence' = [evidence EXCEPT ![s] = "ok"]
  /\ Produce(w, "ok")
  /\ AppendNothing /\ OperatorIdle /\ UNCHANGED <<index, overall, card, budget>>

(* Compiler, runner, registry, sweep or the budget policy returns an error. *)
ExecutionFails(w) ==
  /\ At(w, "work", {"RUNSPEC_COMPILED", "RUN_COMPLETED", "REGISTRY_UPDATED",
                    "sweep", "IMPROVEMENTS_PROPOSED"})
  /\ worker[w].stage = "RUNSPEC_COMPILED" => HasInputs("RUNSPEC_COMPILED")
  /\ append_event("ERROR")
  /\ Yield(w)
  /\ OperatorIdle /\ UNCHANGED files

(* Slip: the gates run again over a result that is there. *)
RunGatesAgain(w) ==
  /\ At(w, "work", {"GATES_COMPLETED"})
  /\ \E verdict \in {"pass", "fail"} :
       /\ evidence' = [evidence EXCEPT !["GATES_COMPLETED"] = verdict]
       /\ Produce(w, verdict)
  /\ AppendNothing /\ OperatorIdle /\ UNCHANGED <<index, overall, card, budget>>


(* gaterunner run_once.  The verdict is written to gate_results.json; when  *)
(* that file is there already the reply is a noop that carries no verdict.  *)
RunGates(w) ==
  /\ At(w, "work", {"GATES_COMPLETED"})
  /\ HasInputs("GATES_COMPLETED")
  /\ \/ /\ evidence["GATES_COMPLETED"] # "none"
        /\ Produce(w, "noop")
        /\ UNCHANGED evidence
     \/ /\ evidence["GATES_COMPLETED"] = "none"
        /\ \E verdict \in {"pass", "fail", "invalid"} :
             /\ evidence' = [evidence EXCEPT !["GATES_COMPLETED"] =
                               IF verdict = "pass" THEN "pass" ELSE "fail"]
             /\ Produce(w, verdict)
  /\ AppendNothing /\ OperatorIdle /\ UNCHANGED <<index, overall, card, budget>>

GatesInvalid(w) ==
  /\ At(w, "result", {"GATES_COMPLETED"})
  /\ worker[w].out = "invalid"
  /\ append_event("ERROR")
  /\ Yield(w)
  /\ OperatorIdle /\ UNCHANGED files

(* Slip: a card for every run. *)
CardForEveryRun(w) ==
  /\ At(w, "work", {"REGISTRY_UPDATED"})
  /\ evidence' = [evidence EXCEPT !["REGISTRY_UPDATED"] = "ok"]
  /\ card' = TRUE
  /\ Produce(w, "ok")
  /\ AppendNothing /\ OperatorIdle /\ UNCHANGED <<index, overall, budget>>

(* record_trial and create_card_from_run read the verdict from the evidence. *)
UpdateRegistry(w) ==
  /\ At(w, "work", {"REGISTRY_UPDATED"})
  /\ HasInputs("REGISTRY_UPDATED")
  /\ evidence' = [evidence EXCEPT !["REGISTRY_UPDATED"] = "ok"]
  /\ card' = (card \/ evidence["GATES_COMPLETED"] = "pass")
  /\ Produce(w, "ok")
  /\ AppendNothing /\ OperatorIdle /\ UNCHANGED <<index, overall, budget>>

(* run_param_sweep_for_job writes its leaderboard, and STOPPED_BUDGET into  *)
(* the job's log when the trial budget ended it; the code then falls        *)
(* through to the improvements.                                             *)
Sweep(w) ==
  /\ At(w, "work", {"sweep"})
  /\ evidence' = [evidence EXCEPT !["sweep"] = "ok"]
  /\ append_event("STOPPED_BUDGET") \/ AppendNothing
  /\ WorkOn(w, "IMPROVEMENTS_PROPOSED")
  /\ OperatorIdle /\ UNCHANGED <<index, overall, card, budget>>

-----------------------------------------------------------------------------
(* Recording what a stage did: the index, its event, the review step *)

Accepted(w, s) ==
  /\ s \in Guarded => worker[w].out # "stopped"
  /\ s \in Guarded /\ worker[w].out = "invalid" => worker[w].invalid = "approved"
  /\ s = "GATES_COMPLETED" => worker[w].out # "invalid"

(* write_outputs_index.  Backtest and demo agents are followed by the next  *)
(* part of the same block; the QA report by its review step.                *)
RecordResult(w, s) ==
  /\ At(w, "result", {s})
  /\ Accepted(w, s)
  /\ index' = index \cup {s}
  /\ overall' = IF s = "GATES_COMPLETED"
                THEN IF worker[w].out = "pass" THEN "pass" ELSE "fail"
                ELSE overall
  /\ CASE s = "backtest" -> WorkOn(w, IF "demo" \in index
                                      THEN "TRACE_PREVIEW_COMPLETED" ELSE "demo")
       [] s = "demo"     -> WorkOn(w, "TRACE_PREVIEW_COMPLETED")
       [] s = "spec_qa"  -> Goto(w, "wait")
       [] OTHER          -> Goto(w, "event")
  /\ AppendNothing /\ OperatorIdle /\ UNCHANGED <<evidence, card, budget>>

(* Slip: every stage asks for a review. *)
AppendEventAndWait(w, s) ==
  /\ At(w, "event", {s})
  /\ append_event(s)
  /\ Goto(w, "wait")
  /\ OperatorIdle /\ UNCHANGED files

AppendEvent(w, s) ==
  /\ At(w, "event", {s})
  /\ append_event(IF s \in RoleAgents THEN "REGISTRY_UPDATED" ELSE s)
  /\ IF Checkpoint[s] = "none" THEN Yield(w) ELSE Goto(w, "wait")
  /\ OperatorIdle /\ UNCHANGED files

AskApproval(w, s) ==
  /\ At(w, "wait", {s})
  /\ AppendWaiting(Checkpoint[s])
  /\ Yield(w)
  /\ OperatorIdle /\ UNCHANGED files

Close(w) ==
  /\ worker[w].at = "close"
  /\ append_event("DONE")
  /\ Yield(w)
  /\ OperatorIdle /\ UNCHANGED files

(* The inputs cannot be read, or the call raises - a missing snapshot, a    *)
(* segment that cannot be run, a card left half made: the exception leaves  *)
(* advance_all_once, and with it the daemon.                                *)
Raise(w, s) ==
  /\ At(w, "work", {s})
  /\ MayRaise(s) \/ InputsLost(s)
  /\ s = "TRACE_PREVIEW_COMPLETED" => job.fetch # "invalid"
  /\ s = "IMPROVEMENTS_PROPOSED" => ~job.lastGeneration
  /\ worker' = [worker EXCEPT ![w] = Down]
  /\ AppendNothing /\ OperatorIdle /\ UNCHANGED files

Crash(w) ==
  /\ worker[w].at # "down"
  /\ crashes < MaxCrashes
  /\ crashes' = crashes + 1
  /\ worker' = [worker EXCEPT ![w] = Down]
  /\ AppendNothing /\ UNCHANGED <<job, approved, api, requests, files>>

Restart(w) ==
  /\ worker[w].at = "down"
  /\ Yield(w)
  /\ AppendNothing /\ OperatorIdle /\ UNCHANGED files

-----------------------------------------------------------------------------
(* The API and the UI, one request at a time *)

approve(c) ==
  /\ FreeApproval \/ c \in waiting
  /\ c \notin approved
  /\ approved' = approved \cup {c}
  /\ tail' = NoWait
  /\ UNCHANGED <<job, events, waiting, files, worker, api, crashes, requests>>

(* reject reads the log, then records the rejection (which rewrites the     *)
(* index), then appends the step again as WAITING_APPROVAL.                 *)
reject ==
  /\ "reject" \in ApiOps
  /\ api.at = "idle"
  /\ requests < MaxRequests
  /\ requests' = requests + 1
  /\ tail.step \in REJECTABLE_STEPS
  /\ api' = [op |-> "reject", at |-> "read", step |-> tail.step, seen |-> {}]
  /\ AppendNothing /\ UNCHANGED <<job, approved, files, worker, crashes>>

(* rerun calls the agent in a directory of its own; only the budget is      *)
(* shared with the job.                                                     *)
rerun(s) ==
  /\ "rerun" \in ApiOps
  /\ api.at = "idle"
  /\ requests < MaxRequests
  /\ requests' = requests + 1
  /\ CASE s = "BLUEPRINT_PROPOSED" -> TRUE
       [] s = "REPORT_COMPLETED"   -> "RUN_COMPLETED" \in index
       [] OTHER                    -> evidence[s] # "none"
  /\ budget' \in {budget} \cup (IF LlmCanStop THEN {"stopped"} ELSE {})
  /\ api' = [op |-> "rerun", at |-> "read", step |-> "none", seen |-> {}]
  /\ AppendNothing
  /\ UNCHANGED <<job, approved, index, evidence, overall, card, worker, crashes>>

(* write_outputs_index called from a handler: it reads outputs.json ...     *)
ApiReadIndex ==
  /\ api.at = "read"
  /\ api' = [api EXCEPT !.at = "write", !.seen = index]
  /\ AppendNothing /\ UNCHANGED <<job, approved, files, worker, crashes, requests>>

(* ... and replaces it by what it read and its own entries.                 *)
ApiWriteIndex ==
  /\ api.at = "write"
  /\ index' = api.seen
  /\ api' = [api EXCEPT !.at = "append", !.seen = {}]
  /\ AppendNothing
  /\ UNCHANGED <<job, approved, evidence, overall, card, budget, worker, crashes, requests>>

ApiAppend ==
  /\ api.at = "append"
  /\ IF api.op = "reject"
     THEN AppendWaiting(api.step)
     ELSE /\ events' = events \cup {"SPAWNED"}
          /\ tail' = [tail EXCEPT !.rerun = TRUE]
          /\ UNCHANGED waiting
  /\ api' = NoRequest
  /\ UNCHANGED <<job, approved, files, worker, crashes, requests>>

(* spawn, spawn_best: a child job from a proposal or from the sweep, or the *)
(* note that the spawn budget forbids it.                                   *)
spawn ==
  /\ "spawn" \in ApiOps
  /\ "IMPROVEMENTS_PROPOSED" \in index \/ evidence["sweep"] = "ok"
  /\ \E e \in {"SPAWNED", "STOPPED_BUDGET"} : append_event(e)
  /\ UNCHANGED <<job, approved, files, worker, api, crashes, requests>>

-----------------------------------------------------------------------------
advance_job_once(w) ==
  \/ StopOnBudget(w) \/ AskLiveConfirm(w) \/ AskSweep(w) \/ Finish(w)
  \/ \E s \in Stage : Begin(w, s)
  \/ \E s \in Agents : CallAgent(w, s) \/ AgentFails(w, s)
  \/ MissingDraft(w) \/ StopOnBlockedAgent(w) \/ AskInvalidOutput(w)
  \/ StopOnInvalidFetch(w) \/ StopOnIterations(w)
  \/ \E s \in Stage : Execute(w, s)
  \/ ExecutionFails(w) \/ RunGates(w) \/ GatesInvalid(w)
  \/ UpdateRegistry(w) \/ Sweep(w)
  \/ \E s \in Stage : RecordResult(w, s) \/ AppendEvent(w, s) \/ AskApproval(w, s)
  \/ Close(w)
  \/ \E s \in Stage : Raise(w, s)

Operator ==
  \/ \E c \in APPROVAL_STEPS : approve(c)
  \/ reject
  \/ \E s \in Agents \ RoleAgents : rerun(s)
  \/ ApiReadIndex \/ ApiWriteIndex \/ ApiAppend
  \/ spawn

Next ==
  \/ \E w \in Workers : advance_job_once(w) \/ Crash(w) \/ Restart(w)
  \/ Operator

Spec == Init /\ [][Next]_vars

(* The daemon polls every few seconds and is started again by its operator  *)
(* when it dies; a request that was accepted is carried through.  Nobody    *)
(* has to approve, reject, rerun or spawn anything.                         *)
Fairness ==
  /\ \A w \in Workers : WF_vars(advance_job_once(w)) /\ WF_vars(Restart(w))
  /\ WF_vars(ApiReadIndex \/ ApiWriteIndex \/ ApiAppend)

FairSpec == Spec /\ Fairness

-----------------------------------------------------------------------------
(* Properties *)

(* The approvals the documentation puts in front of stage s. *)
Needed(s) ==
  ({Checkpoint[t] : t \in Before(s)} \ {"none"})
    \cup (IF s = "sweep" THEN {"sweep"} ELSE {})
    \cup (IF job.live THEN {"llm_live_confirm"} ELSE {})

(* No stage leaves evidence on disk before every earlier review step has    *)
(* been approved - however approvals, crashes, repeated passes and lost     *)
(* index entries interleave.  (The checkpoint rule of orchestrator_v1.md;   *)
(* the ladder of advance_job_once.)                                         *)
CheckpointDiscipline ==
  \A s \in Stage : evidence[s] # "none" => Needed(s) \subseteq approved

(* The log tells the stages in order: an event implies those of all earlier *)
(* stages, and the evidence the event speaks of.                            *)
EventsInOrder ==
  \A s \in EventStage \cap events :
    /\ Before(s) \cap EventStage \subseteq events
    /\ evidence[s] # "none"

(* A log that ends in DONE and shows neither an error nor a budget stop is  *)
(* a completed workflow: every stage done, every step reviewed.             *)
CleanFinish ==
  "DONE" \in events /\ events \cap {"ERROR", "STOPPED_BUDGET"} = {} =>
    /\ EventStage \subseteq events
    /\ job.sweep => evidence["sweep"] # "none"
    /\ \A s \in EventStage : Needed(s) \subseteq approved /\ Passed(s)

(* An experience card exists only for a run that was approved, executed and *)
(* passed its gates, whatever verdict the job's own records show.           *)
CardIsEarned ==
  card => /\ evidence["GATES_COMPLETED"] = "pass"
          /\ evidence["RUN_COMPLETED"] = "ok"
          /\ Needed("RUN_COMPLETED") \subseteq approved

(* Once DONE or ERROR is in the log no stage runs and no event of a stage   *)
(* is added; only the DONE that follows an ERROR and what the API appends.  *)
ClosedIsFinal ==
  [][~Open => /\ events' \ events \subseteq {"DONE", "SPAWNED", "STOPPED_BUDGET"}
              /\ UNCHANGED <<evidence, overall, card>>]_vars

(* Work that was done is never undone or redone with another result: the    *)
(* evidence of a stage, once written, keeps its value over crashes and      *)
(* repeated passes.                                                         *)
EvidenceIsAppendOnly ==
  [][\A s \in Stage : evidence[s] # "none" => evidence'[s] = evidence[s]]_vars

(* The job has come to a point where only the operator can move it on.      *)
AwaitsOperator ==
  \/ ~LiveConfirmed
  \/ \E s \in Stage : Completed(s) /\ ~Passed(s)
  \/ Due("sweep") /\ "sweep" \notin approved
  \/ \E s \in Guarded : /\ Due(s)
                         /\ evidence[s] = "invalid"
                         /\ "agent_output_invalid" \notin approved

(* The stage that is due ends the pass with an exception: its call raises,  *)
(* or an entry it reads was lost when the API rewrote the index.            *)
DueRaises == \E s \in Stage : Due(s) /\ (s \in job.raises \/ InputsLost(s))

(* STOPPED_BUDGET is in the log when the usage report says so: the head of  *)
(* the loop takes the job for closed, and nobody closes it.                 *)
StopLost == budget = "stopped" /\ "STOPPED_BUDGET" \in events


(* orchestrator_v1.md: PASS/FAIL comes from the gate runner and its         *)
(* evidence - so the verdict the workflow records is the verdict there.     *)
VerdictFaithful ==
  "GATES_COMPLETED" \in events => overall = evidence["GATES_COMPLETED"]

-----------------------------------------------------------------------------
(* One worker's job, crashes and all, is a checkpoint pipeline. *)
Pipeline == INSTANCE CheckpointPipeline WITH
  Stages    <- Stage,
  Steps     <- APPROVAL_STEPS,
  Pre       <- [s \in Stage |-> Before(s) \cap EventStage],
  Gate      <- [s \in Stage |->
                  ({Checkpoint[t] : t \in Before(s)} \ {"none"})
                    \cup (IF s = "sweep" THEN {"sweep"} ELSE {})],
  performed <- {s \in Stage : evidence[s] # "none"},
  announced <- events \cap EventStage,
  approved  <- approved,
  open      <- Open

ImplementsPipeline == Pipeline!Spec

=============================================================================
