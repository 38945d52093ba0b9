------------------------- MODULE IdeaWorkflowProofs -------------------------
(***************************************************************************)
(* Theorems about IdeaWorkflow, for every set of workers and job specs,    *)
(* and every number of crashes and requests.                               *)
(***************************************************************************)
EXTENDS IdeaWorkflow, TLAPS

-----------------------------------------------------------------------------
(* Facts about the ladder of stages *)

LEMMA StageSet ==
  Stage = {"BLUEPRINT_PROPOSED", "STRATEGY_SPEC_PROPOSED", "spec_qa",
           "RUNSPEC_COMPILED", "backtest", "demo", "TRACE_PREVIEW_COMPLETED",
           "RUN_COMPLETED", "GATES_COMPLETED", "REGISTRY_UPDATED",
           "diagnostics", "curator", "composer", "REPORT_COMPLETED", "sweep",
           "IMPROVEMENTS_PROPOSED"}
  BY DEF Stage, Position

LEMMA EventStageSet ==
  EventStage = {"BLUEPRINT_PROPOSED", "STRATEGY_SPEC_PROPOSED",
                "RUNSPEC_COMPILED", "TRACE_PREVIEW_COMPLETED", "RUN_COMPLETED",
                "GATES_COMPLETED", "REGISTRY_UPDATED", "REPORT_COMPLETED",
                "IMPROVEMENTS_PROPOSED"}
  BY StageSet DEF EventStage, IndexKeyed, RoleAgents

LEMMA CheckpointType ==
  \A s \in Stage : Checkpoint[s] \in APPROVAL_STEPS \cup {"none"}
  BY StageSet DEF Checkpoint, APPROVAL_STEPS, REJECTABLE_STEPS

(* The parts of a block follow each other immediately.                      *)
LEMMA BlockParts ==
  /\ Before("demo") = Before("backtest") \cup {"backtest"}
  /\ Before("TRACE_PREVIEW_COMPLETED") = Before("backtest") \cup {"backtest", "demo"}
  /\ Before("IMPROVEMENTS_PROPOSED") = Before("sweep") \cup {"sweep"}
  BY StageSet DEF Before, Position

(* Each entry of the ladder names the stages in front of it. *)
LEMMA BeforeStage == \A s \in Stage : Before(s) \subseteq Stage
  BY DEF Before

-----------------------------------------------------------------------------
(* Type correctness *)

LEMMA PollingType == Polling \in WorkerState /\ Down \in WorkerState
  BY StageSet DEF Polling, Down, WorkerState, Evidence

LEMMA TypeInit == Init => TypeOK
<1> SUFFICES ASSUME Init PROVE TypeOK
  OBVIOUS
<1>1. tail \in Tail
  BY DEF Init, NoWait, Tail
<1>2. api \in Request
  BY DEF Init, NoRequest, Request
<1>3. evidence \in [Stage -> Evidence]
  BY DEF Init, Evidence
<1>4. worker \in [Workers -> WorkerState]
  BY PollingType DEF Init
<1>5. /\ card \in BOOLEAN
      /\ overall \in {"none", "pass", "fail"}
      /\ budget \in {"open", "stopped"}
      /\ crashes \in Nat
      /\ requests \in Nat
  BY DEF Init
<1> QED
  BY <1>1, <1>2, <1>3, <1>4, <1>5 DEF Init, TypeOK

(* Every event the workflow or the API appends is one of the known types.  *)
LEMMA AppendType ==
  ASSUME TypeOK, NEW e \in EventType, append_event(e)
  PROVE  events' \subseteq EventType /\ waiting' \subseteq APPROVAL_STEPS /\ tail' \in Tail
  BY DEF TypeOK, append_event, NoWait, Tail

LEMMA WaitingType ==
  ASSUME TypeOK, NEW c \in APPROVAL_STEPS, AppendWaiting(c)
  PROVE  events' \subseteq EventType /\ waiting' \subseteq APPROVAL_STEPS /\ tail' \in Tail
  BY DEF TypeOK, AppendWaiting, WaitingFor, Tail

LEMMA GotoType ==
  ASSUME TypeOK, NEW w \in Workers,
         NEW place \in {"down", "poll", "work", "result", "event", "wait", "close"},
         Goto(w, place)
  PROVE  worker' \in [Workers -> WorkerState]
  BY DEF TypeOK, Goto, WorkerState

LEMMA YieldType ==
  ASSUME TypeOK, NEW w \in Workers, Yield(w)
  PROVE  worker' \in [Workers -> WorkerState]
  BY PollingType DEF TypeOK, Yield

LEMMA WorkOnType ==
  ASSUME TypeOK, NEW w \in Workers, NEW s \in Stage, WorkOn(w, s)
  PROVE  worker' \in [Workers -> WorkerState]
  BY DEF TypeOK, WorkOn, WorkerState, Evidence

LEMMA ProduceType ==
  ASSUME TypeOK, NEW w \in Workers, NEW r \in Evidence \cup {"noop"}, Produce(w, r)
  PROVE  worker' \in [Workers -> WorkerState]
  BY DEF TypeOK, Produce, WorkerState

-----------------------------------------------------------------------------
(* A worker only announces stages that have an event, and only asks for the *)
(* review of stages that have one.                                          *)
Placement ==
  /\ \A w \in Workers :
       /\ worker[w].at = "result" => worker[w].stage # "sweep"
       /\ worker[w].at = "event" => worker[w].stage \in EventStage \cup RoleAgents
       /\ worker[w].at = "wait" => Checkpoint[worker[w].stage] # "none"
  /\ api.op = "reject" => api.step \in REJECTABLE_STEPS

LEMMA PlacementInit == Init => Placement
  BY DEF Init, Placement, Polling, NoRequest

LEMMA AgentStages == Agents \subseteq Stage \ {"sweep"}
  BY StageSet DEF Agents, Guarded, IndexKeyed, RoleAgents

LEMMA FinalEvents ==
  {"DONE", "ERROR", "STOPPED_BUDGET", "SPAWNED"} \subseteq EventType \ EventStage
  BY EventStageSet DEF EventType, Final

LEMMA TypeStep ==
  ASSUME TypeOK, Placement, Next
  PROVE  TypeOK'
<1> USE DEF OperatorIdle, AppendNothing, files
<1>a. ASSUME job' \in JobSpecs, events' \subseteq EventType, waiting' \subseteq APPROVAL_STEPS,
             tail' \in Tail, approved' \subseteq APPROVAL_STEPS, index' \subseteq Stage,
             evidence' \in [Stage -> Evidence], overall' \in {"none", "pass", "fail"},
             card' \in BOOLEAN, budget' \in {"open", "stopped"},
             worker' \in [Workers -> WorkerState], api' \in Request,
             crashes' \in Nat, requests' \in Nat
      PROVE  TypeOK'
  BY <1>a DEF TypeOK
<1>1. ASSUME NEW w \in Workers, StopOnBudget(w)
      PROVE  TypeOK'
  BY <1>1, <1>a, AppendType, GotoType, FinalEvents DEF TypeOK, StopOnBudget
<1>2. ASSUME NEW w \in Workers, AskLiveConfirm(w)
      PROVE  TypeOK'
  BY <1>2, <1>a, WaitingType DEF TypeOK, AskLiveConfirm, APPROVAL_STEPS
<1>3. ASSUME NEW w \in Workers, AskSweep(w)
      PROVE  TypeOK'
  BY <1>3, <1>a, WaitingType DEF TypeOK, AskSweep, APPROVAL_STEPS, REJECTABLE_STEPS
<1>4. ASSUME NEW w \in Workers, Finish(w)
      PROVE  TypeOK'
  BY <1>4, <1>a, AppendType, FinalEvents DEF TypeOK, Finish
<1>5. ASSUME NEW w \in Workers, NEW s \in Stage, Begin(w, s)
      PROVE  TypeOK'
  BY <1>5, <1>a DEF TypeOK, Begin, WorkerState, Evidence
<1>6. ASSUME NEW w \in Workers, NEW s \in Agents, CallAgent(w, s)
      PROVE  TypeOK'
  BY <1>6, <1>a, ProduceType, AgentStages DEF TypeOK, CallAgent, Evidence
<1>7. ASSUME NEW w \in Workers, NEW s \in Agents, AgentFails(w, s)
      PROVE  TypeOK'
  BY <1>7, <1>a, AppendType, GotoType, FinalEvents DEF TypeOK, AgentFails
<1>8. ASSUME NEW w \in Workers, MissingDraft(w)
      PROVE  TypeOK'
  BY <1>8, <1>a, AppendType, YieldType, FinalEvents DEF TypeOK, MissingDraft
<1>9. ASSUME NEW w \in Workers, StopOnBlockedAgent(w)
      PROVE  TypeOK'
  BY <1>9, <1>a, AppendType, GotoType, FinalEvents DEF TypeOK, StopOnBlockedAgent
<1>10. ASSUME NEW w \in Workers, AskInvalidOutput(w)
      PROVE  TypeOK'
  BY <1>10, <1>a, WaitingType, YieldType DEF TypeOK, AskInvalidOutput, APPROVAL_STEPS
<1>11. ASSUME NEW w \in Workers, StopOnInvalidFetch(w)
      PROVE  TypeOK'
  BY <1>11, <1>a, AppendType, GotoType, FinalEvents DEF TypeOK, StopOnInvalidFetch
<1>12. ASSUME NEW w \in Workers, StopOnIterations(w)
      PROVE  TypeOK'
  BY <1>12, <1>a, AppendType, GotoType, FinalEvents DEF TypeOK, StopOnIterations
<1>13. ASSUME NEW w \in Workers, NEW s \in Stage, Execute(w, s)
      PROVE  TypeOK'
  BY <1>13, <1>a, ProduceType DEF TypeOK, Execute, Evidence
<1>14. ASSUME NEW w \in Workers, ExecutionFails(w)
      PROVE  TypeOK'
  BY <1>14, <1>a, AppendType, YieldType, FinalEvents DEF TypeOK, ExecutionFails
<1>15. ASSUME NEW w \in Workers, RunGates(w)
      PROVE  TypeOK'
  BY <1>15, <1>a, ProduceType DEF TypeOK, RunGates, Evidence
<1>16. ASSUME NEW w \in Workers, GatesInvalid(w)
      PROVE  TypeOK'
  BY <1>16, <1>a, AppendType, YieldType, FinalEvents DEF TypeOK, GatesInvalid
<1>17. ASSUME NEW w \in Workers, UpdateRegistry(w)
      PROVE  TypeOK'
  BY <1>17, <1>a, ProduceType DEF TypeOK, UpdateRegistry, Evidence
<1>18. ASSUME NEW w \in Workers, Sweep(w)
      PROVE  TypeOK'
  BY <1>18, <1>a, AppendType, WorkOnType, StageSet, FinalEvents DEF TypeOK, Sweep, Evidence
<1>19. ASSUME NEW w \in Workers, NEW s \in Stage, RecordResult(w, s)
      PROVE  TypeOK'
  BY <1>19, <1>a, GotoType, WorkOnType, StageSet DEF TypeOK, RecordResult
<1>20. ASSUME NEW w \in Workers, NEW s \in Stage, AppendEvent(w, s)
      PROVE  TypeOK'
  BY <1>20, <1>a, AppendType, GotoType, YieldType, EventStageSet DEF TypeOK, Placement, AppendEvent, At, EventType
<1>21. ASSUME NEW w \in Workers, NEW s \in Stage, AskApproval(w, s)
      PROVE  TypeOK'
  BY <1>21, <1>a, WaitingType, YieldType, CheckpointType DEF TypeOK, Placement, AskApproval, At
<1>22. ASSUME NEW w \in Workers, Close(w)
      PROVE  TypeOK'
  BY <1>22, <1>a, AppendType, YieldType, FinalEvents DEF TypeOK, Close
<1>23. ASSUME NEW w \in Workers, NEW s \in Stage, Raise(w, s)
      PROVE  TypeOK'
  BY <1>23, <1>a, PollingType DEF TypeOK, Raise
<1>24. ASSUME NEW w \in Workers, Crash(w)
      PROVE  TypeOK'
  BY <1>24, <1>a, PollingType DEF TypeOK, Crash
<1>25. ASSUME NEW w \in Workers, Restart(w)
      PROVE  TypeOK'
  BY <1>25, <1>a, YieldType DEF TypeOK, Restart
<1>26. ASSUME NEW c \in APPROVAL_STEPS, approve(c)
      PROVE  TypeOK'
  BY <1>26, <1>a DEF TypeOK, approve, NoWait, Tail
<1>27. ASSUME reject
      PROVE  TypeOK'
  BY <1>27, <1>a DEF TypeOK, reject, Request, APPROVAL_STEPS
<1>28. ASSUME NEW s \in Agents, rerun(s)
      PROVE  TypeOK'
  BY <1>28, <1>a DEF TypeOK, rerun, Request
<1>29. ASSUME ApiReadIndex
      PROVE  TypeOK'
  BY <1>29, <1>a DEF TypeOK, ApiReadIndex, Request
<1>30. ASSUME ApiWriteIndex
      PROVE  TypeOK'
  BY <1>30, <1>a DEF TypeOK, ApiWriteIndex, Request
<1>31. ASSUME ApiAppend
      PROVE  TypeOK'
  <2>1. /\ events' \subseteq EventType
        /\ waiting' \subseteq APPROVAL_STEPS
        /\ tail' \in Tail
    <3>1. CASE api.op = "reject"
      BY <1>31, <3>1, WaitingType DEF ApiAppend, Placement, APPROVAL_STEPS
    <3>2. CASE api.op # "reject"
      BY <1>31, <3>2, FinalEvents DEF TypeOK, ApiAppend, Tail
    <3> QED
      BY <3>1, <3>2
  <2>2. api' \in Request
    BY <1>31 DEF ApiAppend, NoRequest, Request
  <2> QED
    BY <1>31, <1>a, <2>1, <2>2 DEF TypeOK, ApiAppend
<1>32. ASSUME spawn
      PROVE  TypeOK'
  BY <1>32, <1>a, AppendType, FinalEvents DEF TypeOK, spawn
<1> QED
  BY <1>1, <1>2, <1>3, <1>4, <1>5, <1>6, <1>7, <1>8, <1>9, <1>10, <1>11, <1>12, <1>13, <1>14, <1>15, <1>16, <1>17, <1>18, <1>19, <1>20, <1>21, <1>22, <1>23, <1>24, <1>25, <1>26, <1>27, <1>28, <1>29, <1>30, <1>31, <1>32
     DEF Next, advance_job_once, Operator

(* A stage with a result is announced, reviewed, or goes on to the next     *)
(* part of its block.                                                       *)
LEMMA ResultStages ==
  /\ \A s \in Stage \ {"sweep", "backtest", "demo", "spec_qa"} : s \in EventStage \cup RoleAgents
  /\ Checkpoint["spec_qa"] # "none"
  BY StageSet, EventStageSet DEF RoleAgents, Checkpoint

LEMMA PlacementStep ==
  ASSUME TypeOK, Placement, Next
  PROVE  Placement'
<1> USE DEF OperatorIdle
<1>1. ASSUME NEW w \in Workers, StopOnBudget(w)
      PROVE  Placement'
  BY <1>1 DEF TypeOK, Placement, WorkerState, StopOnBudget, Goto
<1>2. ASSUME NEW w \in Workers, AskLiveConfirm(w)
      PROVE  Placement'
  BY <1>2 DEF TypeOK, Placement, WorkerState, AskLiveConfirm
<1>3. ASSUME NEW w \in Workers, AskSweep(w)
      PROVE  Placement'
  BY <1>3 DEF TypeOK, Placement, WorkerState, AskSweep
<1>4. ASSUME NEW w \in Workers, Finish(w)
      PROVE  Placement'
  BY <1>4 DEF TypeOK, Placement, WorkerState, Finish
<1>5. ASSUME NEW w \in Workers, NEW s \in Stage, Begin(w, s)
      PROVE  Placement'
  BY <1>5 DEF TypeOK, Placement, WorkerState, Begin
<1>6. ASSUME NEW w \in Workers, NEW s \in Agents, CallAgent(w, s)
      PROVE  Placement'
  BY <1>6, AgentStages DEF TypeOK, Placement, WorkerState, CallAgent, Produce, At
<1>7. ASSUME NEW w \in Workers, NEW s \in Agents, AgentFails(w, s)
      PROVE  Placement'
  BY <1>7 DEF TypeOK, Placement, WorkerState, AgentFails, Goto
<1>8. ASSUME NEW w \in Workers, MissingDraft(w)
      PROVE  Placement'
  BY <1>8 DEF TypeOK, Placement, WorkerState, MissingDraft, Yield, Polling
<1>9. ASSUME NEW w \in Workers, StopOnBlockedAgent(w)
      PROVE  Placement'
  BY <1>9 DEF TypeOK, Placement, WorkerState, StopOnBlockedAgent, Goto
<1>10. ASSUME NEW w \in Workers, AskInvalidOutput(w)
      PROVE  Placement'
  BY <1>10 DEF TypeOK, Placement, WorkerState, AskInvalidOutput, Yield, Polling
<1>11. ASSUME NEW w \in Workers, StopOnInvalidFetch(w)
      PROVE  Placement'
  BY <1>11 DEF TypeOK, Placement, WorkerState, StopOnInvalidFetch, Goto
<1>12. ASSUME NEW w \in Workers, StopOnIterations(w)
      PROVE  Placement'
  BY <1>12 DEF TypeOK, Placement, WorkerState, StopOnIterations, Goto
<1>13. ASSUME NEW w \in Workers, NEW s \in Stage, Execute(w, s)
      PROVE  Placement'
  BY <1>13 DEF TypeOK, Placement, WorkerState, Execute, Produce, At
<1>14. ASSUME NEW w \in Workers, ExecutionFails(w)
      PROVE  Placement'
  BY <1>14 DEF TypeOK, Placement, WorkerState, ExecutionFails, Yield, Polling
<1>15. ASSUME NEW w \in Workers, RunGates(w)
      PROVE  Placement'
  BY <1>15 DEF TypeOK, Placement, WorkerState, RunGates, Produce, At
<1>16. ASSUME NEW w \in Workers, GatesInvalid(w)
      PROVE  Placement'
  BY <1>16 DEF TypeOK, Placement, WorkerState, GatesInvalid, Yield, Polling
<1>17. ASSUME NEW w \in Workers, UpdateRegistry(w)
      PROVE  Placement'
  BY <1>17 DEF TypeOK, Placement, WorkerState, UpdateRegistry, Produce, At
<1>18. ASSUME NEW w \in Workers, Sweep(w)
      PROVE  Placement'
  BY <1>18 DEF TypeOK, Placement, WorkerState, Sweep, WorkOn
<1>19. ASSUME NEW w \in Workers, NEW s \in Stage, RecordResult(w, s)
      PROVE  Placement'
  BY <1>19, ResultStages, StageSet DEF TypeOK, Placement, WorkerState, RecordResult, WorkOn, Goto, At
<1>20. ASSUME NEW w \in Workers, NEW s \in Stage, AppendEvent(w, s)
      PROVE  Placement'
  BY <1>20 DEF TypeOK, Placement, WorkerState, AppendEvent, Goto, Yield, Polling, At
<1>21. ASSUME NEW w \in Workers, NEW s \in Stage, AskApproval(w, s)
      PROVE  Placement'
  BY <1>21 DEF TypeOK, Placement, WorkerState, AskApproval, Yield, Polling
<1>22. ASSUME NEW w \in Workers, Close(w)
      PROVE  Placement'
  BY <1>22 DEF TypeOK, Placement, WorkerState, Close, Yield, Polling
<1>23. ASSUME NEW w \in Workers, NEW s \in Stage, Raise(w, s)
      PROVE  Placement'
  BY <1>23 DEF TypeOK, Placement, WorkerState, Raise, Down
<1>24. ASSUME NEW w \in Workers, Crash(w)
      PROVE  Placement'
  BY <1>24 DEF TypeOK, Placement, WorkerState, Crash, Down
<1>25. ASSUME NEW w \in Workers, Restart(w)
      PROVE  Placement'
  BY <1>25 DEF TypeOK, Placement, WorkerState, Restart, Yield, Polling
<1>26. ASSUME NEW c \in APPROVAL_STEPS, approve(c)
      PROVE  Placement'
  BY <1>26 DEF TypeOK, Placement, WorkerState, approve
<1>27. ASSUME reject
      PROVE  Placement'
  BY <1>27 DEF TypeOK, Placement, WorkerState, reject
<1>28. ASSUME NEW s \in Agents, rerun(s)
      PROVE  Placement'
  BY <1>28 DEF TypeOK, Placement, WorkerState, rerun
<1>29. ASSUME ApiReadIndex
      PROVE  Placement'
  BY <1>29 DEF TypeOK, Placement, WorkerState, ApiReadIndex
<1>30. ASSUME ApiWriteIndex
      PROVE  Placement'
  BY <1>30 DEF TypeOK, Placement, WorkerState, ApiWriteIndex
<1>31. ASSUME ApiAppend
      PROVE  Placement'
  BY <1>31 DEF TypeOK, Placement, WorkerState, ApiAppend, NoRequest
<1>32. ASSUME spawn
      PROVE  Placement'
  BY <1>32 DEF TypeOK, Placement, WorkerState, spawn
<1> QED
  BY <1>1, <1>2, <1>3, <1>4, <1>5, <1>6, <1>7, <1>8, <1>9, <1>10,
     <1>11, <1>12, <1>13, <1>14, <1>15, <1>16, <1>17, <1>18, <1>19, <1>20,
     <1>21, <1>22, <1>23, <1>24, <1>25, <1>26, <1>27, <1>28, <1>29, <1>30,
     <1>31, <1>32
     DEF Next, advance_job_once, Operator

-----------------------------------------------------------------------------
(* What a step may do, whoever takes it *)

(* The log only grows, and only a worker that announces a stage adds the    *)
(* event of one.                                                            *)
Announced(s) == IF s \in RoleAgents THEN "REGISTRY_UPDATED" ELSE s

LogGrows ==
  /\ job' = job
  /\ events \subseteq events'
  /\ approved \subseteq approved'
  /\ \A e \in (events' \ events) \cap EventStage :
       \E w \in Workers : worker[w].at = "event" /\ e = Announced(worker[w].stage)

LEMMA LogStep ==
  ASSUME TypeOK, Next
  PROVE  LogGrows
<1> USE DEF LogGrows, Announced, OperatorIdle, AppendNothing
<1>1. ASSUME NEW w \in Workers, StopOnBudget(w)
      PROVE  LogGrows
  BY <1>1, FinalEvents DEF TypeOK, StopOnBudget, append_event
<1>2. ASSUME NEW w \in Workers, AskLiveConfirm(w)
      PROVE  LogGrows
  BY <1>2 DEF TypeOK, AskLiveConfirm, AppendWaiting
<1>3. ASSUME NEW w \in Workers, AskSweep(w)
      PROVE  LogGrows
  BY <1>3 DEF TypeOK, AskSweep, AppendWaiting
<1>4. ASSUME NEW w \in Workers, Finish(w)
      PROVE  LogGrows
  BY <1>4, FinalEvents DEF TypeOK, Finish, append_event
<1>5. ASSUME NEW w \in Workers, NEW s \in Stage, Begin(w, s)
      PROVE  LogGrows
  BY <1>5 DEF TypeOK, Begin
<1>6. ASSUME NEW w \in Workers, NEW s \in Agents, CallAgent(w, s)
      PROVE  LogGrows
  BY <1>6 DEF TypeOK, CallAgent
<1>7. ASSUME NEW w \in Workers, NEW s \in Agents, AgentFails(w, s)
      PROVE  LogGrows
  BY <1>7, FinalEvents DEF TypeOK, AgentFails, append_event
<1>8. ASSUME NEW w \in Workers, MissingDraft(w)
      PROVE  LogGrows
  BY <1>8, FinalEvents DEF TypeOK, MissingDraft, append_event
<1>9. ASSUME NEW w \in Workers, StopOnBlockedAgent(w)
      PROVE  LogGrows
  BY <1>9, FinalEvents DEF TypeOK, StopOnBlockedAgent, append_event
<1>10. ASSUME NEW w \in Workers, AskInvalidOutput(w)
      PROVE  LogGrows
  BY <1>10 DEF TypeOK, AskInvalidOutput, AppendWaiting
<1>11. ASSUME NEW w \in Workers, StopOnInvalidFetch(w)
      PROVE  LogGrows
  BY <1>11, FinalEvents DEF TypeOK, StopOnInvalidFetch, append_event
<1>12. ASSUME NEW w \in Workers, StopOnIterations(w)
      PROVE  LogGrows
  BY <1>12, FinalEvents DEF TypeOK, StopOnIterations, append_event
<1>13. ASSUME NEW w \in Workers, NEW s \in Stage, Execute(w, s)
      PROVE  LogGrows
  BY <1>13 DEF TypeOK, Execute
<1>14. ASSUME NEW w \in Workers, ExecutionFails(w)
      PROVE  LogGrows
  BY <1>14, FinalEvents DEF TypeOK, ExecutionFails, append_event
<1>15. ASSUME NEW w \in Workers, RunGates(w)
      PROVE  LogGrows
  BY <1>15 DEF TypeOK, RunGates
<1>16. ASSUME NEW w \in Workers, GatesInvalid(w)
      PROVE  LogGrows
  BY <1>16, FinalEvents DEF TypeOK, GatesInvalid, append_event
<1>17. ASSUME NEW w \in Workers, UpdateRegistry(w)
      PROVE  LogGrows
  BY <1>17 DEF TypeOK, UpdateRegistry
<1>18. ASSUME NEW w \in Workers, Sweep(w)
      PROVE  LogGrows
  BY <1>18, FinalEvents DEF TypeOK, Sweep, append_event
<1>19. ASSUME NEW w \in Workers, NEW s \in Stage, RecordResult(w, s)
      PROVE  LogGrows
  BY <1>19 DEF TypeOK, RecordResult
<1>20. ASSUME NEW w \in Workers, NEW s \in Stage, AppendEvent(w, s)
      PROVE  LogGrows
  BY <1>20 DEF TypeOK, AppendEvent, append_event, At
<1>21. ASSUME NEW w \in Workers, NEW s \in Stage, AskApproval(w, s)
      PROVE  LogGrows
  BY <1>21 DEF TypeOK, AskApproval, AppendWaiting
<1>22. ASSUME NEW w \in Workers, Close(w)
      PROVE  LogGrows
  BY <1>22, FinalEvents DEF TypeOK, Close, append_event
<1>23. ASSUME NEW w \in Workers, NEW s \in Stage, Raise(w, s)
      PROVE  LogGrows
  BY <1>23 DEF TypeOK, Raise
<1>24. ASSUME NEW w \in Workers, Crash(w)
      PROVE  LogGrows
  BY <1>24 DEF TypeOK, Crash
<1>25. ASSUME NEW w \in Workers, Restart(w)
      PROVE  LogGrows
  BY <1>25 DEF TypeOK, Restart
<1>26. ASSUME NEW c \in APPROVAL_STEPS, approve(c)
      PROVE  LogGrows
  BY <1>26 DEF TypeOK, approve
<1>27. ASSUME reject
      PROVE  LogGrows
  BY <1>27 DEF TypeOK, reject
<1>28. ASSUME NEW s \in Agents, rerun(s)
      PROVE  LogGrows
  BY <1>28 DEF TypeOK, rerun
<1>29. ASSUME ApiReadIndex
      PROVE  LogGrows
  BY <1>29 DEF TypeOK, ApiReadIndex
<1>30. ASSUME ApiWriteIndex
      PROVE  LogGrows
  BY <1>30 DEF TypeOK, ApiWriteIndex
<1>31. ASSUME ApiAppend
      PROVE  LogGrows
  BY <1>31, FinalEvents DEF TypeOK, ApiAppend, AppendWaiting
<1>32. ASSUME spawn
      PROVE  LogGrows
  BY <1>32, FinalEvents DEF TypeOK, spawn, append_event
<1> QED
  BY <1>1, <1>2, <1>3, <1>4, <1>5, <1>6, <1>7, <1>8, <1>9, <1>10,
     <1>11, <1>12, <1>13, <1>14, <1>15, <1>16, <1>17, <1>18, <1>19, <1>20,
     <1>21, <1>22, <1>23, <1>24, <1>25, <1>26, <1>27, <1>28, <1>29, <1>30,
     <1>31, <1>32
     DEF Next, advance_job_once, Operator

(* Evidence is written once, by a worker at that stage's work.             *)
EvidenceGrows ==
  \A s \in Stage :
    \/ evidence'[s] = evidence[s]
    \/ /\ evidence[s] = "none"
       /\ evidence'[s] # "none"
       /\ \E w \in Workers : At(w, "work", {s})

(* The stages that are no agent's and no verdict leave evidence of one kind. *)
Executed == {"RUNSPEC_COMPILED", "TRACE_PREVIEW_COMPLETED", "RUN_COMPLETED",
             "REGISTRY_UPDATED", "sweep"}
Values == \A s \in Executed : evidence[s] \in {"none", "ok"}

LEMMA AgentValues == Agents \cap (Executed \cup {"GATES_COMPLETED"}) = {}
  BY DEF Agents, Guarded, IndexKeyed, RoleAgents, Executed

LEMMA EvidenceStep ==
  ASSUME TypeOK, Values, Next
  PROVE  Values' /\ EvidenceGrows
<1> USE DEF Values, Executed, EvidenceGrows, OperatorIdle
<1>1. ASSUME NEW w \in Workers, StopOnBudget(w)
      PROVE  Values' /\ EvidenceGrows
  BY <1>1 DEF TypeOK, files, StopOnBudget
<1>2. ASSUME NEW w \in Workers, AskLiveConfirm(w)
      PROVE  Values' /\ EvidenceGrows
  BY <1>2 DEF TypeOK, files, AskLiveConfirm
<1>3. ASSUME NEW w \in Workers, AskSweep(w)
      PROVE  Values' /\ EvidenceGrows
  BY <1>3 DEF TypeOK, files, AskSweep
<1>4. ASSUME NEW w \in Workers, Finish(w)
      PROVE  Values' /\ EvidenceGrows
  BY <1>4 DEF TypeOK, files, Finish
<1>5. ASSUME NEW w \in Workers, NEW s \in Stage, Begin(w, s)
      PROVE  Values' /\ EvidenceGrows
  BY <1>5 DEF TypeOK, files, Begin
<1>6. ASSUME NEW w \in Workers, NEW s \in Agents, CallAgent(w, s)
      PROVE  Values' /\ EvidenceGrows
  <2>1. s \in Stage /\ s \notin Executed /\ At(w, "work", {s})
    BY <1>6, AgentStages, AgentValues DEF CallAgent
  <2>2. \/ evidence' = evidence
        \/ /\ evidence[s] = "none"
           /\ \E answer \in {"ok", "invalid", "stopped"} :
                evidence' = [evidence EXCEPT ![s] = answer]
    BY <1>6 DEF CallAgent
  <2>3. CASE evidence' = evidence
    BY <2>3
  <2>4. CASE evidence' # evidence
    <3>1. PICK answer \in {"ok", "invalid", "stopped"} :
            evidence[s] = "none" /\ evidence' = [evidence EXCEPT ![s] = answer]
      BY <2>2, <2>4
    <3>2. /\ evidence'[s] # "none"
          /\ \A t \in Stage \ {s} : evidence'[t] = evidence[t]
      BY <2>1, <3>1 DEF TypeOK
    <3>3. Values'
      BY <2>1, <3>2, StageSet
    <3> QED
      BY <2>1, <3>1, <3>2, <3>3
  <2> QED
    BY <2>3, <2>4
<1>7. ASSUME NEW w \in Workers, NEW s \in Agents, AgentFails(w, s)
      PROVE  Values' /\ EvidenceGrows
  BY <1>7 DEF TypeOK, files, AgentFails
<1>8. ASSUME NEW w \in Workers, MissingDraft(w)
      PROVE  Values' /\ EvidenceGrows
  BY <1>8 DEF TypeOK, files, MissingDraft
<1>9. ASSUME NEW w \in Workers, StopOnBlockedAgent(w)
      PROVE  Values' /\ EvidenceGrows
  BY <1>9 DEF TypeOK, files, StopOnBlockedAgent
<1>10. ASSUME NEW w \in Workers, AskInvalidOutput(w)
      PROVE  Values' /\ EvidenceGrows
  BY <1>10 DEF TypeOK, files, AskInvalidOutput
<1>11. ASSUME NEW w \in Workers, StopOnInvalidFetch(w)
      PROVE  Values' /\ EvidenceGrows
  BY <1>11 DEF TypeOK, files, StopOnInvalidFetch
<1>12. ASSUME NEW w \in Workers, StopOnIterations(w)
      PROVE  Values' /\ EvidenceGrows
  BY <1>12 DEF TypeOK, files, StopOnIterations
<1>13. ASSUME NEW w \in Workers, NEW s \in Stage, Execute(w, s)
      PROVE  Values' /\ EvidenceGrows
  BY <1>13, StageSet DEF TypeOK, Values, At, Execute
<1>14. ASSUME NEW w \in Workers, ExecutionFails(w)
      PROVE  Values' /\ EvidenceGrows
  BY <1>14 DEF TypeOK, files, ExecutionFails
<1>15. ASSUME NEW w \in Workers, RunGates(w)
      PROVE  Values' /\ EvidenceGrows
  BY <1>15, StageSet DEF TypeOK, Values, At, RunGates
<1>16. ASSUME NEW w \in Workers, GatesInvalid(w)
      PROVE  Values' /\ EvidenceGrows
  BY <1>16 DEF TypeOK, files, GatesInvalid
<1>17. ASSUME NEW w \in Workers, UpdateRegistry(w)
      PROVE  Values' /\ EvidenceGrows
  BY <1>17, StageSet DEF TypeOK, Values, At, UpdateRegistry
<1>18. ASSUME NEW w \in Workers, Sweep(w)
      PROVE  Values' /\ EvidenceGrows
  BY <1>18, StageSet DEF TypeOK, Values, At, Sweep
<1>19. ASSUME NEW w \in Workers, NEW s \in Stage, RecordResult(w, s)
      PROVE  Values' /\ EvidenceGrows
  BY <1>19 DEF TypeOK, files, RecordResult
<1>20. ASSUME NEW w \in Workers, NEW s \in Stage, AppendEvent(w, s)
      PROVE  Values' /\ EvidenceGrows
  BY <1>20 DEF TypeOK, files, AppendEvent
<1>21. ASSUME NEW w \in Workers, NEW s \in Stage, AskApproval(w, s)
      PROVE  Values' /\ EvidenceGrows
  BY <1>21 DEF TypeOK, files, AskApproval
<1>22. ASSUME NEW w \in Workers, Close(w)
      PROVE  Values' /\ EvidenceGrows
  BY <1>22 DEF TypeOK, files, Close
<1>23. ASSUME NEW w \in Workers, NEW s \in Stage, Raise(w, s)
      PROVE  Values' /\ EvidenceGrows
  BY <1>23 DEF TypeOK, files, Raise
<1>24. ASSUME NEW w \in Workers, Crash(w)
      PROVE  Values' /\ EvidenceGrows
  BY <1>24 DEF TypeOK, files, Crash
<1>25. ASSUME NEW w \in Workers, Restart(w)
      PROVE  Values' /\ EvidenceGrows
  BY <1>25 DEF TypeOK, files, Restart
<1>26. ASSUME NEW c \in APPROVAL_STEPS, approve(c)
      PROVE  Values' /\ EvidenceGrows
  BY <1>26 DEF TypeOK, files, approve
<1>27. ASSUME reject
      PROVE  Values' /\ EvidenceGrows
  BY <1>27 DEF TypeOK, files, reject
<1>28. ASSUME NEW s \in Agents, rerun(s)
      PROVE  Values' /\ EvidenceGrows
  BY <1>28 DEF TypeOK, files, rerun
<1>29. ASSUME ApiReadIndex
      PROVE  Values' /\ EvidenceGrows
  BY <1>29 DEF TypeOK, files, ApiReadIndex
<1>30. ASSUME ApiWriteIndex
      PROVE  Values' /\ EvidenceGrows
  BY <1>30 DEF TypeOK, files, ApiWriteIndex
<1>31. ASSUME ApiAppend
      PROVE  Values' /\ EvidenceGrows
  BY <1>31 DEF TypeOK, files, ApiAppend
<1>32. ASSUME spawn
      PROVE  Values' /\ EvidenceGrows
  BY <1>32 DEF TypeOK, files, spawn
<1> QED
  BY <1>1, <1>2, <1>3, <1>4, <1>5, <1>6, <1>7, <1>8, <1>9, <1>10,
     <1>11, <1>12, <1>13, <1>14, <1>15, <1>16, <1>17, <1>18, <1>19, <1>20,
     <1>21, <1>22, <1>23, <1>24, <1>25, <1>26, <1>27, <1>28, <1>29, <1>30,
     <1>31, <1>32
     DEF Next, advance_job_once, Operator

(* The ways a worker moves.                                                 *)
Follow == {<<"backtest", "demo">>, <<"backtest", "TRACE_PREVIEW_COMPLETED">>,
           <<"demo", "TRACE_PREVIEW_COMPLETED">>,
           <<"sweep", "IMPROVEMENTS_PROPOSED">>}

Moves(w) ==
  \/ worker'[w] = worker[w]
  \/ worker'[w].at \in {"poll", "down", "close"}
  \/ /\ worker'[w].at = "work"
     /\ Due(worker'[w].stage)
     /\ worker'[w].stage = "sweep" => "sweep" \in approved
  \/ /\ worker'[w].at = "work"
     /\ worker[w].at \in {"work", "result"}
     /\ <<worker[w].stage, worker'[w].stage>> \in Follow
  \/ /\ worker'[w].at \in {"result", "event", "wait"}
     /\ worker[w].at \in {"work", "result", "event"}
     /\ worker'[w].stage = worker[w].stage
     /\ worker[w].at = "work" => evidence'[worker[w].stage] # "none"

LEMMA MoveStep ==
  ASSUME TypeOK, Next
  PROVE  \A v \in Workers : Moves(v)
<1> USE DEF Moves, Follow, OperatorIdle
<1>1. ASSUME NEW w \in Workers, StopOnBudget(w)
      PROVE  \A v \in Workers : Moves(v)
  BY <1>1 DEF TypeOK, WorkerState, StopOnBudget, Goto
<1>2. ASSUME NEW w \in Workers, AskLiveConfirm(w)
      PROVE  \A v \in Workers : Moves(v)
  BY <1>2 DEF TypeOK, WorkerState, AskLiveConfirm
<1>3. ASSUME NEW w \in Workers, AskSweep(w)
      PROVE  \A v \in Workers : Moves(v)
  BY <1>3 DEF TypeOK, WorkerState, AskSweep
<1>4. ASSUME NEW w \in Workers, Finish(w)
      PROVE  \A v \in Workers : Moves(v)
  BY <1>4 DEF TypeOK, WorkerState, Finish
<1>5. ASSUME NEW w \in Workers, NEW s \in Stage, Begin(w, s)
      PROVE  \A v \in Workers : Moves(v)
  BY <1>5 DEF TypeOK, WorkerState, Begin
<1>6. ASSUME NEW w \in Workers, NEW s \in Agents, CallAgent(w, s)
      PROVE  \A v \in Workers : Moves(v)
  BY <1>6, AgentStages DEF TypeOK, WorkerState, CallAgent, Produce, At, Evidence
<1>7. ASSUME NEW w \in Workers, NEW s \in Agents, AgentFails(w, s)
      PROVE  \A v \in Workers : Moves(v)
  BY <1>7 DEF TypeOK, WorkerState, AgentFails, Goto
<1>8. ASSUME NEW w \in Workers, MissingDraft(w)
      PROVE  \A v \in Workers : Moves(v)
  BY <1>8 DEF TypeOK, WorkerState, MissingDraft, Yield, Polling
<1>9. ASSUME NEW w \in Workers, StopOnBlockedAgent(w)
      PROVE  \A v \in Workers : Moves(v)
  BY <1>9 DEF TypeOK, WorkerState, StopOnBlockedAgent, Goto
<1>10. ASSUME NEW w \in Workers, AskInvalidOutput(w)
      PROVE  \A v \in Workers : Moves(v)
  BY <1>10 DEF TypeOK, WorkerState, AskInvalidOutput, Yield, Polling
<1>11. ASSUME NEW w \in Workers, StopOnInvalidFetch(w)
      PROVE  \A v \in Workers : Moves(v)
  BY <1>11 DEF TypeOK, WorkerState, StopOnInvalidFetch, Goto
<1>12. ASSUME NEW w \in Workers, StopOnIterations(w)
      PROVE  \A v \in Workers : Moves(v)
  BY <1>12 DEF TypeOK, WorkerState, StopOnIterations, Goto
<1>13. ASSUME NEW w \in Workers, NEW s \in Stage, Execute(w, s)
      PROVE  \A v \in Workers : Moves(v)
  BY <1>13, StageSet DEF TypeOK, WorkerState, Execute, Produce, At, Evidence
<1>14. ASSUME NEW w \in Workers, ExecutionFails(w)
      PROVE  \A v \in Workers : Moves(v)
  BY <1>14 DEF TypeOK, WorkerState, ExecutionFails, Yield, Polling
<1>15. ASSUME NEW w \in Workers, RunGates(w)
      PROVE  \A v \in Workers : Moves(v)
  BY <1>15, StageSet DEF TypeOK, WorkerState, RunGates, Produce, At, Evidence
<1>16. ASSUME NEW w \in Workers, GatesInvalid(w)
      PROVE  \A v \in Workers : Moves(v)
  BY <1>16 DEF TypeOK, WorkerState, GatesInvalid, Yield, Polling
<1>17. ASSUME NEW w \in Workers, UpdateRegistry(w)
      PROVE  \A v \in Workers : Moves(v)
  BY <1>17, StageSet DEF TypeOK, WorkerState, UpdateRegistry, Produce, At, Evidence
<1>18. ASSUME NEW w \in Workers, Sweep(w)
      PROVE  \A v \in Workers : Moves(v)
  BY <1>18, StageSet DEF TypeOK, WorkerState, Sweep, WorkOn, At
<1>19. ASSUME NEW w \in Workers, NEW s \in Stage, RecordResult(w, s)
      PROVE  \A v \in Workers : Moves(v)
  BY <1>19 DEF TypeOK, WorkerState, RecordResult, WorkOn, Goto, At
<1>20. ASSUME NEW w \in Workers, NEW s \in Stage, AppendEvent(w, s)
      PROVE  \A v \in Workers : Moves(v)
  BY <1>20 DEF TypeOK, WorkerState, AppendEvent, Goto, Yield, Polling, At
<1>21. ASSUME NEW w \in Workers, NEW s \in Stage, AskApproval(w, s)
      PROVE  \A v \in Workers : Moves(v)
  BY <1>21 DEF TypeOK, WorkerState, AskApproval, Yield, Polling
<1>22. ASSUME NEW w \in Workers, Close(w)
      PROVE  \A v \in Workers : Moves(v)
  BY <1>22 DEF TypeOK, WorkerState, Close, Yield, Polling
<1>23. ASSUME NEW w \in Workers, NEW s \in Stage, Raise(w, s)
      PROVE  \A v \in Workers : Moves(v)
  BY <1>23 DEF TypeOK, WorkerState, Raise, Down
<1>24. ASSUME NEW w \in Workers, Crash(w)
      PROVE  \A v \in Workers : Moves(v)
  BY <1>24 DEF TypeOK, WorkerState, Crash, Down
<1>25. ASSUME NEW w \in Workers, Restart(w)
      PROVE  \A v \in Workers : Moves(v)
  BY <1>25 DEF TypeOK, WorkerState, Restart, Yield, Polling
<1>26. ASSUME NEW c \in APPROVAL_STEPS, approve(c)
      PROVE  \A v \in Workers : Moves(v)
  BY <1>26 DEF TypeOK, WorkerState, approve
<1>27. ASSUME reject
      PROVE  \A v \in Workers : Moves(v)
  BY <1>27 DEF TypeOK, WorkerState, reject
<1>28. ASSUME NEW s \in Agents, rerun(s)
      PROVE  \A v \in Workers : Moves(v)
  BY <1>28 DEF TypeOK, WorkerState, rerun
<1>29. ASSUME ApiReadIndex
      PROVE  \A v \in Workers : Moves(v)
  BY <1>29 DEF TypeOK, WorkerState, ApiReadIndex
<1>30. ASSUME ApiWriteIndex
      PROVE  \A v \in Workers : Moves(v)
  BY <1>30 DEF TypeOK, WorkerState, ApiWriteIndex
<1>31. ASSUME ApiAppend
      PROVE  \A v \in Workers : Moves(v)
  BY <1>31 DEF TypeOK, WorkerState, ApiAppend
<1>32. ASSUME spawn
      PROVE  \A v \in Workers : Moves(v)
  BY <1>32 DEF TypeOK, WorkerState, spawn
<1> QED
  BY <1>1, <1>2, <1>3, <1>4, <1>5, <1>6, <1>7, <1>8, <1>9, <1>10,
     <1>11, <1>12, <1>13, <1>14, <1>15, <1>16, <1>17, <1>18, <1>19, <1>20,
     <1>21, <1>22, <1>23, <1>24, <1>25, <1>26, <1>27, <1>28, <1>29, <1>30,
     <1>31, <1>32
     DEF Next, advance_job_once, Operator

-----------------------------------------------------------------------------
(* The inductive invariant *)

(* What a worker must know to be at a stage: it looked at the log once, when *)
(* it entered the block, and acts on that for several writes.               *)
Allowed(s) ==
  /\ Needed(s) \subseteq approved
  /\ Before(s) \cap EventStage \subseteq events

Permitted ==
  \A w \in Workers :
    /\ worker[w].at \in {"work", "result", "event", "wait"} => Allowed(worker[w].stage)
    /\ worker[w].at \in {"result", "event", "wait"} => evidence[worker[w].stage] # "none"

IInv ==
  /\ TypeOK
  /\ Placement
  /\ Values
  /\ Permitted
  /\ CheckpointDiscipline
  /\ EventsInOrder

(* A stage with an event is complete when its event is in the log.          *)
LEMMA CompletedEvent == \A s \in EventStage : Completed(s) <=> s \in events
<1> TAKE s \in EventStage
<1>1. s \notin {"spec_qa", "backtest", "demo", "sweep"} \cup RoleAgents
  BY EventStageSet DEF RoleAgents
<1> QED
  BY <1>1 DEF Completed

(* A block that is due is allowed: the ladder has checked all before it.    *)
LEMMA DueIsAllowed ==
  ASSUME NEW s \in Stage, Due(s), s = "sweep" => "sweep" \in approved
  PROVE  Allowed(s)
<1>1. \A t \in Before(s) : Checkpoint[t] = "none" \/ Checkpoint[t] \in approved
  BY DEF Due, Passed
<1>2. Needed(s) \subseteq approved
  BY <1>1 DEF Needed, Due, LiveConfirmed
<1>3. \A t \in Before(s) \cap EventStage : t \in events
  BY CompletedEvent DEF Due
<1> QED
  BY <1>2, <1>3 DEF Allowed

(* Between the parts of one block there is no review step and no event.     *)
LEMMA FollowNeedsNoMore ==
  ASSUME NEW s \in Stage, NEW t \in Stage, <<s, t>> \in Follow
  PROVE  /\ Needed(t) \subseteq Needed(s)
         /\ Before(t) \cap EventStage \subseteq Before(s) \cap EventStage
<1>1. \A u \in Before(t) \ Before(s) :
        Checkpoint[u] = "none" /\ u \notin EventStage
  <2>1. Before(t) \ Before(s) \subseteq {"backtest", "demo", "sweep"}
    <3>1. \/ s = "backtest" /\ t \in {"demo", "TRACE_PREVIEW_COMPLETED"}
          \/ s = "demo" /\ t = "TRACE_PREVIEW_COMPLETED"
          \/ s = "sweep" /\ t = "IMPROVEMENTS_PROPOSED"
      BY DEF Follow
    <3> QED
      BY <3>1, BlockParts
  <2>2. \A u \in {"backtest", "demo", "sweep"} :
          Checkpoint[u] = "none" /\ u \notin EventStage
    BY StageSet, EventStageSet DEF Checkpoint
  <2> QED
    BY <2>1, <2>2
<1>2. t # "sweep"
  BY DEF Follow
<1>3. Needed(t) \subseteq Needed(s)
  BY <1>1, <1>2 DEF Needed
<1> QED
  BY <1>1, <1>3

(* What is allowed stays allowed: log and approvals only grow.              *)
LEMMA AllowedStays ==
  ASSUME LogGrows, NEW s \in Stage, Allowed(s)
  PROVE  Allowed(s)'
<1>1. Needed(s)' = Needed(s)
  BY DEF LogGrows, Needed
<1> QED
  BY <1>1 DEF LogGrows, Allowed

LEMMA PermittedInit == Init => Permitted
  BY DEF Init, Permitted, Polling

LEMMA PermittedStep ==
  ASSUME TypeOK, Placement, Permitted, Values, Next
  PROVE  Permitted'
<1>1. LogGrows /\ EvidenceGrows /\ TypeOK' /\ \A v \in Workers : Moves(v)
  BY LogStep, EvidenceStep, MoveStep, TypeStep
<1> SUFFICES ASSUME NEW v \in Workers
             PROVE  /\ worker'[v].at \in {"work", "result", "event", "wait"}
                          => Allowed(worker[v].stage)'
                    /\ worker'[v].at \in {"result", "event", "wait"}
                          => evidence'[worker'[v].stage] # "none"
  BY DEF Permitted
<1>2. worker[v].stage \in Stage /\ worker'[v].stage \in Stage
  BY <1>1 DEF TypeOK, WorkerState
<1>3. \A s \in Stage : Allowed(s) => Allowed(s)'
  BY <1>1, AllowedStays
<1>4. \A s \in Stage : evidence[s] # "none" => evidence'[s] # "none"
  BY <1>1 DEF EvidenceGrows
<1>5. CASE worker'[v] = worker[v]
  BY <1>2, <1>3, <1>4, <1>5 DEF Permitted, Allowed, Needed
<1>6. CASE worker'[v].at \in {"poll", "down", "close"}
  BY <1>6
<1>7. CASE /\ worker'[v].at = "work"
           /\ Due(worker'[v].stage)
           /\ worker'[v].stage = "sweep" => "sweep" \in approved
  BY <1>2, <1>3, <1>7, DueIsAllowed
<1>8. CASE /\ worker'[v].at = "work"
           /\ worker[v].at \in {"work", "result"}
           /\ <<worker[v].stage, worker'[v].stage>> \in Follow
  BY <1>2, <1>3, <1>8, FollowNeedsNoMore DEF Permitted, Allowed
<1>9. CASE /\ worker'[v].at \in {"result", "event", "wait"}
           /\ worker[v].at \in {"work", "result", "event"}
           /\ worker'[v].stage = worker[v].stage
           /\ worker[v].at = "work" => evidence'[worker[v].stage] # "none"
  BY <1>2, <1>3, <1>4, <1>9 DEF Permitted
<1> QED
  BY <1>1, <1>5, <1>6, <1>7, <1>8, <1>9 DEF Moves

LEMMA DisciplineStep ==
  ASSUME TypeOK, Values, Permitted, CheckpointDiscipline, Next
  PROVE  CheckpointDiscipline'
<1>1. LogGrows /\ EvidenceGrows
  BY LogStep, EvidenceStep
<1> SUFFICES ASSUME NEW s \in Stage, evidence'[s] # "none"
             PROVE  Needed(s)' \subseteq approved'
  BY DEF CheckpointDiscipline
<1>2. Needed(s)' = Needed(s) /\ approved \subseteq approved'
  BY <1>1 DEF LogGrows, Needed
<1>3. CASE evidence[s] # "none"
  BY <1>2, <1>3 DEF CheckpointDiscipline
<1>4. CASE evidence[s] = "none"
  <2>1. PICK w \in Workers : At(w, "work", {s})
    BY <1>1, <1>4 DEF EvidenceGrows
  <2> QED
    BY <1>2, <2>1 DEF At, Permitted, Allowed
<1> QED
  BY <1>3, <1>4

(* The role agents come after the registry update they are announced as.    *)
LEMMA RoleAgentsFollow ==
  \A s \in RoleAgents : "REGISTRY_UPDATED" \in Before(s) \cap EventStage
  BY StageSet, EventStageSet DEF RoleAgents, Before, Position

LEMMA OrderStep ==
  ASSUME TypeOK, Placement, Values, Permitted, EventsInOrder, Next
  PROVE  EventsInOrder'
<1>1. LogGrows /\ EvidenceGrows
  BY LogStep, EvidenceStep
<1> SUFFICES ASSUME NEW e \in EventStage, e \in events'
             PROVE  Before(e) \cap EventStage \subseteq events' /\ evidence'[e] # "none"
  BY DEF EventsInOrder
<1>2. events \subseteq events' /\ (evidence[e] # "none" => evidence'[e] # "none")
  BY <1>1 DEF LogGrows, EvidenceGrows, EventStage
<1>3. CASE e \in events
  BY <1>2, <1>3 DEF EventsInOrder
<1>4. CASE e \notin events
  <2>1. PICK w \in Workers : worker[w].at = "event" /\ e = Announced(worker[w].stage)
    BY <1>1, <1>4 DEF LogGrows
  <2>2. Before(worker[w].stage) \cap EventStage \subseteq events
    BY <2>1 DEF Permitted, Allowed
  <2>3. worker[w].stage \notin RoleAgents
    BY <2>1, <2>2, <1>4, RoleAgentsFollow DEF Announced
  <2> QED
    BY <1>2, <2>1, <2>2, <2>3 DEF Announced, Permitted
<1> QED
  BY <1>3, <1>4

LEMMA IInvInit == Init => IInv
<1>1. Init => Values /\ CheckpointDiscipline /\ EventsInOrder
  BY StageSet DEF Init, Values, Executed, CheckpointDiscipline, EventsInOrder
<1> QED
  BY <1>1, TypeInit, PlacementInit, PermittedInit DEF IInv

LEMMA IInvStep == IInv /\ [Next]_vars => IInv'
<1> SUFFICES ASSUME IInv, [Next]_vars PROVE IInv'
  OBVIOUS
<1>1. CASE Next
  BY <1>1, TypeStep, PlacementStep, EvidenceStep, PermittedStep,
     DisciplineStep, OrderStep DEF IInv
<1>2. CASE UNCHANGED vars
  BY <1>2 DEF vars, files, IInv, TypeOK, Placement, Values, Permitted, Allowed,
     Needed, CheckpointDiscipline, EventsInOrder
<1> QED
  BY <1>1, <1>2

-----------------------------------------------------------------------------
(* Every state the workflow can reach has the declared shape.               *)
THEOREM TypeCorrect == Spec => []TypeOK
<1>1. IInv => TypeOK
  BY DEF IInv
<1> QED
  BY <1>1, IInvInit, IInvStep, PTL DEF Spec

(* No stage runs before the reviews in front of it are approved, for any    *)
(* number of workers, crashes and requests.                                 *)
THEOREM CheckpointsHold == Spec => []CheckpointDiscipline
<1>1. IInv => CheckpointDiscipline
  BY DEF IInv
<1> QED
  BY <1>1, IInvInit, IInvStep, PTL DEF Spec

(* The log tells the stages in order, and only of what was done.            *)
THEOREM LogInOrder == Spec => []EventsInOrder
<1>1. IInv => EventsInOrder
  BY DEF IInv
<1> QED
  BY <1>1, IInvInit, IInvStep, PTL DEF Spec

(* What a stage has left on disk is never changed.                          *)
THEOREM EvidenceKept == Spec => EvidenceIsAppendOnly
<1>1. IInv /\ [Next]_vars =>
        [\A s \in Stage : evidence[s] # "none" => evidence'[s] = evidence[s]]_vars
  BY EvidenceStep DEF IInv, EvidenceGrows
<1> QED
  BY <1>1, IInvInit, IInvStep, PTL DEF Spec, EvidenceIsAppendOnly

-----------------------------------------------------------------------------
(* Experience cards *)

CardGrows ==
  card' # card =>
    /\ evidence["GATES_COMPLETED"] = "pass"
    /\ \E w \in Workers : At(w, "work", {"REGISTRY_UPDATED"})

LEMMA CardStep ==
  ASSUME TypeOK, Next
  PROVE  CardGrows
<1> USE DEF CardGrows, TypeOK, OperatorIdle
<1>1. ASSUME NEW w \in Workers, StopOnBudget(w)
      PROVE  CardGrows
  BY <1>1 DEF files, StopOnBudget
<1>2. ASSUME NEW w \in Workers, AskLiveConfirm(w)
      PROVE  CardGrows
  BY <1>2 DEF files, AskLiveConfirm
<1>3. ASSUME NEW w \in Workers, AskSweep(w)
      PROVE  CardGrows
  BY <1>3 DEF files, AskSweep
<1>4. ASSUME NEW w \in Workers, Finish(w)
      PROVE  CardGrows
  BY <1>4 DEF files, Finish
<1>5. ASSUME NEW w \in Workers, NEW s \in Stage, Begin(w, s)
      PROVE  CardGrows
  BY <1>5 DEF files, Begin
<1>6. ASSUME NEW w \in Workers, NEW s \in Agents, CallAgent(w, s)
      PROVE  CardGrows
  BY <1>6 DEF CallAgent
<1>7. ASSUME NEW w \in Workers, NEW s \in Agents, AgentFails(w, s)
      PROVE  CardGrows
  BY <1>7 DEF files, AgentFails
<1>8. ASSUME NEW w \in Workers, MissingDraft(w)
      PROVE  CardGrows
  BY <1>8 DEF files, MissingDraft
<1>9. ASSUME NEW w \in Workers, StopOnBlockedAgent(w)
      PROVE  CardGrows
  BY <1>9 DEF files, StopOnBlockedAgent
<1>10. ASSUME NEW w \in Workers, AskInvalidOutput(w)
      PROVE  CardGrows
  BY <1>10 DEF files, AskInvalidOutput
<1>11. ASSUME NEW w \in Workers, StopOnInvalidFetch(w)
      PROVE  CardGrows
  BY <1>11 DEF files, StopOnInvalidFetch
<1>12. ASSUME NEW w \in Workers, StopOnIterations(w)
      PROVE  CardGrows
  BY <1>12 DEF files, StopOnIterations
<1>13. ASSUME NEW w \in Workers, NEW s \in Stage, Execute(w, s)
      PROVE  CardGrows
  BY <1>13 DEF Execute
<1>14. ASSUME NEW w \in Workers, ExecutionFails(w)
      PROVE  CardGrows
  BY <1>14 DEF files, ExecutionFails
<1>15. ASSUME NEW w \in Workers, RunGates(w)
      PROVE  CardGrows
  BY <1>15 DEF RunGates
<1>16. ASSUME NEW w \in Workers, GatesInvalid(w)
      PROVE  CardGrows
  BY <1>16 DEF files, GatesInvalid
<1>17. ASSUME NEW w \in Workers, UpdateRegistry(w)
      PROVE  CardGrows
  BY <1>17 DEF UpdateRegistry
<1>18. ASSUME NEW w \in Workers, Sweep(w)
      PROVE  CardGrows
  BY <1>18 DEF Sweep
<1>19. ASSUME NEW w \in Workers, NEW s \in Stage, RecordResult(w, s)
      PROVE  CardGrows
  BY <1>19 DEF RecordResult
<1>20. ASSUME NEW w \in Workers, NEW s \in Stage, AppendEvent(w, s)
      PROVE  CardGrows
  BY <1>20 DEF files, AppendEvent
<1>21. ASSUME NEW w \in Workers, NEW s \in Stage, AskApproval(w, s)
      PROVE  CardGrows
  BY <1>21 DEF files, AskApproval
<1>22. ASSUME NEW w \in Workers, Close(w)
      PROVE  CardGrows
  BY <1>22 DEF files, Close
<1>23. ASSUME NEW w \in Workers, NEW s \in Stage, Raise(w, s)
      PROVE  CardGrows
  BY <1>23 DEF files, Raise
<1>24. ASSUME NEW w \in Workers, Crash(w)
      PROVE  CardGrows
  BY <1>24 DEF files, Crash
<1>25. ASSUME NEW w \in Workers, Restart(w)
      PROVE  CardGrows
  BY <1>25 DEF files, Restart
<1>26. ASSUME NEW c \in APPROVAL_STEPS, approve(c)
      PROVE  CardGrows
  BY <1>26 DEF files, approve
<1>27. ASSUME reject
      PROVE  CardGrows
  BY <1>27 DEF files, reject
<1>28. ASSUME NEW s \in Agents, rerun(s)
      PROVE  CardGrows
  BY <1>28 DEF rerun
<1>29. ASSUME ApiReadIndex
      PROVE  CardGrows
  BY <1>29 DEF files, ApiReadIndex
<1>30. ASSUME ApiWriteIndex
      PROVE  CardGrows
  BY <1>30 DEF ApiWriteIndex
<1>31. ASSUME ApiAppend
      PROVE  CardGrows
  BY <1>31 DEF files, ApiAppend
<1>32. ASSUME spawn
      PROVE  CardGrows
  BY <1>32 DEF files, spawn
<1> QED
  BY <1>1, <1>2, <1>3, <1>4, <1>5, <1>6, <1>7, <1>8, <1>9, <1>10,
     <1>11, <1>12, <1>13, <1>14, <1>15, <1>16, <1>17, <1>18, <1>19, <1>20,
     <1>21, <1>22, <1>23, <1>24, <1>25, <1>26, <1>27, <1>28, <1>29, <1>30,
     <1>31, <1>32
     DEF Next, advance_job_once, Operator

(* A card is made at the registry update, and the log it is made by says     *)
(* that the run and its gates were done before.                              *)
LEMMA EarnedStep ==
  ASSUME IInv, CardIsEarned, Next
  PROVE  CardIsEarned'
<1>1. LogGrows /\ EvidenceGrows /\ CardGrows
  BY LogStep, EvidenceStep, CardStep DEF IInv
<1> SUFFICES ASSUME card'
             PROVE  /\ evidence'["GATES_COMPLETED"] = "pass"
                    /\ evidence'["RUN_COMPLETED"] = "ok"
                    /\ Needed("RUN_COMPLETED")' \subseteq approved'
  BY DEF CardIsEarned
<1>2. /\ evidence["GATES_COMPLETED"] = "pass"
      /\ evidence["RUN_COMPLETED"] = "ok"
      /\ Needed("RUN_COMPLETED") \subseteq approved
  <2>1. CASE card
    BY <2>1 DEF CardIsEarned
  <2>2. CASE ~card
    <3>1. card' # card
      BY <2>2
    <3>2. PICK w \in Workers : At(w, "work", {"REGISTRY_UPDATED"})
      BY <1>1, <3>1 DEF CardGrows
    <3>3. Before("REGISTRY_UPDATED") \cap EventStage \subseteq events
      BY <3>2 DEF IInv, Permitted, Allowed, At
    <3>4. evidence["RUN_COMPLETED"] # "none"
      BY <3>3, StageSet, EventStageSet DEF Before, Position, IInv, EventsInOrder
    <3>5. evidence["RUN_COMPLETED"] = "ok"
      BY <3>4 DEF IInv, Values, Executed
    <3> QED
      BY <1>1, <3>1, <3>4, <3>5, StageSet DEF CardGrows, IInv, CheckpointDiscipline
  <2> QED
    BY <2>1, <2>2
<1>3. Needed("RUN_COMPLETED")' = Needed("RUN_COMPLETED") /\ approved \subseteq approved'
  BY <1>1 DEF LogGrows, Needed
<1> QED
  BY <1>1, <1>2, <1>3, StageSet DEF EvidenceGrows

(* An experience card exists only for an approved run that passed its gates. *)
THEOREM CardsEarned == Spec => []CardIsEarned
<1>1. Init => CardIsEarned
  BY DEF Init, CardIsEarned
<1>2. IInv /\ CardIsEarned /\ [Next]_vars => CardIsEarned'
  <2>1. CASE Next
    BY <2>1, EarnedStep
  <2>2. CASE UNCHANGED vars
    BY <2>2 DEF vars, files, CardIsEarned, Needed
  <2> QED
    BY <2>1, <2>2
<1> QED
  BY <1>1, <1>2, IInvInit, IInvStep, PTL DEF Spec

-----------------------------------------------------------------------------
(* The end of a job *)

Explained == events \cap {"ERROR", "STOPPED_BUDGET"} # {}
Explains == \A w \in Workers : worker[w].at = "close" => Explained

Ends ==
  /\ Explains'
  /\ "DONE" \in events' \ events =>
       \/ Explained
       \/ LiveConfirmed /\ \A s \in Stage : Completed(s) /\ Passed(s)

LEMMA EndStep ==
  ASSUME TypeOK, Placement, Explains, Next
  PROVE  Ends
<1> USE DEF Ends, Explains, Explained, OperatorIdle, AppendNothing
<1>1. ASSUME NEW w \in Workers, StopOnBudget(w)
      PROVE  Ends
  BY <1>1 DEF TypeOK, WorkerState, StopOnBudget, Goto, append_event
<1>2. ASSUME NEW w \in Workers, AskLiveConfirm(w)
      PROVE  Ends
  BY <1>2 DEF TypeOK, WorkerState, AskLiveConfirm, AppendWaiting
<1>3. ASSUME NEW w \in Workers, AskSweep(w)
      PROVE  Ends
  BY <1>3 DEF TypeOK, WorkerState, AskSweep, AppendWaiting
<1>4. ASSUME NEW w \in Workers, Finish(w)
      PROVE  Ends
  BY <1>4 DEF TypeOK, WorkerState, Finish, append_event
<1>5. ASSUME NEW w \in Workers, NEW s \in Stage, Begin(w, s)
      PROVE  Ends
  BY <1>5 DEF TypeOK, WorkerState, Begin
<1>6. ASSUME NEW w \in Workers, NEW s \in Agents, CallAgent(w, s)
      PROVE  Ends
  BY <1>6 DEF TypeOK, WorkerState, CallAgent, Produce, At
<1>7. ASSUME NEW w \in Workers, NEW s \in Agents, AgentFails(w, s)
      PROVE  Ends
  BY <1>7 DEF TypeOK, WorkerState, AgentFails, Goto, append_event
<1>8. ASSUME NEW w \in Workers, MissingDraft(w)
      PROVE  Ends
  BY <1>8 DEF TypeOK, WorkerState, MissingDraft, Yield, Polling, append_event
<1>9. ASSUME NEW w \in Workers, StopOnBlockedAgent(w)
      PROVE  Ends
  BY <1>9 DEF TypeOK, WorkerState, StopOnBlockedAgent, Goto, append_event
<1>10. ASSUME NEW w \in Workers, AskInvalidOutput(w)
      PROVE  Ends
  BY <1>10 DEF TypeOK, WorkerState, AskInvalidOutput, Yield, Polling, AppendWaiting
<1>11. ASSUME NEW w \in Workers, StopOnInvalidFetch(w)
      PROVE  Ends
  BY <1>11 DEF TypeOK, WorkerState, StopOnInvalidFetch, Goto, append_event
<1>12. ASSUME NEW w \in Workers, StopOnIterations(w)
      PROVE  Ends
  BY <1>12 DEF TypeOK, WorkerState, StopOnIterations, Goto, append_event
<1>13. ASSUME NEW w \in Workers, NEW s \in Stage, Execute(w, s)
      PROVE  Ends
  BY <1>13 DEF TypeOK, WorkerState, Execute, Produce, At
<1>14. ASSUME NEW w \in Workers, ExecutionFails(w)
      PROVE  Ends
  BY <1>14 DEF TypeOK, WorkerState, ExecutionFails, Yield, Polling, append_event
<1>15. ASSUME NEW w \in Workers, RunGates(w)
      PROVE  Ends
  BY <1>15 DEF TypeOK, WorkerState, RunGates, Produce, At
<1>16. ASSUME NEW w \in Workers, GatesInvalid(w)
      PROVE  Ends
  BY <1>16 DEF TypeOK, WorkerState, GatesInvalid, Yield, Polling, append_event
<1>17. ASSUME NEW w \in Workers, UpdateRegistry(w)
      PROVE  Ends
  BY <1>17 DEF TypeOK, WorkerState, UpdateRegistry, Produce, At
<1>18. ASSUME NEW w \in Workers, Sweep(w)
      PROVE  Ends
  BY <1>18 DEF TypeOK, WorkerState, Sweep, WorkOn, At, append_event
<1>19. ASSUME NEW w \in Workers, NEW s \in Stage, RecordResult(w, s)
      PROVE  Ends
  BY <1>19 DEF TypeOK, WorkerState, RecordResult, WorkOn, Goto, At
<1>20. ASSUME NEW w \in Workers, NEW s \in Stage, AppendEvent(w, s)
      PROVE  Ends
  BY <1>20, FinalEvents, EventStageSet, StageSet DEF TypeOK, WorkerState, AppendEvent, Goto, Yield, Polling, At, append_event, Placement
<1>21. ASSUME NEW w \in Workers, NEW s \in Stage, AskApproval(w, s)
      PROVE  Ends
  BY <1>21 DEF TypeOK, WorkerState, AskApproval, Yield, Polling, AppendWaiting
<1>22. ASSUME NEW w \in Workers, Close(w)
      PROVE  Ends
  BY <1>22 DEF TypeOK, WorkerState, Close, Yield, Polling, append_event
<1>23. ASSUME NEW w \in Workers, NEW s \in Stage, Raise(w, s)
      PROVE  Ends
  BY <1>23 DEF TypeOK, WorkerState, Raise, Down
<1>24. ASSUME NEW w \in Workers, Crash(w)
      PROVE  Ends
  BY <1>24 DEF TypeOK, WorkerState, Crash, Down
<1>25. ASSUME NEW w \in Workers, Restart(w)
      PROVE  Ends
  BY <1>25 DEF TypeOK, WorkerState, Restart, Yield, Polling
<1>26. ASSUME NEW c \in APPROVAL_STEPS, approve(c)
      PROVE  Ends
  BY <1>26 DEF TypeOK, WorkerState, approve
<1>27. ASSUME reject
      PROVE  Ends
  BY <1>27 DEF TypeOK, WorkerState, reject
<1>28. ASSUME NEW s \in Agents, rerun(s)
      PROVE  Ends
  BY <1>28 DEF TypeOK, WorkerState, rerun
<1>29. ASSUME ApiReadIndex
      PROVE  Ends
  BY <1>29 DEF TypeOK, WorkerState, ApiReadIndex
<1>30. ASSUME ApiWriteIndex
      PROVE  Ends
  BY <1>30 DEF TypeOK, WorkerState, ApiWriteIndex
<1>31. ASSUME ApiAppend
      PROVE  Ends
  BY <1>31 DEF TypeOK, WorkerState, ApiAppend, AppendWaiting
<1>32. ASSUME spawn
      PROVE  Ends
  BY <1>32 DEF TypeOK, WorkerState, spawn, append_event
<1> QED
  BY <1>1, <1>2, <1>3, <1>4, <1>5, <1>6, <1>7, <1>8, <1>9, <1>10,
     <1>11, <1>12, <1>13, <1>14, <1>15, <1>16, <1>17, <1>18, <1>19, <1>20,
     <1>21, <1>22, <1>23, <1>24, <1>25, <1>26, <1>27, <1>28, <1>29, <1>30,
     <1>31, <1>32
     DEF Next, advance_job_once, Operator

LEMMA CleanStep ==
  ASSUME IInv, Explains, CleanFinish, Next
  PROVE  CleanFinish'
<1>1. LogGrows /\ EvidenceGrows /\ Ends
  BY LogStep, EvidenceStep, EndStep DEF IInv
<1> SUFFICES ASSUME "DONE" \in events', events' \cap {"ERROR", "STOPPED_BUDGET"} = {}
             PROVE  /\ EventStage \subseteq events'
                    /\ job'.sweep => evidence'["sweep"] # "none"
                    /\ \A s \in EventStage : Needed(s)' \subseteq approved' /\ Passed(s)'
  BY DEF CleanFinish
<1>2. ~Explained
  BY <1>1 DEF LogGrows, Explained
<1>3. /\ EventStage \subseteq events
      /\ job.sweep => evidence["sweep"] # "none"
      /\ \A s \in EventStage : Needed(s) \subseteq approved /\ Passed(s)
  <2>1. CASE "DONE" \in events
    BY <1>2, <2>1 DEF CleanFinish, Explained
  <2>2. CASE "DONE" \notin events
    <3>1. LiveConfirmed /\ \A s \in Stage : Completed(s) /\ Passed(s)
      BY <1>1, <1>2, <2>2 DEF Ends
    <3>2. EventStage \subseteq events
      BY <3>1, CompletedEvent DEF EventStage
    <3>3. job.sweep => evidence["sweep"] # "none"
      BY <3>1, StageSet, EventStageSet DEF Completed, RoleAgents
    <3>4. ASSUME NEW s \in EventStage PROVE Needed(s) \subseteq approved
      BY <3>1, BeforeStage, EventStageSet DEF Needed, LiveConfirmed, Passed, EventStage
    <3> QED
      BY <3>1, <3>2, <3>3, <3>4 DEF EventStage
  <2> QED
    BY <2>1, <2>2
<1>4. \A s \in EventStage : Needed(s)' = Needed(s) /\ (Passed(s) => Passed(s)')
  BY <1>1 DEF LogGrows, Needed, Passed
<1> QED
  BY <1>1, <1>3, <1>4, StageSet DEF LogGrows, EvidenceGrows

(* A job that is DONE without an error or a budget stop was carried out and *)
(* reviewed completely.                                                     *)
THEOREM FinishIsClean == Spec => []CleanFinish
<1>1. Init => Explains /\ CleanFinish
  BY DEF Init, Explains, CleanFinish, Polling
<1>2. IInv /\ Explains /\ CleanFinish /\ [Next]_vars => Explains' /\ CleanFinish'
  <2>1. CASE Next
    BY <2>1, EndStep, CleanStep DEF IInv, Ends
  <2>2. CASE UNCHANGED vars
    BY <2>2 DEF vars, files, Explains, Explained, CleanFinish, Needed, Passed
  <2> QED
    BY <2>1, <2>2
<1> QED
  BY <1>1, <1>2, IInvInit, IInvStep, PTL DEF Spec

-----------------------------------------------------------------------------
(* One worker carries out a checkpoint pipeline *)

(* A single worker that is at a stage has not been overtaken by the end of  *)
(* the job; two workers may be.                                             *)
Busy(w) == worker[w].at \in {"work", "result", "event", "wait"}
BusyIsOpen == \A w \in Workers : Busy(w) => Open

LEMMA BusyStep ==
  ASSUME NEW only, Workers = {only}, TypeOK, Placement, BusyIsOpen, Next
  PROVE  BusyIsOpen'
<1> USE DEF BusyIsOpen, Busy, Open, Final, OperatorIdle, AppendNothing
<1>1. ASSUME NEW w \in Workers, StopOnBudget(w)
      PROVE  BusyIsOpen'
  BY <1>1, FinalEvents DEF TypeOK, WorkerState, StopOnBudget, Goto, At, append_event
<1>2. ASSUME NEW w \in Workers, AskLiveConfirm(w)
      PROVE  BusyIsOpen'
  BY <1>2, FinalEvents DEF TypeOK, WorkerState, AskLiveConfirm, At, AppendWaiting
<1>3. ASSUME NEW w \in Workers, AskSweep(w)
      PROVE  BusyIsOpen'
  BY <1>3, FinalEvents DEF TypeOK, WorkerState, AskSweep, At, AppendWaiting
<1>4. ASSUME NEW w \in Workers, Finish(w)
      PROVE  BusyIsOpen'
  BY <1>4, FinalEvents DEF TypeOK, WorkerState, Finish, Ready, At, append_event
<1>5. ASSUME NEW w \in Workers, NEW s \in Stage, Begin(w, s)
      PROVE  BusyIsOpen'
  BY <1>5, FinalEvents DEF TypeOK, WorkerState, Begin, At, Ready
<1>6. ASSUME NEW w \in Workers, NEW s \in Agents, CallAgent(w, s)
      PROVE  BusyIsOpen'
  BY <1>6, FinalEvents DEF TypeOK, WorkerState, CallAgent, Produce, At
<1>7. ASSUME NEW w \in Workers, NEW s \in Agents, AgentFails(w, s)
      PROVE  BusyIsOpen'
  BY <1>7, FinalEvents DEF TypeOK, WorkerState, AgentFails, Goto, At, append_event
<1>8. ASSUME NEW w \in Workers, MissingDraft(w)
      PROVE  BusyIsOpen'
  BY <1>8, FinalEvents DEF TypeOK, WorkerState, MissingDraft, Yield, Polling, At, append_event
<1>9. ASSUME NEW w \in Workers, StopOnBlockedAgent(w)
      PROVE  BusyIsOpen'
  BY <1>9, FinalEvents DEF TypeOK, WorkerState, StopOnBlockedAgent, Goto, At, append_event
<1>10. ASSUME NEW w \in Workers, AskInvalidOutput(w)
      PROVE  BusyIsOpen'
  BY <1>10, FinalEvents DEF TypeOK, WorkerState, AskInvalidOutput, Yield, Polling, At, AppendWaiting
<1>11. ASSUME NEW w \in Workers, StopOnInvalidFetch(w)
      PROVE  BusyIsOpen'
  BY <1>11, FinalEvents DEF TypeOK, WorkerState, StopOnInvalidFetch, Goto, At, append_event
<1>12. ASSUME NEW w \in Workers, StopOnIterations(w)
      PROVE  BusyIsOpen'
  BY <1>12, FinalEvents DEF TypeOK, WorkerState, StopOnIterations, Goto, At, append_event
<1>13. ASSUME NEW w \in Workers, NEW s \in Stage, Execute(w, s)
      PROVE  BusyIsOpen'
  BY <1>13, FinalEvents DEF TypeOK, WorkerState, Execute, Produce, At
<1>14. ASSUME NEW w \in Workers, ExecutionFails(w)
      PROVE  BusyIsOpen'
  BY <1>14, FinalEvents DEF TypeOK, WorkerState, ExecutionFails, Yield, Polling, At, append_event
<1>15. ASSUME NEW w \in Workers, RunGates(w)
      PROVE  BusyIsOpen'
  BY <1>15, FinalEvents DEF TypeOK, WorkerState, RunGates, Produce, At
<1>16. ASSUME NEW w \in Workers, GatesInvalid(w)
      PROVE  BusyIsOpen'
  BY <1>16, FinalEvents DEF TypeOK, WorkerState, GatesInvalid, Yield, Polling, At, append_event
<1>17. ASSUME NEW w \in Workers, UpdateRegistry(w)
      PROVE  BusyIsOpen'
  BY <1>17, FinalEvents DEF TypeOK, WorkerState, UpdateRegistry, Produce, At
<1>18. ASSUME NEW w \in Workers, Sweep(w)
      PROVE  BusyIsOpen'
  BY <1>18, FinalEvents DEF TypeOK, WorkerState, Sweep, WorkOn, At, append_event
<1>19. ASSUME NEW w \in Workers, NEW s \in Stage, RecordResult(w, s)
      PROVE  BusyIsOpen'
  BY <1>19, FinalEvents DEF TypeOK, WorkerState, RecordResult, WorkOn, Goto, At
<1>20. ASSUME NEW w \in Workers, NEW s \in Stage, AppendEvent(w, s)
      PROVE  BusyIsOpen'
  BY <1>20, FinalEvents, EventStageSet, StageSet DEF TypeOK, WorkerState, AppendEvent, Goto, Yield, Polling, At, append_event, Placement
<1>21. ASSUME NEW w \in Workers, NEW s \in Stage, AskApproval(w, s)
      PROVE  BusyIsOpen'
  BY <1>21, FinalEvents DEF TypeOK, WorkerState, AskApproval, Yield, Polling, At, AppendWaiting
<1>22. ASSUME NEW w \in Workers, Close(w)
      PROVE  BusyIsOpen'
  BY <1>22, FinalEvents DEF TypeOK, WorkerState, Close, Yield, Polling, At, append_event
<1>23. ASSUME NEW w \in Workers, NEW s \in Stage, Raise(w, s)
      PROVE  BusyIsOpen'
  BY <1>23, FinalEvents DEF TypeOK, WorkerState, Raise, Down, At
<1>24. ASSUME NEW w \in Workers, Crash(w)
      PROVE  BusyIsOpen'
  BY <1>24, FinalEvents DEF TypeOK, WorkerState, Crash, Down, At
<1>25. ASSUME NEW w \in Workers, Restart(w)
      PROVE  BusyIsOpen'
  BY <1>25, FinalEvents DEF TypeOK, WorkerState, Restart, Yield, Polling, At
<1>26. ASSUME NEW c \in APPROVAL_STEPS, approve(c)
      PROVE  BusyIsOpen'
  BY <1>26, FinalEvents DEF TypeOK, WorkerState, approve, At
<1>27. ASSUME reject
      PROVE  BusyIsOpen'
  BY <1>27, FinalEvents DEF TypeOK, WorkerState, reject, At
<1>28. ASSUME NEW s \in Agents, rerun(s)
      PROVE  BusyIsOpen'
  BY <1>28, FinalEvents DEF TypeOK, WorkerState, rerun, At
<1>29. ASSUME ApiReadIndex
      PROVE  BusyIsOpen'
  BY <1>29, FinalEvents DEF TypeOK, WorkerState, ApiReadIndex, At
<1>30. ASSUME ApiWriteIndex
      PROVE  BusyIsOpen'
  BY <1>30, FinalEvents DEF TypeOK, WorkerState, ApiWriteIndex, At
<1>31. ASSUME ApiAppend
      PROVE  BusyIsOpen'
  BY <1>31, FinalEvents DEF TypeOK, WorkerState, ApiAppend, At, AppendWaiting
<1>32. ASSUME spawn
      PROVE  BusyIsOpen'
  BY <1>32, FinalEvents DEF TypeOK, WorkerState, spawn, At, append_event
<1> QED
  BY <1>1, <1>2, <1>3, <1>4, <1>5, <1>6, <1>7, <1>8, <1>9, <1>10,
     <1>11, <1>12, <1>13, <1>14, <1>15, <1>16, <1>17, <1>18, <1>19, <1>20,
     <1>21, <1>22, <1>23, <1>24, <1>25, <1>26, <1>27, <1>28, <1>29, <1>30,
     <1>31, <1>32
     DEF Next, advance_job_once, Operator

(* A step approves, or leaves evidence of one stage, or appends one event.  *)
LogSame ==
  events' \cap (EventStage \cup Final) = events \cap (EventStage \cup Final)

OneThing ==
  \/ /\ UNCHANGED evidence
     /\ LogSame
     /\ approved' = approved \/ \E c \in APPROVAL_STEPS : approved' = approved \cup {c}
  \/ /\ UNCHANGED approved
     /\ LogSame
     /\ \E s \in Stage : \A t \in Stage \ {s} : evidence'[t] = evidence[t]
  \/ /\ UNCHANGED <<evidence, approved>>
     /\ \E e \in EventStage \cup Final : events' = events \cup {e}

LEMMA OneThingStep ==
  ASSUME TypeOK, Placement, Next
  PROVE  OneThing
<1> USE DEF OneThing, LogSame, Final, OperatorIdle, AppendNothing
<1>1. ASSUME NEW w \in Workers, StopOnBudget(w)
      PROVE  OneThing
  BY <1>1, FinalEvents, StageSet DEF TypeOK, files, StopOnBudget, append_event
<1>2. ASSUME NEW w \in Workers, AskLiveConfirm(w)
      PROVE  OneThing
  BY <1>2, FinalEvents, StageSet DEF TypeOK, files, AskLiveConfirm, AppendWaiting
<1>3. ASSUME NEW w \in Workers, AskSweep(w)
      PROVE  OneThing
  BY <1>3, FinalEvents, StageSet DEF TypeOK, files, AskSweep, AppendWaiting
<1>4. ASSUME NEW w \in Workers, Finish(w)
      PROVE  OneThing
  BY <1>4, FinalEvents, StageSet DEF TypeOK, files, Finish, append_event
<1>5. ASSUME NEW w \in Workers, NEW s \in Stage, Begin(w, s)
      PROVE  OneThing
  BY <1>5, FinalEvents, StageSet DEF TypeOK, files, Begin
<1>6. ASSUME NEW w \in Workers, NEW s \in Agents, CallAgent(w, s)
      PROVE  OneThing
  BY <1>6, FinalEvents, AgentStages, StageSet DEF TypeOK, CallAgent
<1>7. ASSUME NEW w \in Workers, NEW s \in Agents, AgentFails(w, s)
      PROVE  OneThing
  BY <1>7, FinalEvents, StageSet DEF TypeOK, files, AgentFails, append_event
<1>8. ASSUME NEW w \in Workers, MissingDraft(w)
      PROVE  OneThing
  BY <1>8, FinalEvents, StageSet DEF TypeOK, files, MissingDraft, append_event
<1>9. ASSUME NEW w \in Workers, StopOnBlockedAgent(w)
      PROVE  OneThing
  BY <1>9, FinalEvents, StageSet DEF TypeOK, files, StopOnBlockedAgent, append_event
<1>10. ASSUME NEW w \in Workers, AskInvalidOutput(w)
      PROVE  OneThing
  BY <1>10, FinalEvents, StageSet DEF TypeOK, files, AskInvalidOutput, AppendWaiting
<1>11. ASSUME NEW w \in Workers, StopOnInvalidFetch(w)
      PROVE  OneThing
  BY <1>11, FinalEvents, StageSet DEF TypeOK, files, StopOnInvalidFetch, append_event
<1>12. ASSUME NEW w \in Workers, StopOnIterations(w)
      PROVE  OneThing
  BY <1>12, FinalEvents, StageSet DEF TypeOK, files, StopOnIterations, append_event
<1>13. ASSUME NEW w \in Workers, NEW s \in Stage, Execute(w, s)
      PROVE  OneThing
  BY <1>13, FinalEvents, StageSet DEF TypeOK, Execute
<1>14. ASSUME NEW w \in Workers, ExecutionFails(w)
      PROVE  OneThing
  BY <1>14, FinalEvents, StageSet DEF TypeOK, files, ExecutionFails, append_event
<1>15. ASSUME NEW w \in Workers, RunGates(w)
      PROVE  OneThing
  BY <1>15, FinalEvents, StageSet DEF TypeOK, RunGates
<1>16. ASSUME NEW w \in Workers, GatesInvalid(w)
      PROVE  OneThing
  BY <1>16, FinalEvents, StageSet DEF TypeOK, files, GatesInvalid, append_event
<1>17. ASSUME NEW w \in Workers, UpdateRegistry(w)
      PROVE  OneThing
  BY <1>17, FinalEvents, StageSet DEF TypeOK, UpdateRegistry
<1>18. ASSUME NEW w \in Workers, Sweep(w)
      PROVE  OneThing
  BY <1>18, FinalEvents, StageSet DEF TypeOK, Sweep, append_event
<1>19. ASSUME NEW w \in Workers, NEW s \in Stage, RecordResult(w, s)
      PROVE  OneThing
  BY <1>19, FinalEvents, StageSet DEF TypeOK, files, RecordResult
<1>20. ASSUME NEW w \in Workers, NEW s \in Stage, AppendEvent(w, s)
      PROVE  OneThing
  BY <1>20, FinalEvents, EventStageSet, StageSet, StageSet DEF TypeOK, files, AppendEvent, append_event
<1>21. ASSUME NEW w \in Workers, NEW s \in Stage, AskApproval(w, s)
      PROVE  OneThing
  BY <1>21, FinalEvents, StageSet DEF TypeOK, files, AskApproval, AppendWaiting
<1>22. ASSUME NEW w \in Workers, Close(w)
      PROVE  OneThing
  BY <1>22, FinalEvents, StageSet DEF TypeOK, files, Close, append_event
<1>23. ASSUME NEW w \in Workers, NEW s \in Stage, Raise(w, s)
      PROVE  OneThing
  BY <1>23, FinalEvents, StageSet DEF TypeOK, files, Raise
<1>24. ASSUME NEW w \in Workers, Crash(w)
      PROVE  OneThing
  BY <1>24, FinalEvents, StageSet DEF TypeOK, files, Crash
<1>25. ASSUME NEW w \in Workers, Restart(w)
      PROVE  OneThing
  BY <1>25, FinalEvents, StageSet DEF TypeOK, files, Restart
<1>26. ASSUME NEW c \in APPROVAL_STEPS, approve(c)
      PROVE  OneThing
  BY <1>26, FinalEvents, StageSet DEF TypeOK, files, approve
<1>27. ASSUME reject
      PROVE  OneThing
  BY <1>27, FinalEvents, StageSet DEF TypeOK, files, reject
<1>28. ASSUME NEW s \in Agents, rerun(s)
      PROVE  OneThing
  BY <1>28, FinalEvents, StageSet DEF TypeOK, files, rerun
<1>29. ASSUME ApiReadIndex
      PROVE  OneThing
  BY <1>29, FinalEvents, StageSet DEF TypeOK, files, ApiReadIndex
<1>30. ASSUME ApiWriteIndex
      PROVE  OneThing
  BY <1>30, FinalEvents, StageSet DEF TypeOK, files, ApiWriteIndex
<1>31. ASSUME ApiAppend
      PROVE  OneThing
  BY <1>31, FinalEvents, StageSet DEF TypeOK, files, ApiAppend, AppendWaiting
<1>32. ASSUME spawn
      PROVE  OneThing
  BY <1>32, FinalEvents, StageSet DEF TypeOK, files, spawn, append_event
<1> QED
  BY <1>1, <1>2, <1>3, <1>4, <1>5, <1>6, <1>7, <1>8, <1>9, <1>10,
     <1>11, <1>12, <1>13, <1>14, <1>15, <1>16, <1>17, <1>18, <1>19, <1>20,
     <1>21, <1>22, <1>23, <1>24, <1>25, <1>26, <1>27, <1>28, <1>29, <1>30,
     <1>31, <1>32
     DEF Next, advance_job_once, Operator

LEMMA PipelineInit == Init => Pipeline!Init
  BY DEF Init, Pipeline!Init, Open

LEMMA PipelineStep ==
  ASSUME IInv, BusyIsOpen, Next
  PROVE  Pipeline!Next \/ UNCHANGED Pipeline!vars
<1>1. OneThing /\ LogGrows /\ EvidenceGrows
  BY OneThingStep, LogStep, EvidenceStep DEF IInv
<1>2. CASE /\ UNCHANGED evidence
           /\ LogSame
           /\ approved' = approved \/ \E c \in APPROVAL_STEPS : approved' = approved \cup {c}
  <2>1. (events \cap EventStage)' = events \cap EventStage /\ Open' = Open
    BY <1>2 DEF LogSame, Open
  <2> QED
    BY <1>2, <2>1 DEF Pipeline!Next, Pipeline!Approve, Pipeline!vars
<1>3. CASE /\ UNCHANGED approved
           /\ LogSame
           /\ \E s \in Stage : \A t \in Stage \ {s} : evidence'[t] = evidence[t]
  <2>1. (events \cap EventStage)' = events \cap EventStage /\ Open' = Open
    BY <1>3 DEF LogSame, Open
  <2>2. PICK s \in Stage : \A t \in Stage \ {s} : evidence'[t] = evidence[t]
    BY <1>3
  <2>3. CASE evidence'[s] = evidence[s]
    BY <1>3, <2>1, <2>2, <2>3 DEF Pipeline!vars
  <2>4. CASE evidence'[s] # evidence[s]
    <3>1. PICK w \in Workers : At(w, "work", {s})
      BY <1>1, <2>4 DEF EvidenceGrows
    <3>2. Open /\ Allowed(s)
      BY <3>1 DEF BusyIsOpen, Busy, At, IInv, Permitted
    <3>3. Pipeline!Perform(s)
      BY <1>1, <1>3, <2>1, <2>2, <2>4, <3>2
         DEF Pipeline!Perform, EvidenceGrows, Allowed, Needed
    <3> QED
      BY <3>3 DEF Pipeline!Next
  <2> QED
    BY <2>3, <2>4
<1>4. CASE /\ UNCHANGED <<evidence, approved>>
           /\ \E e \in EventStage \cup Final : events' = events \cup {e}
  <2>1. PICK e \in EventStage \cup Final : events' = events \cup {e}
    BY <1>4
  <2>2. CASE e \in Final
    BY <1>4, <2>1, <2>2, FinalEvents DEF Pipeline!Next, Pipeline!Close, Open, Final
  <2>3. CASE e \in events
    BY <1>4, <2>1, <2>3 DEF Pipeline!vars, Open
  <2>4. CASE e \in EventStage /\ e \notin events
    <3>1. PICK w \in Workers : worker[w].at = "event" /\ e = Announced(worker[w].stage)
      BY <1>1, <2>1, <2>4 DEF LogGrows
    <3>2. Open /\ Allowed(worker[w].stage)
      BY <3>1 DEF BusyIsOpen, Busy, IInv, Permitted
    <3>3. e = worker[w].stage
      BY <2>4, <3>1, <3>2, RoleAgentsFollow DEF Announced, Allowed
    <3>4. e \in Stage /\ evidence[e] # "none"
      BY <2>4, <3>1, <3>3 DEF IInv, Permitted, EventStage
    <3>5. Open'
      BY <2>1, <2>4, <3>2, FinalEvents DEF Open, Final
    <3>6. Pipeline!Announce(e)
      BY <1>4, <2>1, <2>4, <3>2, <3>4, <3>5 DEF Pipeline!Announce
    <3> QED
      BY <3>4, <3>6 DEF Pipeline!Next
  <2> QED
    BY <2>1, <2>2, <2>3, <2>4
<1> QED
  BY <1>1, <1>2, <1>3, <1>4 DEF OneThing

(* With one worker, whatever crashes, restarts and requests there are, the   *)
(* job is carried out as the pipeline CheckpointPipeline describes.          *)
THEOREM Refinement ==
  ASSUME NEW only, Workers = {only}
  PROVE  Spec => ImplementsPipeline
<1>1. Init => BusyIsOpen
  BY DEF Init, BusyIsOpen, Busy, Polling
<1>2. IInv /\ BusyIsOpen /\ [Next]_vars => BusyIsOpen'
  <2>1. CASE Next
    BY <2>1, BusyStep DEF IInv
  <2>2. CASE UNCHANGED vars
    BY <2>2 DEF vars, files, BusyIsOpen, Busy, Open
  <2> QED
    BY <2>1, <2>2
<1>3. IInv /\ BusyIsOpen /\ [Next]_vars => [Pipeline!Next]_(Pipeline!vars)
  <2>1. CASE Next
    BY <2>1, PipelineStep
  <2>2. CASE UNCHANGED vars
    BY <2>2 DEF vars, files, Pipeline!vars, Open
  <2> QED
    BY <2>1, <2>2
<1> QED
  BY <1>1, <1>2, <1>3, IInvInit, IInvStep, PipelineInit, PTL
     DEF Spec, ImplementsPipeline, Pipeline!Spec

-----------------------------------------------------------------------------
(* The end of a job is final *)

(* What ClosedIsFinal allows a step. *)
Quiet ==
  /\ events' \ events \subseteq {"DONE", "SPAWNED", "STOPPED_BUDGET"}
  /\ UNCHANGED <<evidence, overall, card>>

(* Who is at a stage works on an open job, and who is not needs one to begin. *)
LEMMA ClosedStep ==
  ASSUME IInv, BusyIsOpen, ~Open, Next
  PROVE  Quiet
<1> USE DEF OperatorIdle, AppendNothing, files, append_event, AppendWaiting
<1>1. \A w \in Workers : worker[w].at \notin {"work", "result", "event", "wait"}
  BY DEF BusyIsOpen, Busy
<1>2. ASSUME NEW w \in Workers,
             \/ StopOnBudget(w) \/ AskLiveConfirm(w) \/ AskSweep(w) \/ Finish(w)
             \/ \E s \in Stage : Begin(w, s)
      PROVE  FALSE
  BY <1>2 DEF StopOnBudget, AskLiveConfirm, AskSweep, Finish, Begin, Ready
<1>3. ASSUME NEW w \in Workers,
             \/ \E s \in Agents : CallAgent(w, s) \/ AgentFails(w, s)
             \/ MissingDraft(w) \/ StopOnBlockedAgent(w) \/ AskInvalidOutput(w)
             \/ StopOnInvalidFetch(w) \/ StopOnIterations(w)
      PROVE  FALSE
  BY <1>1, <1>3 DEF CallAgent, AgentFails, MissingDraft, StopOnBlockedAgent, AskInvalidOutput,
     StopOnInvalidFetch, StopOnIterations, At
<1>4. ASSUME NEW w \in Workers,
             \/ \E s \in Stage : Execute(w, s)
             \/ ExecutionFails(w) \/ RunGates(w) \/ GatesInvalid(w)
             \/ UpdateRegistry(w) \/ Sweep(w)
             \/ \E s \in Stage : RecordResult(w, s) \/ AppendEvent(w, s) \/ AskApproval(w, s)
             \/ \E s \in Stage : Raise(w, s)
      PROVE  FALSE
  BY <1>1, <1>4 DEF Execute, ExecutionFails, RunGates, GatesInvalid, UpdateRegistry, Sweep,
     RecordResult, AppendEvent, AskApproval, Raise, At
<1>5. ASSUME NEW w \in Workers, Close(w) \/ Crash(w) \/ Restart(w) PROVE Quiet
  BY <1>5 DEF Close, Crash, Restart, Quiet
<1>6. CASE Operator
  <2>1. CASE spawn
    BY <2>1 DEF spawn, Quiet
  <2>2. CASE ~spawn
    BY <1>6, <2>2 DEF Operator, approve, reject, rerun, ApiReadIndex, ApiWriteIndex, ApiAppend, Quiet
  <2> QED BY <2>1, <2>2
<1> QED BY <1>2, <1>3, <1>4, <1>5, <1>6 DEF Next, advance_job_once

(* With one worker, once DONE or ERROR is in the log no stage leaves        *)
(* anything: the worker looks at the log whenever it begins a stage, and is *)
(* itself the only one who ends the job.                                   *)
THEOREM EndIsFinal ==
  ASSUME NEW only, Workers = {only}
  PROVE  Spec => ClosedIsFinal
<1>1. Init => BusyIsOpen
  BY DEF Init, BusyIsOpen, Busy, Polling
<1>2. IInv /\ BusyIsOpen /\ [Next]_vars => BusyIsOpen'
  <2>1. CASE Next
    BY <2>1, BusyStep DEF IInv
  <2>2. CASE UNCHANGED vars
    BY <2>2 DEF vars, files, BusyIsOpen, Busy, Open
  <2> QED
    BY <2>1, <2>2
<1>3. IInv /\ BusyIsOpen /\ [Next]_vars =>
        [~Open => /\ events' \ events \subseteq {"DONE", "SPAWNED", "STOPPED_BUDGET"}
                  /\ UNCHANGED <<evidence, overall, card>>]_vars
  BY ClosedStep DEF Quiet
<1> QED
  BY <1>1, <1>2, <1>3, IInvInit, IInvStep, PTL DEF Spec, ClosedIsFinal
=============================================================================
