------------------------------ MODULE LlmBudget ------------------------------
(***************************************************************************)
(* Calls of language models on behalf of jobs and the budget they are held *)
(* to (agents/harness.py run_agent, jobstore/llm_usage.py).                *)
(*                                                                         *)
(* A call is preceded by a look at the job's usage log and followed by an  *)
(* entry in it; nothing locks the log in between.  The callers are the     *)
(* worker, which runs a job's agents in their order, each in a directory   *)
(* of its own, and the threads of the API server that rerun an agent in a  *)
(* fresh directory (api/jobs_api.py).  The threads tell the harness which  *)
(* job pays through a variable of the whole process, EAM_CURRENT_JOB_ID.   *)
(*                                                                         *)
(* Limits known before a call (calls, prompt size) are one here, MaxCalls, *)
(* and so are those known after it (response size, seconds), MaxSize.      *)
(***************************************************************************)
EXTENDS AgentOutputs, Naturals, FiniteSets

CONSTANTS
  Jobs,
  Worker,        \* the worker process
  Threads,       \* threads of the API server
  AgentOrder,    \* the agents of a job, in the order of the worker
  RerunAgents,   \* agents the operator reruns
  MaxCalls,      \* max_calls_per_job
  MaxSize,       \* max_response_chars_per_job, in units of Sizes
  Sizes,         \* how large an answer can be
  None,          \* EAM_CURRENT_JOB_ID is not set
  MaxFaults,     \* processes killed and calls failed
  MaxReruns      \* reruns requested

Callers == {Worker} \cup Threads
Agents == {AgentOrder[i] : i \in DOMAIN AgentOrder}

ASSUME CallersAssumption == Worker \notin Threads /\ IsFiniteSet(Threads)
ASSUME LimitsAssumption == MaxCalls \in Nat /\ MaxSize \in Nat /\ Sizes \subseteq Nat
ASSUME AgentsAssumption == AgentOrder \in Seq(AgentId) /\ RerunAgents \subseteq AgentId
ASSUME NoneAssumption == None \notin Jobs

(* Agents whose budget stop ends the job; the result of the others is not   *)
(* looked at.  The demo agent follows the backtest agent in the same block. *)
Guarded == {"intent", "strategy_spec", "report", "improvement"}
SameBlock == {"demo"}

(* The output directories: the worker's and those of reruns. *)
JobDir == Jobs \X Agents
Dir == JobDir \cup Threads

ASSUME DirAssumption == Threads \cap JobDir = {}

VARIABLES
  usage,    \* per job, what llm_usage_events.jsonl adds up to
  report,   \* per job, "stopped" in llm_usage_report.json
  files,    \* per directory, which call each output file is from; 0: none
  calls,    \* per directory, the last call in llm_calls.jsonl
  guard,    \* per directory, the call the guard report and session are about
  run,      \* per directory, agent_run.json
  attempt,  \* per directory, calls made from there
  closed,   \* jobs the worker has given up
  env,      \* EAM_CURRENT_JOB_ID in the server
  caller,   \* where each caller is
  sent,     \* calls made at the expense of a job
  lost,     \* those of them that will never be in its log
  faults,
  reruns

dirs == <<files, calls, guard, run, attempt>>
ledger == <<usage, report>>
account == <<sent, lost>>
bounds == <<faults, reruns>>
vars == <<ledger, dirs, closed, env, caller, account, bounds>>

Place == {"env", "resolve", "check", "blocked", "call", "write", "evidence",
          "guard", "total", "bill", "read", "report", "run", "restore"}
Idle == [at |-> "idle"]
Busy == [at : Place, dir : Dir, job : Jobs, agent : AgentId,
         prev : Jobs \cup {None}, bill : Jobs, next : Nat, size : Nat,
         over : BOOLEAN, blocked : BOOLEAN]

Usage == [calls : Nat, size : Nat, stop : BOOLEAN]
Blank(a) == [i \in DOMAIN OutputFiles[a] |-> 0]

TypeOK ==
  /\ usage \in [Jobs -> Usage]
  /\ report \in [Jobs -> BOOLEAN]
  /\ files \in [Dir -> Seq(Nat)]
  /\ \A d \in JobDir : Len(files[d]) = Len(OutputFiles[d[2]])
  /\ calls \in [Dir -> Nat]
  /\ guard \in [Dir -> Nat]
  /\ run \in [Dir -> {"none", "done", "stopped"}]
  /\ attempt \in [Dir -> Nat]
  /\ closed \subseteq Jobs
  /\ env \in Jobs \cup {None}
  /\ caller \in [Callers -> Busy \cup {Idle}]
  /\ sent \in [Jobs -> Nat]
  /\ lost \in [Jobs -> Nat]
  /\ faults \in Nat
  /\ reruns \in Nat

Init ==
  /\ usage = [j \in Jobs |-> [calls |-> 0, size |-> 0, stop |-> FALSE]]
  /\ report = [j \in Jobs |-> FALSE]
  /\ files = [d \in Dir |-> IF d \in JobDir THEN Blank(d[2]) ELSE <<>>]
  /\ calls = [d \in Dir |-> 0]
  /\ guard = [d \in Dir |-> 0]
  /\ run = [d \in Dir |-> "none"]
  /\ attempt = [d \in Dir |-> 0]
  /\ closed = {}
  /\ env = None
  /\ caller = [c \in Callers |-> Idle]
  /\ sent = [j \in Jobs |-> 0]
  /\ lost = [j \in Jobs |-> 0]
  /\ faults = 0
  /\ reruns = 0

-----------------------------------------------------------------------------
At(c, place) == caller[c].at = place
Goto(c, place) == caller' = [caller EXCEPT ![c] = [@ EXCEPT !.at = place]]

(* Where a caller goes when run_agent is left. *)
Leave(c) == IF c = Worker THEN Idle ELSE [caller[c] EXCEPT !.at = "restore"]

Request(d, j, a, place) ==
  [at |-> place, dir |-> d, job |-> j, agent |-> a, prev |-> env, bill |-> j,
   next |-> 1, size |-> 0, over |-> FALSE, blocked |-> FALSE]

(* The worker comes to the next agent of the job without an agent_run.json. *)
(* The report is looked at at the head of the loop, not within a block.     *)
BeginAgent(j, i) ==
  /\ At(Worker, "idle")
  /\ i \in DOMAIN AgentOrder
  /\ j \notin closed
  /\ report[j] => AgentOrder[i] \in SameBlock
  /\ run[<<j, AgentOrder[i]>>] = "none"
  /\ \A k \in 1..(i - 1) : run[<<j, AgentOrder[k]>>] # "none"
  /\ caller' = [caller EXCEPT ![Worker] =
       Request(<<j, AgentOrder[i]>>, j, AgentOrder[i], "resolve")]
  /\ UNCHANGED <<ledger, dirs, closed, env, account, bounds>>

(* The input of the agent that is run again is there. *)
HasInput(j, a) ==
  \/ a = "intent"
  \/ /\ a \in Agents
     /\ run[<<j, a>>] # "none" \/ attempt[<<j, a>>] > 0

(* The handler remembers the variable, sets it ... *)
rerun(t, j, a) ==
  /\ At(t, "idle")
  /\ reruns < MaxReruns
  /\ HasInput(j, a)
  /\ reruns' = reruns + 1
  /\ caller' = [caller EXCEPT ![t] = Request(t, j, a, "env")]
  /\ files' = [files EXCEPT ![t] = Blank(a)]
  /\ calls' = [calls EXCEPT ![t] = 0]
  /\ guard' = [guard EXCEPT ![t] = 0]
  /\ run' = [run EXCEPT ![t] = "none"]
  /\ attempt' = [attempt EXCEPT ![t] = 0]
  /\ UNCHANGED <<ledger, closed, env, account, faults>>

SetEnv(t) ==
  /\ At(t, "env")
  /\ env' = caller[t].job
  /\ Goto(t, "resolve")
  /\ UNCHANGED <<ledger, dirs, closed, account, bounds>>

(* ... and in the end puts back what it remembered. *)
RestoreEnv(t) ==
  /\ At(t, "restore")
  /\ env' = caller[t].prev
  /\ caller' = [caller EXCEPT ![t] = Idle]
  /\ UNCHANGED <<ledger, dirs, closed, account, bounds>>

(* _current_job_id: the variable, or else the directory tells the job. *)
Resolve(c) ==
  /\ At(c, "resolve")
  /\ caller' = [caller EXCEPT ![c] = [@ EXCEPT !.at = "check",
       !.bill = IF c = Worker \/ env = None THEN caller[c].bill ELSE env]]
  /\ UNCHANGED <<ledger, dirs, closed, env, account, bounds>>

-----------------------------------------------------------------------------
(* Before the call *)

(* Slip: one call too many. *)
PreCheckUsed(c) ==
  /\ At(c, "check")
  /\ Goto(c, IF usage[caller[c].bill].calls > MaxCalls THEN "blocked" ELSE "call")
  /\ UNCHANGED <<ledger, dirs, closed, env, account, bounds>>

PreCheck(c) ==
  /\ At(c, "check")
  /\ Goto(c, IF usage[caller[c].bill].calls + 1 > MaxCalls THEN "blocked" ELSE "call")
  /\ UNCHANGED <<ledger, dirs, closed, env, account, bounds>>

(* BUDGET_BLOCKED_PRECALL, and budget_stop.json in place of an answer. *)
RecordBlocked(c) ==
  /\ At(c, "blocked")
  /\ usage' = [usage EXCEPT ![caller[c].bill].stop = TRUE]
  /\ caller' = [caller EXCEPT ![c] = [@ EXCEPT !.at = "read", !.blocked = TRUE]]
  /\ UNCHANGED <<report, dirs, closed, env, account, bounds>>

(* The answer comes. *)
Call(c) ==
  /\ At(c, "call")
  /\ \E s \in Sizes :
       caller' = [caller EXCEPT ![c] =
         [@ EXCEPT !.at = "write", !.size = s, !.next = 1]]
  /\ attempt' = [attempt EXCEPT ![caller[c].dir] = @ + 1]
  /\ sent' = [sent EXCEPT ![caller[c].bill] = @ + 1]
  /\ UNCHANGED <<ledger, files, calls, guard, run, closed, env, lost, bounds>>

(* Or it does not, or does not validate: run_agent raises and nothing is    *)
(* recorded of the call.  The worker closes the job, a rerun answers 500.   *)
CallFails(c) ==
  /\ At(c, "call")
  /\ faults < MaxFaults
  /\ faults' = faults + 1
  /\ attempt' = [attempt EXCEPT ![caller[c].dir] = @ + 1]
  /\ sent' = [sent EXCEPT ![caller[c].bill] = @ + 1]
  /\ lost' = [lost EXCEPT ![caller[c].bill] = @ + 1]
  /\ closed' = IF c = Worker THEN closed \cup {caller[c].job} ELSE closed
  /\ caller' = [caller EXCEPT ![c] = Leave(c)]
  /\ UNCHANGED <<ledger, files, calls, guard, run, env, reruns>>

-----------------------------------------------------------------------------
(* The evidence of the call *)

LastFile(c) == caller[c].next = Len(OutputFiles[caller[c].agent])
WriteNext(c) ==
  caller' = [caller EXCEPT ![c] =
    [@ EXCEPT !.at = IF LastFile(c) THEN "evidence" ELSE "write",
              !.next = caller[c].next + 1]]

(* Slip: a file an earlier attempt has left is kept. *)
WriteMissingOutput(c) ==
  /\ At(c, "write")
  /\ LET d == caller[c].dir IN
       files' = [files EXCEPT ![d][caller[c].next] = IF @ = 0 THEN attempt[d] ELSE @]
  /\ WriteNext(c)
  /\ UNCHANGED <<ledger, calls, guard, run, attempt, closed, env, account, bounds>>

(* Slip: files are added to those of an earlier attempt. *)
AddOutput(c) ==
  /\ At(c, "write")
  /\ LET d == caller[c].dir IN files' = [files EXCEPT ![d] = Append(@, attempt[d])]
  /\ WriteNext(c)
  /\ UNCHANGED <<ledger, calls, guard, run, attempt, closed, env, account, bounds>>

WriteOutput(c) ==
  /\ At(c, "write")
  /\ LET d == caller[c].dir IN
       files' = [files EXCEPT ![d][caller[c].next] = attempt[d]]
  /\ WriteNext(c)
  /\ UNCHANGED <<ledger, calls, guard, run, attempt, closed, env, account, bounds>>

AppendCall(c) ==
  /\ At(c, "evidence")
  /\ calls' = [calls EXCEPT ![caller[c].dir] = attempt[caller[c].dir]]
  /\ Goto(c, "guard")
  /\ UNCHANGED <<ledger, files, guard, run, attempt, closed, env, account, bounds>>

(* output_guard_report.json, llm_session.json *)
WriteGuardReport(c) ==
  /\ At(c, "guard")
  /\ guard' = [guard EXCEPT ![caller[c].dir] = attempt[caller[c].dir]]
  /\ Goto(c, "total")
  /\ UNCHANGED <<ledger, files, calls, run, attempt, closed, env, account, bounds>>

-----------------------------------------------------------------------------
(* After the call *)

(* Would this call exceed a limit, given the log as it is now? *)
ReadTotals(c) ==
  /\ At(c, "total")
  /\ LET u == usage[caller[c].bill] IN
       caller' = [caller EXCEPT ![c] = [@ EXCEPT !.at = "bill",
         !.over = u.calls + 1 > MaxCalls \/ u.size + caller[c].size > MaxSize]]
  /\ UNCHANGED <<ledger, dirs, closed, env, account, bounds>>

(* Slip: a call is only worth an entry when it exceeds a limit. *)
BillExcess(c) ==
  /\ At(c, "bill")
  /\ usage' = [usage EXCEPT ![caller[c].bill] =
       IF caller[c].over
       THEN [calls |-> @.calls + 1, size |-> @.size + caller[c].size, stop |-> TRUE]
       ELSE @]
  /\ Goto(c, "read")
  /\ UNCHANGED <<report, dirs, closed, env, account, bounds>>

(* CALL_COMPLETED *)
Bill(c) ==
  /\ At(c, "bill")
  /\ usage' = [usage EXCEPT ![caller[c].bill] =
       [calls |-> @.calls + 1, size |-> @.size + caller[c].size,
        stop |-> @.stop \/ caller[c].over]]
  /\ Goto(c, "read")
  /\ UNCHANGED <<report, dirs, closed, env, account, bounds>>

(* build_usage_report reads the log ... *)
ReadUsage(c) ==
  /\ At(c, "read")
  /\ caller' = [caller EXCEPT ![c] = [@ EXCEPT !.at = "report",
       !.over = usage[caller[c].bill].stop]]
  /\ UNCHANGED <<ledger, dirs, closed, env, account, bounds>>

(* ... and the report replaces the one that is there.  Of two callers that  *)
(* write llm_usage_report.json.tmp one may find it renamed away and fail.   *)
WriteReport(c) ==
  /\ At(c, "report")
  /\ report' = [report EXCEPT ![caller[c].bill] = caller[c].over]
  /\ \E losers \in SUBSET {d \in Callers \ {c} :
                             At(d, "report") /\ caller[d].bill = caller[c].bill} :
       /\ caller' = [d \in Callers |->
            CASE d = c         -> [caller[d] EXCEPT !.at = "run"]
              [] d \in losers  -> Leave(d)
              [] OTHER         -> caller[d]]
       /\ closed' = IF Worker \in losers THEN closed \cup {caller[Worker].job} ELSE closed
  /\ UNCHANGED <<usage, dirs, env, account, bounds>>

WriteRun(c) ==
  /\ At(c, "run")
  /\ run' = [run EXCEPT ![caller[c].dir] = IF caller[c].blocked THEN "stopped" ELSE "done"]
  /\ closed' = IF c = Worker /\ caller[c].blocked /\ caller[c].agent \in Guarded
               THEN closed \cup {caller[c].job} ELSE closed
  /\ caller' = [caller EXCEPT ![c] = Leave(c)]
  /\ UNCHANGED <<ledger, files, calls, guard, attempt, env, account, bounds>>

-----------------------------------------------------------------------------
(* Has the caller made a call that is not in the log yet? *)
Unbilled(c) == caller[c].at \in {"write", "evidence", "guard", "total", "bill"}
UnbilledTo(j, C) == {c \in C : Unbilled(c) /\ caller[c].bill = j}

Kill(C) ==
  /\ faults < MaxFaults
  /\ faults' = faults + 1
  /\ \E c \in C : ~At(c, "idle")
  /\ caller' = [c \in Callers |-> IF c \in C THEN Idle ELSE caller[c]]
  /\ lost' = [j \in Jobs |-> lost[j] + Cardinality(UnbilledTo(j, C))]
  /\ UNCHANGED <<ledger, dirs, closed, sent, reruns>>

KillWorker == Kill({Worker}) /\ UNCHANGED env
KillServer == Kill(Threads) /\ env' = None

run_agent(c) ==
  \/ Resolve(c) \/ PreCheck(c) \/ RecordBlocked(c) \/ Call(c) \/ CallFails(c)
  \/ WriteOutput(c) \/ AppendCall(c) \/ WriteGuardReport(c) \/ ReadTotals(c)
  \/ Bill(c) \/ ReadUsage(c) \/ WriteReport(c) \/ WriteRun(c)

Next ==
  \/ \E j \in Jobs, i \in DOMAIN AgentOrder : BeginAgent(j, i)
  \/ \E t \in Threads, j \in Jobs, a \in RerunAgents : rerun(t, j, a)
  \/ \E t \in Threads : SetEnv(t) \/ RestoreEnv(t)
  \/ \E c \in Callers : run_agent(c)
  \/ KillWorker
  \/ KillServer

Spec == Init /\ [][Next]_vars

-----------------------------------------------------------------------------
(* Properties *)

(* However the worker, reruns, failures and crashes interleave: the calls   *)
(* in a job's log stay below the limit plus one for every other caller that *)
(* may have been past the check, and every call made is in the log, on its  *)
(* way there, or was lost with its process or its provider (harness.py      *)
(* 279-287, 1096-1129).                                                     *)
CallsWithinBudget ==
  \A j \in Jobs :
    /\ usage[j].calls + Cardinality(UnbilledTo(j, Callers))
         <= MaxCalls + Cardinality(Threads)
    /\ sent[j] = usage[j].calls + lost[j] + Cardinality(UnbilledTo(j, Callers))

(* No result of an agent without its bill: the job's log has at least as    *)
(* many calls as the job has finished agents, and an agent is only recorded *)
(* as stopped when the log says that the budget stopped it - after crashes  *)
(* and repeated attempts, too (harness.py 209-217, 1113-1159).              *)
NoFreeRun ==
  \A j \in Jobs :
    /\ Cardinality({a \in Agents : run[<<j, a>>] = "done"}) <= usage[j].calls
    /\ (\E a \in Agents : run[<<j, a>>] = "stopped") => usage[j].stop

(* What agent_run.json refers to - every output file, the guard report and  *)
(* the last entry of llm_calls.jsonl - is of one and the same call, also    *)
(* when an earlier attempt was killed half way through its files.           *)
OutputsOfOneCall ==
  \A d \in Dir : run[d] = "done" =>
    /\ calls[d] > 0
    /\ guard[d] = calls[d]
    /\ \A i \in DOMAIN files[d] : files[d][i] = calls[d]
=============================================================================
