--------------------------- MODULE LlmBudgetProofs ---------------------------
(***************************************************************************)
(* Proofs about LlmBudget, for every set of jobs and server threads, all   *)
(* limits, any number of failures, kills and reruns.                       *)
(***************************************************************************)
EXTENDS LlmBudget, FiniteSetTheorems, TLAPS

-----------------------------------------------------------------------------
(* Types *)

(* Every agent leaves at least one file. *)
LEMMA OutputFilesType ==
  ASSUME NEW a \in AgentId
  PROVE  /\ Len(OutputFiles[a]) \in Nat /\ Len(OutputFiles[a]) >= 1
         /\ DOMAIN OutputFiles[a] = 1..Len(OutputFiles[a])
<1> DEFINE Fine(s) == Len(s) \in Nat /\ Len(s) >= 1 /\ DOMAIN s = 1..Len(s)
<1>1. Fine(intent_agent) /\ Fine(demo_agent) /\ Fine(backtest_agent) /\ Fine(diagnostics_agent)
  BY DEF intent_agent, demo_agent, backtest_agent, diagnostics_agent
<1>2. Fine(registry_curator) /\ Fine(composer_agent) /\ Fine(improvement_agent)
  BY DEF registry_curator, composer_agent, improvement_agent
<1>3. Fine(spec_qa_agent) /\ Fine(report_agent)
  BY DEF spec_qa_agent, report_agent
<1>4. Fine(strategy_spec_agent)
  BY DEF strategy_spec_agent
<1> HIDE DEF Fine
<1>5. Fine(OutputFiles[a])
  BY <1>1, <1>2, <1>3, <1>4 DEF AgentId, OutputFiles
<1> QED BY <1>5 DEF Fine

(* A directory that has just been made has none of them. *)
LEMMA BlankType ==
  ASSUME NEW a \in AgentId
  PROVE  /\ Blank(a) \in Seq(Nat) /\ Len(Blank(a)) = Len(OutputFiles[a])
<1>1. /\ Len(OutputFiles[a]) \in Nat
      /\ Blank(a) = [i \in 1..Len(OutputFiles[a]) |-> 0]
  BY OutputFilesType DEF Blank
<1> QED BY <1>1

(* A caller that is somewhere has a request. *)
LEMMA Working ==
  ASSUME TypeOK, NEW c \in Callers, caller[c].at \in Place
  PROVE  caller[c] \in Busy /\ caller[c] # Idle
BY DEF TypeOK, Idle, Place

(* A caller that is not idle has a request and a place. *)
LEMMA IsWorking ==
  ASSUME TypeOK, NEW c \in Callers, caller[c].at # "idle"
  PROVE  caller[c] \in Busy /\ caller[c].at \in Place
BY DEF TypeOK, Idle, Busy

(* Where a caller is after run_agent. *)
LEMMA LeaveType ==
  ASSUME NEW c \in Callers, caller[c] \in Busy
  PROVE  /\ Leave(c) \in Busy \cup {Idle}
         /\ Leave(c) = IF c = Worker THEN Idle ELSE [caller[c] EXCEPT !.at = "restore"]
BY DEF Leave, Busy, Place

(* A step of c leaves the other callers where they are. *)
Others(c) == \A d \in Callers \ {c} : caller'[d] = caller[d]

(* A step that changes one caller changes no other. *)
LEMMA CallerStep ==
  ASSUME TypeOK, NEW c \in Callers, NEW r \in Busy \cup {Idle},
         caller' = [caller EXCEPT ![c] = r]
  PROVE  /\ caller' \in [Callers -> Busy \cup {Idle}]
         /\ caller'[c] = r
         /\ Others(c)
BY DEF TypeOK, Others

(* A caller that goes on keeps the rest of its request. *)
LEMMA GotoStep ==
  ASSUME TypeOK, NEW c \in Callers, caller[c].at \in Place, NEW place \in Place, Goto(c, place)
  PROVE  /\ caller' \in [Callers -> Busy \cup {Idle}]
         /\ caller'[c] = [caller[c] EXCEPT !.at = place]
         /\ caller'[c] \in Busy
         /\ Others(c)
<1>1. caller[c] \in Busy
  BY Working
<1>2. [caller[c] EXCEPT !.at = place] \in Busy
  BY <1>1 DEF Busy
<1> QED BY <1>2, CallerStep DEF Goto

(* What each step of run_agent makes of its caller. *)
After(c, r) == caller'[c] = r /\ r \in Busy /\ caller[c] \in Busy /\ Others(c)

(* The job is settled: the one asked for, or the variable of the process. *)
LEMMA ResolveStep ==
  ASSUME TypeOK, NEW c \in Callers, Resolve(c)
  PROVE  /\ caller' \in [Callers -> Busy \cup {Idle}]
         /\ After(c, [caller[c] EXCEPT !.at = "check",
                        !.bill = IF c = Worker \/ env = None THEN caller[c].bill ELSE env])
<1> DEFINE r == [caller[c] EXCEPT !.at = "check",
                   !.bill = IF c = Worker \/ env = None THEN caller[c].bill ELSE env]
<1>1. caller[c] \in Busy
  BY Working DEF Resolve, At, Place
<1>2. (IF c = Worker \/ env = None THEN caller[c].bill ELSE env) \in Jobs
  BY <1>1 DEF TypeOK, Busy
<1>3. r \in Busy
  BY <1>1, <1>2 DEF Busy, Place
<1>4. caller' = [caller EXCEPT ![c] = r]
  BY DEF Resolve
<1> HIDE DEF r
<1>5. caller' \in [Callers -> Busy \cup {Idle}] /\ caller'[c] = r /\ Others(c)
  BY <1>3, <1>4, CallerStep
<1> QED BY <1>1, <1>3, <1>5 DEF After, r

(* A blocked caller goes on to the report, marked as blocked. *)
LEMMA BlockedStep ==
  ASSUME TypeOK, NEW c \in Callers, RecordBlocked(c)
  PROVE  /\ caller' \in [Callers -> Busy \cup {Idle}]
         /\ After(c, [caller[c] EXCEPT !.at = "read", !.blocked = TRUE])
<1>1. caller[c] \in Busy
  BY Working DEF RecordBlocked, At, Place
<1>2. [caller[c] EXCEPT !.at = "read", !.blocked = TRUE] \in Busy
  BY <1>1 DEF Busy, Place
<1> QED BY <1>1, <1>2, CallerStep DEF RecordBlocked, After

(* After the answer the first file is to be written. *)
LEMMA CallStep ==
  ASSUME TypeOK, NEW c \in Callers, Call(c)
  PROVE  /\ caller' \in [Callers -> Busy \cup {Idle}]
         /\ \E s \in Sizes :
              After(c, [caller[c] EXCEPT !.at = "write", !.size = s, !.next = 1])
<1>1. caller[c] \in Busy
  BY Working DEF Call, At, Place
<1>2. PICK s \in Sizes :
        caller' = [caller EXCEPT ![c] = [caller[c] EXCEPT !.at = "write", !.size = s, !.next = 1]]
  BY DEF Call
<1>3. [caller[c] EXCEPT !.at = "write", !.size = s, !.next = 1] \in Busy
  BY <1>1, LimitsAssumption DEF Busy, Place
<1> QED BY <1>1, <1>2, <1>3, CallerStep DEF After

(* After the last file comes the evidence, before it the next file. *)
LEMMA WriteStep ==
  ASSUME TypeOK, NEW c \in Callers, WriteOutput(c)
  PROVE  /\ caller' \in [Callers -> Busy \cup {Idle}]
         /\ After(c, [caller[c] EXCEPT !.at = IF LastFile(c) THEN "evidence" ELSE "write",
                        !.next = caller[c].next + 1])
<1> DEFINE place == IF LastFile(c) THEN "evidence" ELSE "write"
           r == [caller[c] EXCEPT !.at = place, !.next = caller[c].next + 1]
<1>1. caller[c] \in Busy
  BY Working DEF WriteOutput, At, Place
<1>2. r \in Busy
  <2>1. place \in Place
    BY DEF Place
  <2>2. caller[c].next + 1 \in Nat
    BY <1>1 DEF Busy
  <2> HIDE DEF place
  <2> QED BY <1>1, <2>1, <2>2 DEF Busy
<1>3. caller' = [caller EXCEPT ![c] = r]
  BY DEF WriteOutput, WriteNext
<1> HIDE DEF r
<1>4. caller' \in [Callers -> Busy \cup {Idle}] /\ caller'[c] = r /\ Others(c)
  BY <1>2, <1>3, CallerStep
<1> QED BY <1>1, <1>2, <1>4 DEF After, r

(* Reading the totals leaves a verdict. *)
LEMMA TotalsStep ==
  ASSUME TypeOK, NEW c \in Callers, ReadTotals(c)
  PROVE  /\ caller' \in [Callers -> Busy \cup {Idle}]
         /\ \E o \in BOOLEAN : After(c, [caller[c] EXCEPT !.at = "bill", !.over = o])
<1>1. caller[c] \in Busy
  BY Working DEF ReadTotals, At, Place
<1>2. PICK o \in BOOLEAN :
        caller' = [caller EXCEPT ![c] = [caller[c] EXCEPT !.at = "bill", !.over = o]]
  BY DEF ReadTotals
<1>3. [caller[c] EXCEPT !.at = "bill", !.over = o] \in Busy
  BY <1>1 DEF Busy, Place
<1> QED BY <1>1, <1>2, <1>3, CallerStep DEF After

(* Reading the log leaves a verdict. *)
LEMMA ReadStep ==
  ASSUME TypeOK, NEW c \in Callers, ReadUsage(c)
  PROVE  /\ caller' \in [Callers -> Busy \cup {Idle}]
         /\ \E o \in BOOLEAN : After(c, [caller[c] EXCEPT !.at = "report", !.over = o])
<1>1. caller[c] \in Busy
  BY Working DEF ReadUsage, At, Place
<1>2. caller[c].bill \in Jobs
  BY <1>1 DEF Busy
<1>3. usage[caller[c].bill].stop \in BOOLEAN
  BY <1>2 DEF TypeOK, Usage
<1>4. PICK o \in BOOLEAN :
        caller' = [caller EXCEPT ![c] = [caller[c] EXCEPT !.at = "report", !.over = o]]
  BY <1>3 DEF ReadUsage
<1>5. [caller[c] EXCEPT !.at = "report", !.over = o] \in Busy
  BY <1>1 DEF Busy, Place
<1> QED BY <1>1, <1>4, <1>5, CallerStep DEF After

(* The report is replaced; others that are replacing it may fail. *)
LEMMA ReportStep ==
  ASSUME TypeOK, NEW c \in Callers, WriteReport(c)
  PROVE  /\ caller' \in [Callers -> Busy \cup {Idle}]
         /\ caller[c] \in Busy
         /\ caller'[c] = [caller[c] EXCEPT !.at = "run"]
         /\ \A d \in Callers \ {c} :
              \/ caller'[d] = caller[d]
              \/ At(d, "report") /\ caller[d] \in Busy /\ caller'[d] = Leave(d)
         /\ closed' \in {closed, closed \cup {caller[Worker].job}}
         /\ closed' # closed => At(Worker, "report")
<1>1. PICK losers \in SUBSET {d \in Callers \ {c} :
                                At(d, "report") /\ caller[d].bill = caller[c].bill} :
        /\ caller' = [d \in Callers |->
             CASE d = c         -> [caller[d] EXCEPT !.at = "run"]
               [] d \in losers  -> Leave(d)
               [] OTHER         -> caller[d]]
        /\ closed' = IF Worker \in losers THEN closed \cup {caller[Worker].job} ELSE closed
  BY DEF WriteReport
<1>2. caller[c] \in Busy /\ \A d \in losers : d \in Callers /\ At(d, "report") /\ caller[d] \in Busy
  BY Working DEF WriteReport, At, Place
<1>3. [caller[c] EXCEPT !.at = "run"] \in Busy
  BY <1>2 DEF Busy, Place
<1>4. ASSUME NEW d \in Callers PROVE caller'[d] \in Busy \cup {Idle}
  <2>1. CASE d = c
    BY <1>1, <1>3, <2>1
  <2>2. CASE d # c /\ d \in losers
    BY <1>1, <1>2, <2>2, LeaveType
  <2>3. CASE d # c /\ d \notin losers
    BY <1>1, <2>3 DEF TypeOK
  <2> QED BY <2>1, <2>2, <2>3
<1> QED BY <1>1, <1>2, <1>4

(* A caller leaves run_agent at its end, or by an exception. *)
LEMMA LeaveStep ==
  ASSUME TypeOK, NEW c \in Callers, WriteRun(c) \/ CallFails(c)
  PROVE  /\ caller' \in [Callers -> Busy \cup {Idle}]
         /\ caller[c] \in Busy /\ caller'[c] = Leave(c) /\ Others(c)
<1>1. caller[c] \in Busy
  BY Working DEF WriteRun, CallFails, At, Place
<1>2. Leave(c) \in Busy \cup {Idle}
  BY <1>1, LeaveType
<1>3. caller' = [caller EXCEPT ![c] = Leave(c)]
  BY DEF WriteRun, CallFails
<1> QED BY <1>1, <1>2, <1>3, CallerStep

(* What a request is made of. *)
LEMMA RequestType ==
  ASSUME TypeOK, NEW d \in Dir, NEW j \in Jobs, NEW a \in AgentId, NEW place \in Place
  PROVE  Request(d, j, a, place) \in Busy
BY DEF TypeOK, Request, Busy

(* The worker only runs agents the harness knows. *)
LEMMA AgentsAreIds == Agents \subseteq AgentId
BY AgentsAssumption DEF Agents

(* The worker's request is for the directory of the job and the agent. *)
LEMMA BeginStep ==
  ASSUME TypeOK, NEW j \in Jobs, NEW i \in DOMAIN AgentOrder, BeginAgent(j, i)
  PROVE  /\ caller' \in [Callers -> Busy \cup {Idle}]
         /\ AgentOrder[i] \in Agents
         /\ caller'[Worker] = Request(<<j, AgentOrder[i]>>, j, AgentOrder[i], "resolve")
         /\ caller'[Worker] \in Busy
         /\ Others(Worker)
<1>1. AgentOrder[i] \in Agents /\ Worker \in Callers
  BY DEF Agents, Callers
<1>2. Request(<<j, AgentOrder[i]>>, j, AgentOrder[i], "resolve") \in Busy
  BY <1>1, RequestType, AgentsAreIds DEF Dir, JobDir, Place
<1> QED BY <1>1, <1>2, CallerStep DEF BeginAgent

(* A rerun's request is for a directory of its own. *)
LEMMA RerunStep ==
  ASSUME TypeOK, NEW t \in Threads, NEW j \in Jobs, NEW a \in RerunAgents, rerun(t, j, a)
  PROVE  /\ caller' \in [Callers -> Busy \cup {Idle}]
         /\ t \in Callers /\ a \in AgentId
         /\ caller'[t] = Request(t, j, a, "env")
         /\ caller'[t] \in Busy
         /\ Others(t)
<1>1. t \in Callers /\ a \in AgentId
  BY AgentsAssumption DEF Callers
<1>2. Request(t, j, a, "env") \in Busy
  BY <1>1, RequestType DEF Dir, Place
<1> QED BY <1>1, <1>2, CallerStep DEF rerun

(* A killed process forgets its requests. *)
LEMMA KillStep ==
  ASSUME TypeOK, NEW C, C \subseteq Callers, Kill(C)
  PROVE  /\ caller' \in [Callers -> Busy \cup {Idle}]
         /\ \A c \in Callers : caller'[c] = IF c \in C THEN Idle ELSE caller[c]
BY DEF Kill, TypeOK

(* The usual step: c goes on to place. *)
LEMMA MoveStep ==
  ASSUME TypeOK, NEW c \in Callers, NEW place \in Place, Goto(c, place), caller[c].at \in Place
  PROVE  /\ caller' \in [Callers -> Busy \cup {Idle}]
         /\ After(c, [caller[c] EXCEPT !.at = place])
BY GotoStep, Working DEF After

-----------------------------------------------------------------------------
(* Types hold in the beginning ... *)
LEMMA TypeInit == Init => TypeOK
<1> SUFFICES ASSUME Init PROVE TypeOK
  OBVIOUS
<1>1. \A d \in JobDir : d[2] \in AgentId
  BY AgentsAreIds DEF JobDir
<1>2. files \in [Dir -> Seq(Nat)] /\ \A d \in JobDir : Len(files[d]) = Len(OutputFiles[d[2]])
  <2>1. \A d \in JobDir : files[d] = Blank(d[2]) /\ d \in Dir
    BY DEF Init, Dir
  <2>2. \A d \in JobDir : files[d] \in Seq(Nat) /\ Len(files[d]) = Len(OutputFiles[d[2]])
    BY <1>1, <2>1, BlankType
  <2>3. \A d \in Dir \ JobDir : files[d] \in Seq(Nat)
    BY DEF Init
  <2> QED BY <2>2, <2>3 DEF Init
<1>3. usage \in [Jobs -> Usage] /\ caller \in [Callers -> Busy \cup {Idle}]
  BY DEF Init, Usage
<1> QED BY <1>2, <1>3 DEF Init, TypeOK

(* ... and are kept by every step. *)
LEMMA TypeStep == TypeOK /\ [Next]_vars => TypeOK'
<1> SUFFICES ASSUME TypeOK, [Next]_vars PROVE TypeOK'
  OBVIOUS
<1> USE DEF ledger, dirs, account, bounds
<1>1. ASSUME NEW j \in Jobs, NEW i \in DOMAIN AgentOrder, BeginAgent(j, i) PROVE TypeOK'
  <2>1. caller' \in [Callers -> Busy \cup {Idle}]
    BY <1>1, BeginStep
  <2> QED BY <1>1, <2>1 DEF BeginAgent, TypeOK
<1>2. ASSUME NEW t \in Threads, NEW j \in Jobs, NEW a \in RerunAgents, rerun(t, j, a)
      PROVE TypeOK'
  <2>1. caller' \in [Callers -> Busy \cup {Idle}] /\ a \in AgentId
    BY <1>2, RerunStep
  <2>2. Blank(a) \in Seq(Nat) /\ t \notin JobDir
    BY <2>1, BlankType, DirAssumption
  <2>3. files' \in [Dir -> Seq(Nat)] /\ \A d \in JobDir : Len(files'[d]) = Len(OutputFiles[d[2]])
    BY <1>2, <2>2 DEF rerun, TypeOK, Dir
  <2>4. calls' \in [Dir -> Nat] /\ guard' \in [Dir -> Nat] /\ attempt' \in [Dir -> Nat]
    BY <1>2 DEF rerun, TypeOK
  <2>5. run' \in [Dir -> {"none", "done", "stopped"}]
    BY <1>2 DEF rerun, TypeOK
  <2>6. reruns' \in Nat
    BY <1>2 DEF rerun, TypeOK
  <2> QED BY <1>2, <2>1, <2>3, <2>4, <2>5, <2>6 DEF rerun, TypeOK
<1>3. ASSUME NEW c \in Callers, SetEnv(c) PROVE TypeOK'
  <2>1. caller' \in [Callers -> Busy \cup {Idle}] /\ caller[c] \in Busy
    BY <1>3, MoveStep DEF SetEnv, At, Place, After
  <2>2. env' \in Jobs
    BY <1>3, <2>1 DEF SetEnv, Busy
  <2> QED BY <1>3, <2>1, <2>2 DEF SetEnv, TypeOK
<1>4. ASSUME NEW c \in Callers, RestoreEnv(c) PROVE TypeOK'
  <2>1. caller' \in [Callers -> Busy \cup {Idle}] /\ caller[c] \in Busy
    BY <1>4, Working, CallerStep DEF RestoreEnv, At, Place
  <2>2. env' \in Jobs \cup {None}
    BY <1>4, <2>1 DEF RestoreEnv, Busy
  <2> QED BY <1>4, <2>1, <2>2 DEF RestoreEnv, TypeOK
<1>5. ASSUME NEW c \in Callers, Resolve(c) PROVE TypeOK'
  <2>1. caller' \in [Callers -> Busy \cup {Idle}]
    BY <1>5, ResolveStep
  <2> QED BY <1>5, <2>1 DEF Resolve, TypeOK
<1>6. ASSUME NEW c \in Callers, PreCheck(c) PROVE TypeOK'
  <2>1. caller' \in [Callers -> Busy \cup {Idle}]
    BY <1>6, MoveStep DEF PreCheck, At, Place
  <2> QED BY <1>6, <2>1 DEF PreCheck, TypeOK
<1>7. ASSUME NEW c \in Callers, RecordBlocked(c) PROVE TypeOK'
  <2>1. caller' \in [Callers -> Busy \cup {Idle}] /\ caller[c] \in Busy
    BY <1>7, BlockedStep DEF After
  <2>2. usage' \in [Jobs -> Usage]
    <3> DEFINE b == caller[c].bill
    <3>1. b \in Jobs /\ usage \in [Jobs -> Usage]
      BY <2>1 DEF Busy, TypeOK
    <3>2. [usage[b] EXCEPT !.stop = TRUE] \in Usage
      BY <3>1 DEF Usage
    <3>3. usage' = [usage EXCEPT ![b] = [usage[b] EXCEPT !.stop = TRUE]]
      BY <1>7 DEF RecordBlocked
    <3> HIDE DEF b
    <3> QED BY <3>1, <3>2, <3>3
  <2> QED BY <1>7, <2>1, <2>2 DEF RecordBlocked, TypeOK
<1>8. ASSUME NEW c \in Callers, Call(c) PROVE TypeOK'
  <2>1. caller' \in [Callers -> Busy \cup {Idle}] /\ caller[c] \in Busy
    BY <1>8, CallStep DEF After
  <2>2. caller[c].dir \in Dir /\ caller[c].bill \in Jobs
    BY <2>1 DEF Busy
  <2>3. attempt' \in [Dir -> Nat] /\ sent' \in [Jobs -> Nat]
    <3> DEFINE d == caller[c].dir
               b == caller[c].bill
    <3>1. attempt' = [attempt EXCEPT ![d] = attempt[d] + 1] /\ sent' = [sent EXCEPT ![b] = sent[b] + 1]
      BY <1>8 DEF Call
    <3>2. attempt \in [Dir -> Nat] /\ sent \in [Jobs -> Nat] /\ d \in Dir /\ b \in Jobs
      BY <2>2 DEF TypeOK
    <3> HIDE DEF d, b
    <3>3. attempt[d] + 1 \in Nat /\ sent[b] + 1 \in Nat
      BY <3>2
    <3>4. attempt' \in [Dir -> Nat]
      BY <3>1, <3>2, <3>3
    <3>5. sent' \in [Jobs -> Nat]
      BY <3>1, <3>2, <3>3
    <3> QED BY <3>4, <3>5
  <2>4. UNCHANGED <<usage, report, files, calls, guard, run, closed, env, lost, faults>>
    BY <1>8 DEF Call
  <2>5. /\ usage' \in [Jobs -> Usage] /\ report' \in [Jobs -> BOOLEAN] /\ files' \in [Dir -> Seq(Nat)]
        /\ \A d \in JobDir : Len(files'[d]) = Len(OutputFiles[d[2]])
        /\ calls' \in [Dir -> Nat] /\ guard' \in [Dir -> Nat]
        /\ run' \in [Dir -> {"none", "done", "stopped"}]
        /\ closed' \subseteq Jobs /\ env' \in Jobs \cup {None} /\ lost' \in [Jobs -> Nat] /\ faults' \in Nat
    BY <2>4 DEF TypeOK
  <2>6. reruns' \in Nat
    BY <1>8 DEF Call, TypeOK
  <2> QED BY <2>1, <2>3, <2>5, <2>6 DEF TypeOK
<1>9. ASSUME NEW c \in Callers, CallFails(c) PROVE TypeOK'
  <2>1. caller' \in [Callers -> Busy \cup {Idle}] /\ caller[c] \in Busy
    BY <1>9, LeaveStep
  <2>2. caller[c].dir \in Dir /\ caller[c].bill \in Jobs /\ caller[c].job \in Jobs
    BY <2>1 DEF Busy
  <2>3. attempt' \in [Dir -> Nat]
    <3>1. attempt' = [attempt EXCEPT ![caller[c].dir] = @ + 1]
      BY <1>9 DEF CallFails
    <3>2. attempt \in [Dir -> Nat]
      BY DEF TypeOK
    <3> QED BY <2>2, <3>1, <3>2
  <2>4. sent' \in [Jobs -> Nat] /\ lost' \in [Jobs -> Nat]
    <3>1. sent' = [sent EXCEPT ![caller[c].bill] = @ + 1]
      BY <1>9 DEF CallFails
    <3>2. lost' = [lost EXCEPT ![caller[c].bill] = @ + 1]
      BY <1>9 DEF CallFails
    <3>3. sent \in [Jobs -> Nat] /\ lost \in [Jobs -> Nat]
      BY DEF TypeOK
    <3> QED BY <2>2, <3>1, <3>2, <3>3
  <2>5. closed' \subseteq Jobs
    <3>1. closed' \in {closed, closed \cup {caller[c].job}} /\ closed \subseteq Jobs
      BY <1>9 DEF CallFails, TypeOK
    <3> QED BY <2>2, <3>1
  <2>6. faults' \in Nat
    <3>1. faults' = faults + 1
      BY <1>9 DEF CallFails
    <3>2. faults \in Nat
      BY DEF TypeOK
    <3> QED BY <3>1, <3>2
  <2> QED BY <1>9, <2>1, <2>3, <2>4, <2>5, <2>6 DEF CallFails, TypeOK
<1>10. ASSUME NEW c \in Callers, WriteOutput(c) PROVE TypeOK'
  <2>1. caller' \in [Callers -> Busy \cup {Idle}] /\ caller[c] \in Busy
    BY <1>10, WriteStep DEF After
  <2> DEFINE dd == caller[c].dir
             f == [files[dd] EXCEPT ![caller[c].next] = attempt[dd]]
  <2>2. dd \in Dir /\ attempt[dd] \in Nat /\ files[dd] \in Seq(Nat)
    BY <2>1 DEF TypeOK, Busy
  <2>3. f \in Seq(Nat) /\ Len(f) = Len(files[dd])
    <3> DEFINE n == Len(files[dd])
    <3>1. n \in Nat /\ files[dd] \in [1..n -> Nat]
      BY <2>2
    <3>2. f \in [1..n -> Nat]
      BY <2>2, <3>1
    <3> HIDE DEF f, dd, n
    <3> QED BY <3>1, <3>2 DEF n
  <2>4. files' = [files EXCEPT ![dd] = f]
    BY <1>10 DEF WriteOutput
  <2> HIDE DEF f, dd
  <2>5. files' \in [Dir -> Seq(Nat)] /\ \A d \in JobDir : Len(files'[d]) = Len(OutputFiles[d[2]])
    BY <2>2, <2>3, <2>4 DEF TypeOK, Dir
  <2> QED BY <1>10, <2>1, <2>5 DEF WriteOutput, TypeOK
<1>11. ASSUME NEW c \in Callers, AppendCall(c) PROVE TypeOK'
  <2>1. caller' \in [Callers -> Busy \cup {Idle}] /\ caller[c] \in Busy
    BY <1>11, MoveStep DEF AppendCall, At, Place, After
  <2>2. calls' \in [Dir -> Nat]
    BY <1>11, <2>1 DEF AppendCall, TypeOK, Busy
  <2> QED BY <1>11, <2>1, <2>2 DEF AppendCall, TypeOK
<1>12. ASSUME NEW c \in Callers, WriteGuardReport(c) PROVE TypeOK'
  <2>1. caller' \in [Callers -> Busy \cup {Idle}] /\ caller[c] \in Busy
    BY <1>12, MoveStep DEF WriteGuardReport, At, Place, After
  <2>2. guard' \in [Dir -> Nat]
    BY <1>12, <2>1 DEF WriteGuardReport, TypeOK, Busy
  <2> QED BY <1>12, <2>1, <2>2 DEF WriteGuardReport, TypeOK
<1>13. ASSUME NEW c \in Callers, ReadTotals(c) PROVE TypeOK'
  <2>1. caller' \in [Callers -> Busy \cup {Idle}]
    BY <1>13, TotalsStep
  <2> QED BY <1>13, <2>1 DEF ReadTotals, TypeOK
<1>14. ASSUME NEW c \in Callers, Bill(c) PROVE TypeOK'
  <2>1. caller' \in [Callers -> Busy \cup {Idle}] /\ caller[c] \in Busy
    BY <1>14, MoveStep DEF Bill, At, Place, After
  <2>2. caller[c].bill \in Jobs /\ caller[c].size \in Nat /\ caller[c].over \in BOOLEAN
    BY <2>1 DEF Busy
  <2>3. usage[caller[c].bill] \in Usage
    BY <2>2 DEF TypeOK
  <2>4. [calls |-> usage[caller[c].bill].calls + 1, size |-> usage[caller[c].bill].size + caller[c].size,
         stop |-> usage[caller[c].bill].stop \/ caller[c].over] \in Usage
    BY <2>2, <2>3 DEF Usage
  <2>5. usage' \in [Jobs -> Usage]
    BY <1>14, <2>4 DEF Bill, TypeOK
  <2> QED BY <1>14, <2>1, <2>5 DEF Bill, TypeOK
<1>15. ASSUME NEW c \in Callers, ReadUsage(c) PROVE TypeOK'
  <2>1. caller' \in [Callers -> Busy \cup {Idle}]
    BY <1>15, ReadStep
  <2> QED BY <1>15, <2>1 DEF ReadUsage, TypeOK
<1>16. ASSUME NEW c \in Callers, WriteReport(c) PROVE TypeOK'
  <2>1. caller' \in [Callers -> Busy \cup {Idle}] /\ caller[c] \in Busy
    BY <1>16, ReportStep
  <2>2. report' \in [Jobs -> BOOLEAN]
    BY <1>16, <2>1 DEF WriteReport, TypeOK, Busy
  <2>3. closed' \subseteq Jobs
    <3>1. CASE closed' = closed
      BY <3>1 DEF TypeOK
    <3>2. CASE closed' # closed
      <4>1. caller[Worker] \in Busy
        BY <1>16, <3>2, ReportStep, Working DEF At, Place, Callers
      <4>2. caller[Worker].job \in Jobs
        BY <4>1 DEF Busy
      <4>3. closed' \in {closed, closed \cup {caller[Worker].job}}
        BY <1>16, ReportStep
      <4> QED BY <4>2, <4>3 DEF TypeOK
    <3> QED BY <3>1, <3>2
  <2> QED BY <1>16, <2>1, <2>2, <2>3 DEF WriteReport, TypeOK
<1>17. ASSUME NEW c \in Callers, WriteRun(c) PROVE TypeOK'
  <2>1. caller' \in [Callers -> Busy \cup {Idle}] /\ caller[c] \in Busy
    BY <1>17, LeaveStep
  <2>2. run' \in [Dir -> {"none", "done", "stopped"}] /\ closed' \subseteq Jobs
    BY <1>17, <2>1 DEF WriteRun, TypeOK, Busy
  <2> QED BY <1>17, <2>1, <2>2 DEF WriteRun, TypeOK
<1>18. ASSUME NEW C, C \subseteq Callers, Kill(C), env' \in {env, None} PROVE TypeOK'
  <2>1. caller' \in [Callers -> Busy \cup {Idle}]
    BY <1>18, KillStep
  <2>2. lost' \in [Jobs -> Nat]
    <3>1. ASSUME NEW j \in Jobs PROVE Cardinality(UnbilledTo(j, C)) \in Nat
      <4>1. IsFiniteSet(Callers)
        BY CallersAssumption, FS_Singleton, FS_Union DEF Callers
      <4>2. UnbilledTo(j, C) \subseteq Callers
        BY <1>18 DEF UnbilledTo
      <4> QED BY <4>1, <4>2, FS_Subset, FS_CardinalityType
    <3> QED BY <1>18, <3>1 DEF Kill, TypeOK
  <2> QED BY <1>18, <2>1, <2>2 DEF Kill, TypeOK
<1>19. CASE KillWorker
  BY <1>18, <1>19 DEF KillWorker, Callers
<1>20. CASE KillServer
  BY <1>18, <1>20 DEF KillServer, Callers
<1>21. CASE UNCHANGED vars
  BY <1>21 DEF TypeOK, vars
<1> QED
  BY <1>1, <1>2, <1>3, <1>4, <1>5, <1>6, <1>7, <1>8, <1>9, <1>10, <1>11, <1>12, <1>13,
     <1>14, <1>15, <1>16, <1>17, <1>19, <1>20, <1>21 DEF Next, run_agent, Callers

-----------------------------------------------------------------------------
(* The budget *)

(* A caller that has been let through by the check is counted, from the     *)
(* check to the entry in the log.                                           *)
Committed(j) == {c \in Callers : (At(c, "call") \/ Unbilled(c)) /\ caller[c].bill = j}

Spending ==
  \A j \in Jobs :
    usage[j].calls + Cardinality(Committed(j)) <= MaxCalls + Cardinality(Threads)
Accounted ==
  \A j \in Jobs :
    sent[j] = usage[j].calls + lost[j] + Cardinality(UnbilledTo(j, Callers))

(* There are finitely many callers. *)
LEMMA CallersFinite ==
  /\ IsFiniteSet(Callers) /\ Cardinality(Threads) \in Nat
  /\ Cardinality(Callers) = Cardinality(Threads) + 1
<1>1. IsFiniteSet(Threads) /\ Cardinality(Threads) \in Nat /\ Worker \notin Threads
  BY CallersAssumption, FS_CardinalityType
<1>2. Callers = Threads \cup {Worker}
  BY DEF Callers
<1> QED BY <1>1, <1>2, FS_AddElement

(* Sets of callers have a size, and a smaller set the smaller one. *)
LEMMA SubsetSize ==
  ASSUME NEW S, NEW T, S \subseteq T, T \subseteq Callers
  PROVE  /\ IsFiniteSet(S) /\ IsFiniteSet(T)
         /\ Cardinality(S) \in Nat /\ Cardinality(T) \in Nat
         /\ Cardinality(S) <= Cardinality(T)
<1>1. IsFiniteSet(T)
  BY CallersFinite, FS_Subset
<1> QED BY <1>1, FS_Subset, FS_CardinalityType

(* What no step but a check, a call, a bill and a kill changes. *)
Quiet(d) ==
  /\ caller'[d].at \in {"write", "evidence", "guard", "total", "bill"} <=> Unbilled(d)
  /\ Unbilled(d) => caller'[d].bill = caller[d].bill
  /\ caller'[d].at # "call"

(* Or it stays where it is. *)
Still(d) == caller'[d] = caller[d]

(* A step that makes, bills or loses no call leaves the accounts alone. *)
LEMMA QuietStep ==
  ASSUME TypeOK, [Next]_vars,
         ~ KillWorker, ~ KillServer,
         ~ \E c \in Callers : PreCheck(c) \/ Call(c) \/ CallFails(c) \/ Bill(c)
  PROVE  /\ \A d \in Callers : Quiet(d) \/ Still(d)
         /\ \A j \in Jobs : usage'[j].calls = usage[j].calls
         /\ sent' = sent /\ lost' = lost
<1> USE DEF ledger, dirs, account, bounds
<1> DEFINE Goal == /\ \A d \in Callers : Quiet(d) \/ Still(d)
                   /\ \A j \in Jobs : usage'[j].calls = usage[j].calls
                   /\ sent' = sent /\ lost' = lost
<1> SUFFICES Goal
  OBVIOUS
<1>1. ASSUME NEW c \in Callers, Others(c), Quiet(c), usage' = usage, sent' = sent, lost' = lost
      PROVE  Goal
  BY <1>1 DEF Others, Still
<1> HIDE DEF Goal
<1>2. ASSUME NEW j \in Jobs, NEW i \in DOMAIN AgentOrder, BeginAgent(j, i) PROVE Goal
  <2>1. caller'[Worker].at = "resolve" /\ Others(Worker) /\ At(Worker, "idle") /\ Worker \in Callers
    BY <1>2, BeginStep DEF Request, BeginAgent, Callers
  <2> QED BY <1>1, <1>2, <2>1 DEF BeginAgent, Quiet, At, Unbilled
<1>3. ASSUME NEW t \in Threads, NEW j \in Jobs, NEW a \in RerunAgents, rerun(t, j, a) PROVE Goal
  <2>1. caller'[t].at = "env" /\ Others(t) /\ At(t, "idle") /\ t \in Callers
    BY <1>3, RerunStep DEF Request, rerun
  <2> QED BY <1>1, <1>3, <2>1 DEF rerun, Quiet, At, Unbilled
<1>4. ASSUME NEW c \in Callers, SetEnv(c) PROVE Goal
  <2>1. After(c, [caller[c] EXCEPT !.at = "resolve"]) /\ At(c, "env")
    BY <1>4, MoveStep DEF SetEnv, At, Place
  <2> QED BY <1>1, <1>4, <2>1 DEF SetEnv, Quiet, At, Unbilled, After, Busy
<1>5. ASSUME NEW c \in Callers, RestoreEnv(c) PROVE Goal
  <2>1. caller'[c] = Idle /\ Others(c) /\ At(c, "restore")
    BY <1>5, CallerStep DEF RestoreEnv
  <2> QED BY <1>1, <1>5, <2>1 DEF RestoreEnv, Quiet, At, Unbilled, Idle
<1>6. ASSUME NEW c \in Callers, Resolve(c) PROVE Goal
  <2>1. caller'[c].at = "check" /\ Others(c) /\ At(c, "resolve")
    BY <1>6, ResolveStep DEF Resolve, After, Busy
  <2> QED BY <1>1, <1>6, <2>1 DEF Resolve, Quiet, At, Unbilled
<1>7. ASSUME NEW c \in Callers, RecordBlocked(c) PROVE Goal
  <2>1. caller'[c].at = "read" /\ Others(c) /\ At(c, "blocked")
    BY <1>7, BlockedStep DEF RecordBlocked, After, Busy
  <2>2. Quiet(c)
    BY <2>1 DEF Quiet, At, Unbilled
  <2>3. \A j \in Jobs : usage'[j].calls = usage[j].calls
    BY <1>7 DEF RecordBlocked, TypeOK, Usage
  <2> QED BY <1>7, <2>1, <2>2, <2>3 DEF RecordBlocked, Goal, Others, Still
<1>8. ASSUME NEW c \in Callers, WriteOutput(c) PROVE Goal
  <2>1. /\ caller'[c].at \in {"evidence", "write"} /\ Others(c) /\ At(c, "write")
        /\ caller'[c].bill = caller[c].bill
    BY <1>8, WriteStep DEF WriteOutput, After, Busy
  <2> QED BY <1>1, <1>8, <2>1 DEF WriteOutput, Quiet, At, Unbilled
<1>9. ASSUME NEW c \in Callers, AppendCall(c) PROVE Goal
  <2>1. After(c, [caller[c] EXCEPT !.at = "guard"]) /\ At(c, "evidence")
    BY <1>9, MoveStep DEF AppendCall, At, Place
  <2> QED BY <1>1, <1>9, <2>1 DEF AppendCall, Quiet, At, Unbilled, After, Busy
<1>10. ASSUME NEW c \in Callers, WriteGuardReport(c) PROVE Goal
  <2>1. After(c, [caller[c] EXCEPT !.at = "total"]) /\ At(c, "guard")
    BY <1>10, MoveStep DEF WriteGuardReport, At, Place
  <2> QED BY <1>1, <1>10, <2>1 DEF WriteGuardReport, Quiet, At, Unbilled, After, Busy
<1>11. ASSUME NEW c \in Callers, ReadTotals(c) PROVE Goal
  <2>1. /\ caller'[c].at = "bill" /\ Others(c) /\ At(c, "total")
        /\ caller'[c].bill = caller[c].bill
    BY <1>11, TotalsStep DEF ReadTotals, After, Busy
  <2> QED BY <1>1, <1>11, <2>1 DEF ReadTotals, Quiet, At, Unbilled
<1>12. ASSUME NEW c \in Callers, ReadUsage(c) PROVE Goal
  <2>1. caller'[c].at = "report" /\ Others(c) /\ At(c, "read")
    BY <1>12, ReadStep DEF ReadUsage, After, Busy
  <2> QED BY <1>1, <1>12, <2>1 DEF ReadUsage, Quiet, At, Unbilled
<1>13. ASSUME NEW c \in Callers, WriteReport(c) PROVE Goal
  <2>1. caller'[c].at = "run" /\ At(c, "report")
    BY <1>13, ReportStep DEF WriteReport, Busy
  <2>2. \A d \in Callers \ {c} : Quiet(d) \/ Still(d)
    <3> SUFFICES ASSUME NEW d \in Callers \ {c}, At(d, "report"), caller[d] \in Busy,
                        caller'[d] = Leave(d)
                 PROVE  Quiet(d)
      BY <1>13, ReportStep DEF Still
    <3>1. caller'[d].at \in {"idle", "restore"}
      BY LeaveType DEF Idle, Busy
    <3> QED BY <3>1 DEF Quiet, At, Unbilled
  <2> QED BY <1>13, <2>1, <2>2 DEF WriteReport, Goal, Quiet, At, Unbilled
<1>14. ASSUME NEW c \in Callers, WriteRun(c) PROVE Goal
  <2>1. caller'[c].at \in {"idle", "restore"} /\ Others(c) /\ At(c, "run")
    <3>1. caller[c] \in Busy /\ caller'[c] = Leave(c) /\ Others(c)
      BY <1>14, LeaveStep
    <3>2. Leave(c) = IF c = Worker THEN Idle ELSE [caller[c] EXCEPT !.at = "restore"]
      BY <3>1, LeaveType
    <3> QED BY <1>14, <3>1, <3>2 DEF WriteRun, Idle, Busy
  <2> QED BY <1>1, <1>14, <2>1 DEF WriteRun, Quiet, At, Unbilled
<1>15. CASE UNCHANGED vars
  BY <1>15 DEF vars, Goal, Still
<1>16. ASSUME NEW c \in Callers, run_agent(c) PROVE Goal
  BY <1>6, <1>7, <1>8, <1>9, <1>10, <1>11, <1>12, <1>13, <1>14, <1>16 DEF run_agent
<1>17. ASSUME NEW t \in Threads, SetEnv(t) \/ RestoreEnv(t) PROVE Goal
  BY <1>4, <1>5, <1>17 DEF Callers
<1> QED BY <1>2, <1>3, <1>15, <1>16, <1>17 DEF Next

(* The four steps that a call is made of, as they change the accounts. *)
LEMMA CheckEffect ==
  ASSUME TypeOK, NEW c \in Callers, PreCheck(c)
  PROVE  /\ caller[c] \in Busy /\ Others(c) /\ caller'[c].bill = caller[c].bill
         /\ caller'[c].at \in {"blocked", "call"}
         /\ caller'[c].at = "call" => usage[caller[c].bill].calls + 1 <= MaxCalls
         /\ At(c, "check")
         /\ usage' = usage /\ sent' = sent /\ lost' = lost
<1> DEFINE place == IF usage[caller[c].bill].calls + 1 > MaxCalls THEN "blocked" ELSE "call"
<1>1. After(c, [caller[c] EXCEPT !.at = place])
  BY MoveStep DEF PreCheck, At, Place
<1>2. caller[c] \in Busy
  BY <1>1 DEF After
<1>3. usage[caller[c].bill].calls \in Nat
  BY <1>2 DEF Busy, TypeOK, Usage
<1>4. place = "call" => usage[caller[c].bill].calls + 1 <= MaxCalls
  BY <1>3, LimitsAssumption
<1>5. place \in {"blocked", "call"}
  OBVIOUS
<1> HIDE DEF place
<1>6. caller'[c].at = place /\ caller'[c].bill = caller[c].bill /\ Others(c)
  BY <1>1 DEF After, Busy
<1> QED BY <1>2, <1>4, <1>5, <1>6 DEF PreCheck, ledger, account

(* The answer comes: the call is sent and not yet billed. *)
LEMMA CallEffect ==
  ASSUME TypeOK, NEW c \in Callers, Call(c)
  PROVE  /\ caller[c] \in Busy /\ Others(c) /\ caller'[c].bill = caller[c].bill
         /\ caller'[c].at = "write" /\ At(c, "call")
         /\ usage' = usage /\ lost' = lost
         /\ sent' = [sent EXCEPT ![caller[c].bill] = @ + 1]
<1>1. PICK s \in Sizes : After(c, [caller[c] EXCEPT !.at = "write", !.size = s, !.next = 1])
  BY CallStep
<1> QED BY <1>1 DEF Call, After, Busy, ledger, account

(* No answer: the call is sent and lost. *)
LEMMA FailEffect ==
  ASSUME TypeOK, NEW c \in Callers, CallFails(c)
  PROVE  /\ caller[c] \in Busy /\ Others(c) /\ caller'[c].at \in {"idle", "restore"}
         /\ At(c, "call")
         /\ usage' = usage
         /\ sent' = [sent EXCEPT ![caller[c].bill] = @ + 1]
         /\ lost' = [lost EXCEPT ![caller[c].bill] = @ + 1]
<1>1. caller[c] \in Busy /\ caller'[c] = Leave(c) /\ Others(c)
  BY LeaveStep
<1>2. caller'[c].at \in {"idle", "restore"}
  BY <1>1, LeaveType DEF Idle, Busy
<1> QED BY <1>1, <1>2 DEF CallFails, ledger

(* The call is billed to the job the caller resolved. *)
LEMMA BillEffect ==
  ASSUME TypeOK, NEW c \in Callers, Bill(c)
  PROVE  /\ caller[c] \in Busy /\ Others(c) /\ caller'[c].at = "read"
         /\ At(c, "bill")
         /\ \A j \in Jobs : usage'[j].calls = IF j = caller[c].bill THEN usage[j].calls + 1
                                                                    ELSE usage[j].calls
         /\ sent' = sent /\ lost' = lost
<1>1. After(c, [caller[c] EXCEPT !.at = "read"])
  BY MoveStep DEF Bill, At, Place
<1>2. caller[c].bill \in Jobs
  BY <1>1 DEF After, Busy
<1>3. \A j \in Jobs : usage'[j].calls = IF j = caller[c].bill THEN usage[j].calls + 1
                                                              ELSE usage[j].calls
  BY <1>2 DEF Bill, TypeOK, Usage
<1> QED BY <1>1, <1>3 DEF After, Busy, Bill, account

(* What a killed process has not billed is lost. *)
LEMMA KillEffect ==
  ASSUME TypeOK, KillWorker \/ KillServer
  PROVE  \E C \in SUBSET Callers :
           /\ \A c \in Callers : caller'[c] = IF c \in C THEN Idle ELSE caller[c]
           /\ usage' = usage /\ sent' = sent
           /\ lost' = [j \in Jobs |-> lost[j] + Cardinality(UnbilledTo(j, C))]
<1>1. CASE KillWorker
  BY <1>1, KillStep DEF KillWorker, Kill, Callers, ledger
<1>2. CASE KillServer
  BY <1>2, KillStep DEF KillServer, Kill, Callers, ledger
<1> QED BY <1>1, <1>2

-----------------------------------------------------------------------------
(* The calls in the log and those that may still come stay within the bound. *)
LEMMA SpendingStep ==
  ASSUME TypeOK, Spending, [Next]_vars
  PROVE  Spending'
<1> DEFINE Later(j) == {d \in Callers :
             /\ caller'[d].at \in {"call", "write", "evidence", "guard", "total", "bill"}
             /\ caller'[d].bill = j}
           Goal(j) == usage'[j].calls + Cardinality(Later(j)) <= MaxCalls + Cardinality(Threads)
<1> SUFFICES ASSUME NEW j \in Jobs PROVE Goal(j)
  BY DEF Spending, Committed, Unbilled, At
<1>1. /\ usage[j].calls \in Nat /\ usage'[j].calls \in Nat
      /\ MaxCalls \in Nat /\ Cardinality(Threads) \in Nat
  BY TypeStep, LimitsAssumption, CallersFinite DEF TypeOK, Usage
<1>2. usage[j].calls + Cardinality(Committed(j)) <= MaxCalls + Cardinality(Threads)
  BY DEF Spending
<1>3. Committed(j) \subseteq Callers /\ Later(j) \subseteq Callers
  BY DEF Committed
<1>4. ASSUME Later(j) \subseteq Committed(j), usage'[j].calls = usage[j].calls PROVE Goal(j)
  <2>1. /\ Cardinality(Later(j)) \in Nat /\ Cardinality(Committed(j)) \in Nat
        /\ Cardinality(Later(j)) <= Cardinality(Committed(j))
    BY <1>3, <1>4, SubsetSize
  <2> HIDE DEF Later
  <2> QED BY <1>1, <1>2, <1>4, <2>1
<1>5. ASSUME \A d \in Callers : Quiet(d) \/ Still(d), usage'[j].calls = usage[j].calls
      PROVE  Goal(j)
  <2>1. ASSUME NEW d \in Later(j) PROVE d \in Committed(j)
    BY <1>5, <2>1 DEF Quiet, Still, Committed, Unbilled, At
  <2> QED BY <1>4, <1>5, <2>1
<1>6. ASSUME NEW c \in Callers, PreCheck(c) PROVE Goal(j)
  <2>1. CASE caller'[c].at = "call" /\ caller[c].bill = j
    <3>1. usage'[j].calls + 1 <= MaxCalls
      BY <1>6, <2>1, CheckEffect
    <3>2. Cardinality(Later(j)) \in Nat /\ Cardinality(Later(j)) <= Cardinality(Threads) + 1
      BY <1>3, SubsetSize, CallersFinite
    <3> HIDE DEF Later
    <3> QED BY <1>1, <3>1, <3>2
  <2>2. CASE ~(caller'[c].at = "call" /\ caller[c].bill = j)
    <3>1. ASSUME NEW d \in Later(j) PROVE d \in Committed(j)
      BY <1>6, <2>2, <3>1, CheckEffect DEF Others, Committed, Unbilled, At
    <3> QED BY <1>4, <1>6, <3>1, CheckEffect
  <2> QED BY <2>1, <2>2
<1>7. ASSUME NEW c \in Callers, Call(c) \/ CallFails(c) PROVE Goal(j)
  <2>1. ASSUME NEW d \in Later(j) PROVE d \in Committed(j)
    BY <1>7, <2>1, CallEffect, FailEffect DEF Others, Committed, Unbilled, At
  <2> QED BY <1>4, <1>7, <2>1, CallEffect, FailEffect
<1>8. ASSUME NEW c \in Callers, Bill(c) PROVE Goal(j)
  <2>1. CASE caller[c].bill = j
    <3>1. c \in Committed(j)
      BY <1>8, <2>1, BillEffect DEF Committed, Unbilled, At
    <3>2. Later(j) \subseteq Committed(j) \ {c}
      BY <1>8, BillEffect DEF Others, Committed, Unbilled, At
    <3>3. /\ Cardinality(Committed(j)) \in Nat
          /\ Cardinality(Committed(j) \ {c}) = Cardinality(Committed(j)) - 1
      BY <1>3, <3>1, SubsetSize, FS_RemoveElement
    <3>4. Committed(j) \ {c} \subseteq Callers
      BY <1>3
    <3>5. Cardinality(Later(j)) \in Nat /\ Cardinality(Later(j)) <= Cardinality(Committed(j) \ {c})
      BY <3>2, <3>4, SubsetSize
    <3>6. usage'[j].calls = usage[j].calls + 1
      BY <1>8, <2>1, BillEffect
    <3> HIDE DEF Later
    <3> QED BY <1>1, <1>2, <3>3, <3>5, <3>6
  <2>2. CASE caller[c].bill # j
    <3>1. ASSUME NEW d \in Later(j) PROVE d \in Committed(j)
      BY <1>8, <3>1, BillEffect DEF Others, Committed, Unbilled, At
    <3> QED BY <1>4, <1>8, <2>2, <3>1, BillEffect
  <2> QED BY <2>1, <2>2
<1>9. ASSUME KillWorker \/ KillServer PROVE Goal(j)
  <2>1. PICK C \in SUBSET Callers :
          /\ \A c \in Callers : caller'[c] = IF c \in C THEN Idle ELSE caller[c]
          /\ usage' = usage
    BY <1>9, KillEffect
  <2>2. ASSUME NEW d \in Later(j) PROVE d \in Committed(j)
    BY <2>1, <2>2 DEF Committed, Unbilled, At, Idle
  <2> QED BY <1>4, <2>1, <2>2
<1> HIDE DEF Goal
<1> QED BY <1>5, <1>6, <1>7, <1>8, <1>9, QuietStep

(* Every call sent is in the log, on its way there, or lost. *)
LEMMA AccountedStep ==
  ASSUME TypeOK, Accounted, [Next]_vars
  PROVE  Accounted'
<1> DEFINE Now(j) == UnbilledTo(j, Callers)
           Later(j) == {d \in Callers :
             /\ caller'[d].at \in {"write", "evidence", "guard", "total", "bill"}
             /\ caller'[d].bill = j}
           Goal(j) == sent'[j] = usage'[j].calls + lost'[j] + Cardinality(Later(j))
<1> SUFFICES ASSUME NEW j \in Jobs PROVE Goal(j)
  BY DEF Accounted, UnbilledTo, Unbilled
<1>1. /\ usage[j].calls \in Nat /\ sent[j] \in Nat /\ lost[j] \in Nat
      /\ Now(j) \subseteq Callers /\ IsFiniteSet(Now(j)) /\ Cardinality(Now(j)) \in Nat
  <2>1. Now(j) \subseteq Callers
    BY DEF UnbilledTo
  <2> QED BY <2>1, SubsetSize DEF TypeOK, Usage
<1>2. sent[j] = usage[j].calls + lost[j] + Cardinality(Now(j))
  BY DEF Accounted
<1>3. \A d \in Callers : d \in Now(j) <=> Unbilled(d) /\ caller[d].bill = j
  BY DEF UnbilledTo
<1> HIDE DEF Now
<1>4. ASSUME \A d \in Callers : Quiet(d) \/ Still(d), usage'[j].calls = usage[j].calls,
             sent' = sent, lost' = lost
      PROVE  Goal(j)
  <2>1. ASSUME NEW d \in Callers PROVE d \in Later(j) <=> d \in Now(j)
    BY <1>3, <1>4 DEF Quiet, Still, Unbilled
  <2>2. Later(j) = Now(j)
    BY <1>1, <2>1
  <2> QED BY <1>2, <1>4, <2>2
<1>5. ASSUME NEW c \in Callers, PreCheck(c) PROVE Goal(j)
  <2>1. \A d \in Callers : d \in Later(j) <=> d \in Now(j)
    BY <1>3, <1>5, CheckEffect DEF Others, Unbilled, At
  <2>2. Later(j) = Now(j)
    BY <1>1, <2>1
  <2> QED BY <1>2, <1>5, <2>2, CheckEffect
<1>6. ASSUME NEW c \in Callers, Call(c) PROVE Goal(j)
  <2>1. c \notin Now(j)
    BY <1>3, <1>6, CallEffect DEF Unbilled, At
  <2>2. \A d \in Callers : d \in Later(j) <=> d \in Now(j) \/ (d = c /\ caller[c].bill = j)
    BY <1>3, <1>6, CallEffect DEF Others, Unbilled, At
  <2>3. CASE caller[c].bill = j
    <3>1. Later(j) = Now(j) \cup {c}
      BY <1>1, <2>2, <2>3
    <3>2. Cardinality(Later(j)) = Cardinality(Now(j)) + 1
      BY <1>1, <2>1, <3>1, FS_AddElement
    <3>3. sent'[j] = sent[j] + 1
      BY <1>6, <2>3, CallEffect DEF TypeOK
    <3> HIDE DEF Later
    <3> QED BY <1>1, <1>2, <1>6, <3>2, <3>3, CallEffect
  <2>4. CASE caller[c].bill # j
    <3>1. Later(j) = Now(j)
      BY <1>1, <2>2, <2>4
    <3>2. sent'[j] = sent[j]
      BY <1>6, <2>4, CallEffect DEF TypeOK
    <3> QED BY <1>2, <1>6, <3>1, <3>2, CallEffect
  <2> QED BY <2>3, <2>4
<1>7. ASSUME NEW c \in Callers, CallFails(c) PROVE Goal(j)
  <2>1. \A d \in Callers : d \in Later(j) <=> d \in Now(j)
    BY <1>3, <1>7, FailEffect DEF Others, Unbilled, At
  <2>2. Later(j) = Now(j)
    BY <1>1, <2>1
  <2>3. CASE caller[c].bill = j
    <3>1. sent'[j] = sent[j] + 1 /\ lost'[j] = lost[j] + 1
      BY <1>7, <2>3, FailEffect DEF TypeOK
    <3> HIDE DEF Later
    <3> QED BY <1>1, <1>2, <1>7, <2>2, <3>1, FailEffect
  <2>4. CASE caller[c].bill # j
    <3>1. sent'[j] = sent[j] /\ lost'[j] = lost[j]
      BY <1>7, <2>4, FailEffect DEF TypeOK
    <3> QED BY <1>2, <1>7, <2>2, <3>1, FailEffect
  <2> QED BY <2>3, <2>4
<1>8. ASSUME NEW c \in Callers, Bill(c) PROVE Goal(j)
  <2>1. Unbilled(c)
    BY <1>8, BillEffect DEF Unbilled, At
  <2>2. \A d \in Callers : d \in Later(j) <=> d \in Now(j) /\ d # c
    BY <1>3, <1>8, BillEffect DEF Others, Unbilled, At
  <2>3. CASE caller[c].bill = j
    <3>1. Later(j) = Now(j) \ {c} /\ c \in Now(j)
      BY <1>1, <1>3, <2>1, <2>2, <2>3
    <3>2. Cardinality(Later(j)) = Cardinality(Now(j)) - 1
      BY <1>1, <3>1, FS_RemoveElement
    <3>3. usage'[j].calls = usage[j].calls + 1
      BY <1>8, <2>3, BillEffect
    <3> HIDE DEF Later
    <3> QED BY <1>1, <1>2, <1>8, <3>2, <3>3, BillEffect
  <2>4. CASE caller[c].bill # j
    <3>1. Later(j) = Now(j)
      BY <1>1, <1>3, <2>2, <2>4
    <3> QED BY <1>2, <1>8, <2>4, <3>1, BillEffect
  <2> QED BY <2>3, <2>4
<1>9. ASSUME KillWorker \/ KillServer PROVE Goal(j)
  <2>1. PICK C \in SUBSET Callers :
          /\ \A c \in Callers : caller'[c] = IF c \in C THEN Idle ELSE caller[c]
          /\ usage' = usage /\ sent' = sent
          /\ lost' = [k \in Jobs |-> lost[k] + Cardinality(UnbilledTo(k, C))]
    BY <1>9, KillEffect
  <2> DEFINE gone == UnbilledTo(j, C)
  <2>2. gone \subseteq Now(j) /\ \A d \in Callers : d \in gone <=> d \in C /\ d \in Now(j)
    BY <1>3 DEF UnbilledTo
  <2>3. \A d \in Callers : d \in Later(j) <=> d \in Now(j) /\ d \notin C
    BY <1>3, <2>1 DEF Unbilled, Idle
  <2>4. Later(j) = Now(j) \ gone
    BY <1>1, <2>2, <2>3
  <2>5. lost'[j] = lost[j] + Cardinality(gone)
    BY <2>1
  <2> HIDE DEF gone, Later
  <2>6. IsFiniteSet(gone) /\ Cardinality(gone) \in Nat
    BY <1>1, <2>2, FS_Subset, FS_CardinalityType
  <2>7. Now(j) \cap gone = gone
    BY <2>2
  <2>8. Cardinality(Later(j)) = Cardinality(Now(j)) - Cardinality(gone)
    BY <1>1, <2>4, <2>7, FS_Difference
  <2> QED BY <1>1, <1>2, <2>1, <2>5, <2>6, <2>8
<1> HIDE DEF Goal
<1> QED BY <1>4, <1>5, <1>6, <1>7, <1>8, <1>9, QuietStep

(* No call has been made in the beginning. *)
LEMMA BudgetInit == Init => Spending /\ Accounted
<1> SUFFICES ASSUME Init PROVE Spending /\ Accounted
  OBVIOUS
<1>1. \A c \in Callers : caller[c].at = "idle"
  BY DEF Init, Idle
<1>2. ASSUME NEW j \in Jobs PROVE Committed(j) = {} /\ UnbilledTo(j, Callers) = {}
  BY <1>1 DEF Committed, UnbilledTo, Unbilled, At
<1>3. \A j \in Jobs : Cardinality(Committed(j)) = 0 /\ Cardinality(UnbilledTo(j, Callers)) = 0
  BY <1>2, FS_EmptySet
<1>4. \A j \in Jobs : usage[j].calls = 0 /\ lost[j] = 0 /\ sent[j] = 0
  BY DEF Init
<1>5. Spending
  BY <1>3, <1>4, CallersFinite, LimitsAssumption DEF Spending
<1>6. Accounted
  BY <1>3, <1>4 DEF Accounted
<1> QED BY <1>5, <1>6

(* What is recorded has the shape the program expects.                      *)
THEOREM Types == Spec => []TypeOK
BY TypeInit, TypeStep, PTL DEF Spec

(* Whatever fails, is killed or asked for again, and however many threads   *)
(* rerun agents: the calls that count for a job exceed its limit by at most *)
(* one for each caller but one, and no call is forgotten but those whose    *)
(* caller or provider failed on the way (harness.py 279-287, 1096-1129).    *)
THEOREM BudgetHolds == Spec => []CallsWithinBudget
<1>1. TypeOK /\ Spending /\ Accounted /\ [Next]_vars => (TypeOK /\ Spending /\ Accounted)'
  BY TypeStep, SpendingStep, AccountedStep
<1>2. TypeOK /\ Spending /\ Accounted => CallsWithinBudget
  <2> SUFFICES ASSUME TypeOK, Spending, Accounted, NEW j \in Jobs
               PROVE  /\ usage[j].calls + Cardinality(UnbilledTo(j, Callers))
                           <= MaxCalls + Cardinality(Threads)
                      /\ sent[j] = usage[j].calls + lost[j] + Cardinality(UnbilledTo(j, Callers))
    BY DEF CallsWithinBudget
  <2>1. UnbilledTo(j, Callers) \subseteq Committed(j) /\ Committed(j) \subseteq Callers
    BY DEF UnbilledTo, Committed
  <2>2. /\ Cardinality(UnbilledTo(j, Callers)) \in Nat /\ Cardinality(Committed(j)) \in Nat
        /\ Cardinality(UnbilledTo(j, Callers)) <= Cardinality(Committed(j))
    BY <2>1, SubsetSize
  <2>3. usage[j].calls \in Nat /\ MaxCalls \in Nat /\ Cardinality(Threads) \in Nat
    BY LimitsAssumption, CallersFinite DEF TypeOK, Usage
  <2> QED BY <2>2, <2>3 DEF Spending, Accounted
<1> QED BY <1>1, <1>2, TypeInit, BudgetInit, PTL DEF Spec

-----------------------------------------------------------------------------
(* The evidence of a call *)

(* Directories are not shared: the worker is in the one of its job and      *)
(* agent, a thread in its own.                                              *)
InPlace(c, r) ==
  r.at # "idle" =>
    IF c = Worker
    THEN /\ r.dir = <<r.job, r.agent>> /\ r.agent \in Agents
         /\ r.bill = r.job
         /\ r.at \notin {"env", "restore"}
    ELSE r.dir = c
Owned == \A c \in Callers : InPlace(c, caller[c])

Called == {"write", "evidence", "guard", "total", "bill", "read", "report", "run"}

(* How far a caller is says what is in its directory. *)
Written(r) ==
  LET d == r.dir IN
  /\ r.at \notin {"idle", "restore"} =>
       run[d] = "none" /\ Len(files[d]) = Len(OutputFiles[r.agent])
  /\ r.at \in Called /\ ~r.blocked => attempt[d] > 0
  /\ r.at = "write" =>
       /\ r.next \in 1..Len(files[d])
       /\ \A i \in 1..(r.next - 1) : files[d][i] = attempt[d]
  /\ r.at \in Called \ {"write"} /\ ~r.blocked => \A i \in DOMAIN files[d] : files[d][i] = attempt[d]
  /\ r.at \in Called \ {"write", "evidence"} /\ ~r.blocked => calls[d] = attempt[d]
  /\ r.at \in Called \ {"write", "evidence", "guard"} /\ ~r.blocked => guard[d] = attempt[d]
  /\ r.at \notin {"idle", "read", "report", "run", "restore"} => ~r.blocked
Progress == \A c \in Callers : caller[c] # Idle => Written(caller[c])

(* No step brings two callers into one directory. *)
LEMMA OwnedStep ==
  ASSUME TypeOK, Owned, [Next]_vars
  PROVE  Owned'
<1> SUFFICES \A c \in Callers : InPlace(c, caller'[c])
  BY DEF Owned, InPlace
<1> DEFINE Goal == \A c \in Callers : InPlace(c, caller'[c])
<1>0. \A c \in Callers : InPlace(c, caller[c])
  BY DEF Owned
<1>1. ASSUME NEW c \in Callers, Others(c), InPlace(c, caller'[c]) PROVE Goal
  BY <1>0, <1>1 DEF Others
<1> HIDE DEF Goal
<1> SUFFICES Goal
  BY DEF Goal
<1>2. ASSUME NEW c \in Callers, caller[c].at # "idle",
             caller'[c].dir = caller[c].dir, caller'[c].agent = caller[c].agent,
             caller'[c].job = caller[c].job, Others(c),
             caller'[c].at \notin {"env", "restore"},
             caller'[c].bill = caller[c].bill \/ c # Worker
      PROVE  Goal
  <2>1. InPlace(c, caller'[c])
    BY <1>0, <1>2 DEF InPlace
  <2> QED BY <1>1, <1>2, <2>1
<1>3. ASSUME NEW j \in Jobs, NEW i \in DOMAIN AgentOrder, BeginAgent(j, i) PROVE Goal
  <2>1. Worker \in Callers
    BY DEF Callers
  <2>2. /\ AgentOrder[i] \in Agents
        /\ caller'[Worker] = Request(<<j, AgentOrder[i]>>, j, AgentOrder[i], "resolve")
    BY <1>3, BeginStep
  <2>3. InPlace(Worker, caller'[Worker])
    BY <2>2 DEF Request, InPlace
  <2> QED BY <1>1, <1>3, <2>1, <2>3, BeginStep
<1>4. ASSUME NEW t \in Threads, NEW j \in Jobs, NEW a \in RerunAgents, rerun(t, j, a) PROVE Goal
  <2>1. t # Worker
    BY CallersAssumption
  <2>2. caller'[t] = Request(t, j, a, "env")
    BY <1>4, RerunStep
  <2>3. InPlace(t, caller'[t])
    BY <2>1, <2>2 DEF Request, InPlace
  <2> QED BY <1>1, <1>4, <2>3, RerunStep
<1>5. ASSUME NEW t \in Threads, SetEnv(t) PROVE Goal
  <2>1. t \in Callers /\ t # Worker
    BY CallersAssumption DEF Callers
  <2>2. After(t, [caller[t] EXCEPT !.at = "resolve"]) /\ At(t, "env")
    BY <1>5, <2>1, MoveStep DEF SetEnv, At, Place
  <2> QED BY <1>2, <2>1, <2>2 DEF After, Busy, At
<1>6. ASSUME NEW t \in Threads, RestoreEnv(t) PROVE Goal
  <2>1. t \in Callers /\ caller'[t] = Idle /\ Others(t)
    BY <1>6, CallerStep DEF RestoreEnv, Callers
  <2> QED BY <1>1, <2>1 DEF InPlace, Idle
<1>7. ASSUME NEW c \in Callers, Resolve(c) PROVE Goal
  <2>1. /\ After(c, [caller[c] EXCEPT !.at = "check",
                       !.bill = IF c = Worker \/ env = None THEN caller[c].bill ELSE env])
        /\ At(c, "resolve")
    BY <1>7, ResolveStep DEF Resolve
  <2> QED BY <1>2, <2>1 DEF After, Busy, At
<1>8. ASSUME NEW c \in Callers, NEW p \in Place, caller[c].at \in Place, Goto(c, p),
             p \notin {"env", "restore"}
      PROVE  Goal
  <2>1. After(c, [caller[c] EXCEPT !.at = p]) /\ caller[c].at # "idle"
    BY <1>8, MoveStep DEF Place
  <2> QED BY <1>2, <1>8, <2>1 DEF After, Busy
<1>9. ASSUME NEW c \in Callers,
             PreCheck(c) \/ AppendCall(c) \/ WriteGuardReport(c) \/ Bill(c)
      PROVE  Goal
  BY <1>8, <1>9 DEF PreCheck, AppendCall, WriteGuardReport, Bill, At, Place
<1>10. ASSUME NEW c \in Callers, RecordBlocked(c) PROVE Goal
  <2>1. After(c, [caller[c] EXCEPT !.at = "read", !.blocked = TRUE]) /\ At(c, "blocked")
    BY <1>10, BlockedStep DEF RecordBlocked
  <2> QED BY <1>2, <2>1 DEF After, Busy, At
<1>11. ASSUME NEW c \in Callers, Call(c) PROVE Goal
  <2>1. PICK s \in Sizes : After(c, [caller[c] EXCEPT !.at = "write", !.size = s, !.next = 1])
    BY <1>11, CallStep
  <2> QED BY <1>2, <1>11, <2>1 DEF Call, After, Busy, At
<1>12. ASSUME NEW c \in Callers, WriteOutput(c) PROVE Goal
  <2>1. After(c, [caller[c] EXCEPT !.at = IF LastFile(c) THEN "evidence" ELSE "write",
                    !.next = caller[c].next + 1])
    BY <1>12, WriteStep
  <2> QED BY <1>2, <1>12, <2>1 DEF WriteOutput, After, Busy, At
<1>13. ASSUME NEW c \in Callers, ReadTotals(c) PROVE Goal
  <2>1. PICK o \in BOOLEAN : After(c, [caller[c] EXCEPT !.at = "bill", !.over = o])
    BY <1>13, TotalsStep
  <2> QED BY <1>2, <1>13, <2>1 DEF ReadTotals, After, Busy, At
<1>14. ASSUME NEW c \in Callers, ReadUsage(c) PROVE Goal
  <2>1. PICK o \in BOOLEAN : After(c, [caller[c] EXCEPT !.at = "report", !.over = o])
    BY <1>14, ReadStep
  <2> QED BY <1>2, <1>14, <2>1 DEF ReadUsage, After, Busy, At
<1>15. ASSUME NEW c \in Callers, caller[c] \in Busy, caller[c].at # "idle",
              caller'[c] = Leave(c)
       PROVE  InPlace(c, caller'[c])
  <2>1. caller'[c] = IF c = Worker THEN Idle ELSE [caller[c] EXCEPT !.at = "restore"]
    BY <1>15, LeaveType
  <2>2. CASE c = Worker
    BY <2>1, <2>2 DEF InPlace, Idle
  <2>3. CASE c # Worker
    BY <1>0, <1>15, <2>1, <2>3 DEF InPlace, Busy
  <2> QED BY <2>2, <2>3
<1>16. ASSUME NEW c \in Callers, CallFails(c) \/ WriteRun(c) PROVE Goal
  <2>1. caller[c] \in Busy /\ caller'[c] = Leave(c) /\ Others(c) /\ caller[c].at # "idle"
    BY <1>16, LeaveStep DEF CallFails, WriteRun, At
  <2> QED BY <1>1, <1>15, <2>1
<1>17. ASSUME NEW c \in Callers, WriteReport(c) PROVE Goal
  <2>1. caller[c] \in Busy /\ caller'[c] = [caller[c] EXCEPT !.at = "run"] /\ At(c, "report")
    BY <1>17, ReportStep DEF WriteReport
  <2>2. InPlace(c, caller'[c])
    BY <1>0, <2>1 DEF InPlace, Busy, At
  <2>3. ASSUME NEW d \in Callers \ {c} PROVE InPlace(d, caller'[d])
    BY <1>0, <1>15, <1>17, ReportStep DEF At
  <2> QED BY <2>2, <2>3 DEF Goal
<1>18. ASSUME KillWorker \/ KillServer PROVE Goal
  <2>1. PICK C \in SUBSET Callers :
          \A c \in Callers : caller'[c] = IF c \in C THEN Idle ELSE caller[c]
    BY <1>18, KillEffect
  <2>2. ASSUME NEW c \in Callers PROVE InPlace(c, caller'[c])
    BY <1>0, <2>1 DEF InPlace, Idle
  <2> QED BY <2>2 DEF Goal
<1>19. CASE UNCHANGED vars
  BY <1>0, <1>19 DEF vars, Goal
<1>20. ASSUME NEW c \in Callers, run_agent(c) PROVE Goal
  BY <1>7, <1>9, <1>10, <1>11, <1>12, <1>13, <1>14, <1>16, <1>17, <1>20 DEF run_agent
<1> QED BY <1>3, <1>4, <1>5, <1>6, <1>18, <1>19, <1>20 DEF Next

(* The directory that a step of c may write to, and all others.             *)
OwnDir(c, dd) == dd \in Dir /\ IF c = Worker THEN dd \in JobDir ELSE dd = c
Same(e) ==
  /\ files'[e] = files[e] /\ calls'[e] = calls[e] /\ guard'[e] = guard[e]
  /\ run'[e] = run[e] /\ attempt'[e] = attempt[e]
Elsewhere(dd) == \A e \in Dir \ {dd} : Same(e)

(* The directory of a caller is its own ... *)
LEMMA OwnDirOf ==
  ASSUME TypeOK, Owned, NEW c \in Callers, caller[c].at # "idle"
  PROVE  OwnDir(c, caller[c].dir)
<1>1. caller[c] \in Busy /\ InPlace(c, caller[c])
  BY IsWorking DEF Owned
<1>2. caller[c].dir \in Dir /\ caller[c].job \in Jobs
  BY <1>1 DEF Busy
<1> QED BY <1>1, <1>2 DEF OwnDir, InPlace, JobDir

(* ... and no other caller is in it. *)
LEMMA Apart ==
  ASSUME TypeOK, Owned, NEW c \in Callers, NEW d \in Callers, c # d, caller[d].at # "idle",
         NEW dd, OwnDir(c, dd)
  PROVE  caller[d].dir \in Dir \ {dd}
BY OwnDirOf, DirAssumption DEF OwnDir, Callers

(* A caller that is out of run_agent has nothing to say of its directory.   *)
LEMMA LeftWritten ==
  ASSUME NEW c \in Callers, caller[c] \in Busy, caller'[c] = Leave(c)
  PROVE  caller'[c] = Idle \/ Written(caller[c])'
<1>1. caller'[c] = Idle \/ caller'[c].at = "restore"
  BY LeaveType DEF Busy
<1> QED BY <1>1 DEF Written, Called

(* A step of one caller keeps what the places of the others say. *)
LEMMA ProgressFrame ==
  ASSUME TypeOK, Owned, Progress, NEW c \in Callers, NEW dd, OwnDir(c, dd), Elsewhere(dd),
         \A d \in Callers \ {c} :
           caller'[d] \in {caller[d], Idle} \/ (caller[d] \in Busy /\ caller'[d] = Leave(d)),
         caller'[c] = Idle \/ Written(caller[c])'
  PROVE  Progress'
<1> SUFFICES ASSUME NEW d \in Callers, caller'[d] # Idle PROVE Written(caller[d])'
  BY DEF Progress
<1>1. CASE d = c
  BY <1>1
<1>2. CASE d # c /\ caller'[d] = caller[d]
  <2>1. caller[d].at # "idle"
    BY <1>2, IsWorking DEF TypeOK, Idle, Busy, Place
  <2>2. Written(caller[d]) /\ Same(caller[d].dir)
    BY <1>2, <2>1, Apart DEF Progress, Elsewhere
  <2> QED BY <1>2, <2>2 DEF Written, Same
<1>3. CASE d # c /\ caller[d] \in Busy /\ caller'[d] = Leave(d)
  BY <1>3, LeftWritten
<1> QED BY <1>1, <1>2, <1>3

(* What the step leaves alone of the evidence. *)
Intact(d) ==
  run[d] = "done" =>
    /\ calls[d] > 0
    /\ guard[d] = calls[d]
    /\ \A i \in DOMAIN files[d] : files[d][i] = calls[d]

(* A step in a directory without a result breaks no result. *)
LEMMA EvidenceFrame ==
  ASSUME TypeOK, OutputsOfOneCall, NEW dd \in Dir, Elsewhere(dd), run'[dd] # "done"
  PROVE  OutputsOfOneCall'
BY DEF OutputsOfOneCall, Elsewhere, Same

(* The common case: c goes on with its call. *)
LEMMA OnStep ==
  ASSUME TypeOK, Owned, Progress, OutputsOfOneCall, NEW c \in Callers,
         caller[c].at \in Place \ {"restore"}, Others(c),
         Elsewhere(caller[c].dir), run' = run,
         Written(caller[c])'
  PROVE  Progress' /\ OutputsOfOneCall'
<1>1. caller[c].at # "idle" /\ caller[c] # Idle
  BY DEF Place, Idle
<1>2. OwnDir(c, caller[c].dir)
  BY <1>1, OwnDirOf
<1>3. run[caller[c].dir] = "none"
  BY <1>1 DEF Progress, Written
<1>4. Progress'
  BY <1>2, ProgressFrame DEF Others
<1>5. OutputsOfOneCall'
  BY <1>2, <1>3, EvidenceFrame DEF OwnDir
<1> QED BY <1>4, <1>5

(* Every step keeps what the places say, and the results. *)
LEMMA ProgressStep ==
  ASSUME TypeOK, Owned, Progress, OutputsOfOneCall, [Next]_vars
  PROVE  Progress' /\ OutputsOfOneCall'
<1> USE DEF dirs
<1> DEFINE Goal == Progress' /\ OutputsOfOneCall'
<1> SUFFICES Goal
  OBVIOUS
<1> HIDE DEF Goal
<1>1. ASSUME NEW c \in Callers, caller[c].at \in Place \ {"restore"}, Others(c),
             Elsewhere(caller[c].dir), run' = run, Written(caller[c])'
      PROVE  Goal
  BY <1>1, OnStep DEF Goal
(* Nothing is written: what was there before the step is there after it.    *)
<1>2. ASSUME NEW c \in Callers, caller[c].at \in Place \ {"restore"}, Others(c), UNCHANGED dirs,
             caller'[c].dir = caller[c].dir, caller'[c].agent = caller[c].agent,
             caller'[c].at \notin {"idle", "restore", "write"},
             \/ /\ caller[c].at \notin Called /\ caller'[c].at \notin Called
                /\ caller'[c].blocked = caller[c].blocked
             \/ /\ caller'[c].at = "read" /\ caller'[c].blocked
             \/ /\ caller[c].at \in Called \ {"write", "evidence", "guard"}
                /\ caller'[c].at \in Called \ {"write", "evidence", "guard"}
                /\ caller'[c].blocked = caller[c].blocked
                /\ caller[c].at \in {"read", "report", "run"} =>
                     caller'[c].at \in {"read", "report", "run"}
      PROVE  Goal
  <2>1. Written(caller[c])
    BY <1>2 DEF Progress, Idle, Place
  <2> DEFINE d == caller[c].dir
  <2>2. Written(caller[c])'
    <3>1. run[d] = "none" /\ Len(files[d]) = Len(OutputFiles[caller[c].agent])
      BY <1>2, <2>1 DEF Written, Place
    <3>2. CASE caller[c].at \notin Called /\ caller'[c].at \notin Called /\ ~caller[c].blocked
               /\ ~caller'[c].blocked
      BY <1>2, <3>1, <3>2 DEF Written, Called
    <3>3. CASE caller'[c].at = "read" /\ caller'[c].blocked
      BY <1>2, <3>1, <3>3 DEF Written, Called
    <3>4. CASE /\ caller[c].at \in Called \ {"write", "evidence", "guard"}
               /\ caller'[c].at \in Called \ {"write", "evidence", "guard"}
               /\ caller'[c].blocked = caller[c].blocked
      <4>1. ~caller[c].blocked =>
              /\ attempt[d] > 0 /\ calls[d] = attempt[d] /\ guard[d] = attempt[d]
              /\ \A i \in DOMAIN files[d] : files[d][i] = attempt[d]
        BY <2>1, <3>4 DEF Written, Called
      <4>2. caller[c].blocked => caller'[c].at \in {"read", "report", "run"}
        BY <1>2, <2>1, <3>4 DEF Written, Called
      <4> QED BY <1>2, <3>1, <3>4, <4>1, <4>2 DEF Written, Called
    <3>5. caller[c].at \notin Called => ~caller[c].blocked
      BY <1>2, <2>1 DEF Written, Called, Place
    <3> QED BY <1>2, <3>2, <3>3, <3>4, <3>5
  <2>3. Elsewhere(caller[c].dir) /\ run' = run
    BY <1>2 DEF Elsewhere, Same
  <2> QED BY <1>1, <1>2, <2>2, <2>3
<1>3. ASSUME NEW t \in Threads, SetEnv(t) PROVE Goal
  <2>1. t \in Callers
    BY DEF Callers
  <2>4. Goto(t, "resolve") /\ caller[t].at = "env" /\ {"env", "resolve"} \subseteq Place
    BY <1>3 DEF SetEnv, At, Place
  <2>2. After(t, [caller[t] EXCEPT !.at = "resolve"])
    BY <2>1, <2>4, MoveStep
  <2>3. /\ Others(t) /\ caller'[t].at = "resolve" /\ caller'[t].dir = caller[t].dir
        /\ caller'[t].agent = caller[t].agent /\ caller'[t].blocked = caller[t].blocked
    <3> DEFINE x == [caller[t] EXCEPT !.at = "resolve"]
    <3>1. caller[t] \in Busy /\ caller'[t] = x /\ Others(t)
      BY <2>2 DEF After
    <3>2. /\ x.at = "resolve" /\ x.dir = caller[t].dir
          /\ x.agent = caller[t].agent /\ x.blocked = caller[t].blocked
      BY <3>1 DEF Busy
    <3> QED BY <3>1, <3>2
  <2> QED BY <1>2, <1>3, <2>1, <2>3, <2>4 DEF SetEnv, Called, Place
<1>4. ASSUME NEW c \in Callers, Resolve(c) PROVE Goal
  <2>1. /\ Others(c) /\ caller'[c].at = "check" /\ caller'[c].dir = caller[c].dir
        /\ caller'[c].agent = caller[c].agent /\ caller'[c].blocked = caller[c].blocked
    <3>1. After(c, [caller[c] EXCEPT !.at = "check",
                       !.bill = IF c = Worker \/ env = None THEN caller[c].bill ELSE env])
      BY <1>4, ResolveStep
    <3> QED BY <3>1 DEF After, Busy
  <2> QED BY <1>2, <1>4, <2>1 DEF Resolve, Called, Place, At
<1>5. ASSUME NEW c \in Callers, PreCheck(c) PROVE Goal
  <2> DEFINE place == IF usage[caller[c].bill].calls + 1 > MaxCalls THEN "blocked" ELSE "call"
  <2>1. After(c, [caller[c] EXCEPT !.at = place])
    BY <1>5, MoveStep DEF PreCheck, At, Place
  <2>2. /\ Others(c) /\ caller'[c].at \in {"blocked", "call"} /\ caller'[c].dir = caller[c].dir
        /\ caller'[c].agent = caller[c].agent /\ caller'[c].blocked = caller[c].blocked
    BY <2>1 DEF After, Busy
  <2> QED BY <1>2, <1>5, <2>2 DEF PreCheck, Called, Place, At
<1>6. ASSUME NEW c \in Callers, RecordBlocked(c) PROVE Goal
  <2>1. /\ Others(c) /\ caller'[c].at = "read" /\ caller'[c].dir = caller[c].dir
        /\ caller'[c].agent = caller[c].agent /\ caller'[c].blocked
    <3>1. After(c, [caller[c] EXCEPT !.at = "read", !.blocked = TRUE])
      BY <1>6, BlockedStep
    <3> QED BY <3>1 DEF After, Busy
  <2> QED BY <1>2, <1>6, <2>1 DEF RecordBlocked, Called, Place, At
<1>7. ASSUME NEW c \in Callers, ReadTotals(c) PROVE Goal
  <2>1. /\ Others(c) /\ caller'[c].at = "bill" /\ caller'[c].dir = caller[c].dir
        /\ caller'[c].agent = caller[c].agent /\ caller'[c].blocked = caller[c].blocked
    <3>1. PICK o \in BOOLEAN : After(c, [caller[c] EXCEPT !.at = "bill", !.over = o])
      BY <1>7, TotalsStep
    <3> QED BY <3>1 DEF After, Busy
  <2> QED BY <1>2, <1>7, <2>1 DEF ReadTotals, Called, Place, At
<1>8. ASSUME NEW c \in Callers, Bill(c) PROVE Goal
  <2>1. After(c, [caller[c] EXCEPT !.at = "read"])
    BY <1>8, MoveStep DEF Bill, At, Place
  <2>2. /\ Others(c) /\ caller'[c].at = "read" /\ caller'[c].dir = caller[c].dir
        /\ caller'[c].agent = caller[c].agent /\ caller'[c].blocked = caller[c].blocked
    BY <2>1 DEF After, Busy
  <2> QED BY <1>2, <1>8, <2>2 DEF Bill, Called, Place, At
<1>9. ASSUME NEW c \in Callers, ReadUsage(c) PROVE Goal
  <2>1. /\ Others(c) /\ caller'[c].at = "report" /\ caller'[c].dir = caller[c].dir
        /\ caller'[c].agent = caller[c].agent /\ caller'[c].blocked = caller[c].blocked
    <3>1. PICK o \in BOOLEAN : After(c, [caller[c] EXCEPT !.at = "report", !.over = o])
      BY <1>9, ReadStep
    <3> QED BY <3>1 DEF After, Busy
  <2> QED BY <1>2, <1>9, <2>1 DEF ReadUsage, Called, Place, At
(* The answer, and the three kinds of evidence that follow it.              *)
<1>10. ASSUME NEW c \in Callers, Call(c) PROVE Goal
  <2> DEFINE d == caller[c].dir
  <2>1. /\ Others(c) /\ caller'[c].at = "write" /\ caller'[c].dir = d /\ caller'[c].next = 1
        /\ caller'[c].agent = caller[c].agent /\ caller'[c].blocked = caller[c].blocked
        /\ caller[c] \in Busy /\ caller[c].at = "call"
    <3>1. PICK s \in Sizes : After(c, [caller[c] EXCEPT !.at = "write", !.size = s, !.next = 1])
      BY <1>10, CallStep
    <3> QED BY <1>10, <3>1 DEF After, Busy, Call, At
  <2>2. Written(caller[c]) /\ d \in Dir
    BY <2>1 DEF Progress, Idle, Busy
  <2>3. /\ attempt'[d] = attempt[d] + 1 /\ attempt[d] \in Nat
        /\ UNCHANGED <<files, calls, guard, run>> /\ Elsewhere(d)
    BY <1>10, <2>2 DEF Call, TypeOK, Elsewhere, Same
  <2>4. caller[c].agent \in AgentId /\ Len(files[d]) >= 1 /\ Len(files[d]) \in Nat
    BY <2>1, <2>2, OutputFilesType DEF Written, Busy
  <2>5. Written(caller[c])'
    BY <2>1, <2>2, <2>3, <2>4 DEF Written, Called
  <2> QED BY <1>1, <2>1, <2>3, <2>5 DEF Place
<1>11. ASSUME NEW c \in Callers, WriteOutput(c) PROVE Goal
  <2> DEFINE d == caller[c].dir
             n == caller[c].next
  <2>1. /\ Others(c) /\ caller'[c].dir = d /\ caller'[c].next = n + 1
        /\ caller'[c].at = IF LastFile(c) THEN "evidence" ELSE "write"
        /\ caller'[c].agent = caller[c].agent /\ caller'[c].blocked = caller[c].blocked
        /\ caller[c] \in Busy /\ caller[c].at = "write"
    <3>1. After(c, [caller[c] EXCEPT !.at = IF LastFile(c) THEN "evidence" ELSE "write",
                       !.next = caller[c].next + 1])
      BY <1>11, WriteStep
    <3>2. caller[c].at = "write"
      BY <1>11 DEF WriteOutput, At
    <3> QED BY <3>1, <3>2 DEF After, Busy
  <2>2. Written(caller[c]) /\ d \in Dir /\ n \in Nat
    BY <2>1 DEF Progress, Idle, Busy
  <2>3. /\ files[d] \in Seq(Nat) /\ n \in 1..Len(files[d]) /\ run[d] = "none"
        /\ Len(files[d]) = Len(OutputFiles[caller[c].agent])
        /\ attempt[d] > 0 /\ \A i \in 1..(n - 1) : files[d][i] = attempt[d]
        /\ ~caller[c].blocked
    BY <2>1, <2>2 DEF Written, Called, TypeOK
  <2>4. /\ files'[d] = [files[d] EXCEPT ![n] = attempt[d]]
        /\ UNCHANGED <<calls, guard, run, attempt>> /\ Elsewhere(d)
    BY <1>11, <2>2 DEF WriteOutput, TypeOK, Elsewhere, Same
  <2>5. /\ DOMAIN files[d] = 1..Len(files[d]) /\ DOMAIN files'[d] = 1..Len(files[d])
        /\ Len(files'[d]) = Len(files[d]) /\ Len(files[d]) \in Nat
        /\ \A i \in 1..n : files'[d][i] = attempt[d]
    <3> DEFINE m == Len(files[d])
    <3>1. m \in Nat /\ DOMAIN files[d] = 1..m
      BY <2>3
    <3>2. DOMAIN files'[d] = 1..m /\ files' \in [Dir -> Seq(Nat)]
      BY <2>4, <3>1, TypeStep DEF TypeOK
    <3>3. Len(files'[d]) = m
      <4>1. files'[d] \in Seq(Nat)
        BY <2>2, <3>2
      <4> HIDE DEF d, m
      <4> QED BY <3>1, <3>2, <4>1
    <3>4. \A i \in 1..n : files'[d][i] = attempt[d]
      BY <2>2, <2>3, <2>4, <3>1
    <3> QED BY <3>1, <3>2, <3>3, <3>4
  <2>6. Written(caller[c])'
    <3>1. CASE LastFile(c)
      <4>1. n = Len(files[d]) /\ caller'[c].at = "evidence"
        BY <2>1, <2>3, <3>1 DEF LastFile
      <4> HIDE DEF n, d
      <4>2. \A i \in DOMAIN files'[d] : files'[d][i] = attempt[d]
        BY <2>5, <4>1
      <4> QED BY <2>1, <2>3, <2>4, <2>5, <4>1, <4>2 DEF Written, Called, d
    <3>2. CASE ~LastFile(c)
      <4>1. n # Len(files[d]) /\ caller'[c].at = "write"
        BY <2>1, <2>3, <3>2 DEF LastFile
      <4>2. n + 1 \in 1..Len(files'[d]) /\ (n + 1) - 1 = n
        BY <2>2, <2>3, <2>5, <4>1
      <4> QED BY <2>1, <2>3, <2>4, <2>5, <4>1, <4>2 DEF Written, Called
    <3> QED BY <3>1, <3>2
  <2> QED BY <1>1, <2>1, <2>4, <2>6 DEF Place
<1>12. ASSUME NEW c \in Callers, AppendCall(c) PROVE Goal
  <2> DEFINE d == caller[c].dir
  <2>1. After(c, [caller[c] EXCEPT !.at = "guard"]) /\ caller[c].at = "evidence"
    BY <1>12, MoveStep DEF AppendCall, At, Place
  <2>2. /\ Others(c) /\ caller'[c].at = "guard" /\ caller'[c].dir = d /\ caller[c] \in Busy
        /\ caller'[c].agent = caller[c].agent /\ caller'[c].blocked = caller[c].blocked
    BY <2>1 DEF After, Busy
  <2>3. Written(caller[c]) /\ d \in Dir
    BY <2>1, <2>2 DEF Progress, Idle, Busy
  <2>4. /\ calls'[d] = attempt[d]
        /\ UNCHANGED <<files, guard, run, attempt>> /\ Elsewhere(d)
    BY <1>12, <2>3 DEF AppendCall, TypeOK, Elsewhere, Same
  <2>5. Written(caller[c])'
    BY <2>1, <2>2, <2>3, <2>4 DEF Written, Called
  <2> QED BY <1>1, <2>1, <2>2, <2>4, <2>5 DEF Place
<1>13. ASSUME NEW c \in Callers, WriteGuardReport(c) PROVE Goal
  <2> DEFINE d == caller[c].dir
  <2>1. After(c, [caller[c] EXCEPT !.at = "total"]) /\ caller[c].at = "guard"
    BY <1>13, MoveStep DEF WriteGuardReport, At, Place
  <2>2. /\ Others(c) /\ caller'[c].at = "total" /\ caller'[c].dir = d /\ caller[c] \in Busy
        /\ caller'[c].agent = caller[c].agent /\ caller'[c].blocked = caller[c].blocked
    BY <2>1 DEF After, Busy
  <2>3. Written(caller[c]) /\ d \in Dir
    BY <2>1, <2>2 DEF Progress, Idle, Busy
  <2>4. /\ guard'[d] = attempt[d]
        /\ UNCHANGED <<files, calls, run, attempt>> /\ Elsewhere(d)
    BY <1>13, <2>3 DEF WriteGuardReport, TypeOK, Elsewhere, Same
  <2>5. Written(caller[c])'
    BY <2>1, <2>2, <2>3, <2>4 DEF Written, Called
  <2> QED BY <1>1, <2>1, <2>2, <2>4, <2>5 DEF Place
<1>14. ASSUME NEW c \in Callers, WriteReport(c) PROVE Goal
  <2> DEFINE d == caller[c].dir
  <2>1. /\ caller[c] \in Busy /\ caller[c].at = "report"
        /\ caller'[c] = [caller[c] EXCEPT !.at = "run"]
        /\ \A e \in Callers \ {c} :
             caller'[e] \in {caller[e], Idle} \/ (caller[e] \in Busy /\ caller'[e] = Leave(e))
    BY <1>14, ReportStep DEF WriteReport, At
  <2>2. /\ caller'[c].at = "run" /\ caller'[c].dir = d
        /\ caller'[c].agent = caller[c].agent /\ caller'[c].blocked = caller[c].blocked
    BY <2>1 DEF Busy
  <2>3. Written(caller[c]) /\ OwnDir(c, d) /\ UNCHANGED dirs
    BY <1>14, <2>1, OwnDirOf DEF Progress, Idle, WriteReport
  <2>4. Written(caller[c])'
    BY <2>1, <2>2, <2>3 DEF Written, Called
  <2>5. Elsewhere(d)
    BY <2>3 DEF Elsewhere, Same
  <2>6. Progress'
    BY <2>1, <2>3, <2>4, <2>5, ProgressFrame
  <2>7. OutputsOfOneCall'
    BY <2>3 DEF OutputsOfOneCall
  <2> QED BY <2>6, <2>7 DEF Goal
<1>15. ASSUME NEW t \in Threads, RestoreEnv(t) PROVE Goal
  <2>1. t \in Callers /\ caller'[t] = Idle /\ Others(t) /\ OwnDir(t, t)
    BY <1>15, CallerStep, CallersAssumption DEF RestoreEnv, Callers, OwnDir, Dir
  <2>2. Elsewhere(t)
    BY <1>15 DEF RestoreEnv, Elsewhere, Same
  <2>3. Progress'
    BY <2>1, <2>2, ProgressFrame DEF Others
  <2>4. OutputsOfOneCall'
    BY <1>15 DEF RestoreEnv, OutputsOfOneCall
  <2> QED BY <2>3, <2>4 DEF Goal
(* A request begins in a directory without a result.                        *)
<1>16. ASSUME NEW j \in Jobs, NEW i \in DOMAIN AgentOrder, BeginAgent(j, i) PROVE Goal
  <2> DEFINE d == <<j, AgentOrder[i]>>
  <2>1. /\ Worker \in Callers /\ Others(Worker) /\ AgentOrder[i] \in Agents
        /\ caller'[Worker] = Request(d, j, AgentOrder[i], "resolve")
    BY <1>16, BeginStep DEF Callers
  <2>2. /\ caller'[Worker].at = "resolve" /\ caller'[Worker].dir = d
        /\ caller'[Worker].agent = AgentOrder[i] /\ ~caller'[Worker].blocked
    BY <2>1 DEF Request
  <2>3. d \in JobDir /\ OwnDir(Worker, d) /\ d[2] = AgentOrder[i]
    BY <2>1 DEF JobDir, OwnDir, Dir
  <2>4. run[d] = "none" /\ Len(files[d]) = Len(OutputFiles[AgentOrder[i]]) /\ UNCHANGED dirs
    BY <1>16, <2>3 DEF BeginAgent, TypeOK
  <2>5. Written(caller[Worker])'
    <3> HIDE DEF d
    <3> QED BY <2>2, <2>4 DEF Written, Called
  <2>6. Elsewhere(d)
    BY <2>4 DEF Elsewhere, Same
  <2>7. Progress'
    <3> HIDE DEF d
    <3> QED BY <2>1, <2>3, <2>5, <2>6, ProgressFrame DEF Others
  <2>8. OutputsOfOneCall'
    BY <2>4 DEF OutputsOfOneCall
  <2> QED BY <2>7, <2>8 DEF Goal
<1>17. ASSUME NEW t \in Threads, NEW j \in Jobs, NEW a \in RerunAgents, rerun(t, j, a) PROVE Goal
  <2>1. /\ t \in Callers /\ Others(t) /\ a \in AgentId
        /\ caller'[t] = Request(t, j, a, "env")
    BY <1>17, RerunStep
  <2>2. /\ caller'[t].at = "env" /\ caller'[t].dir = t
        /\ caller'[t].agent = a /\ ~caller'[t].blocked
    BY <2>1 DEF Request
  <2>3. OwnDir(t, t) /\ t \in Dir
    BY CallersAssumption DEF OwnDir, Dir
  <2>4. run'[t] = "none" /\ files'[t] = Blank(a) /\ Elsewhere(t)
    BY <1>17, <2>3 DEF rerun, TypeOK, Elsewhere, Same
  <2>5. Len(files'[t]) = Len(OutputFiles[a])
    BY <2>1, <2>4, BlankType
  <2>6. Written(caller[t])'
    BY <2>2, <2>4, <2>5 DEF Written, Called
  <2>7. Progress'
    BY <2>1, <2>3, <2>4, <2>6, ProgressFrame DEF Others
  <2>8. OutputsOfOneCall'
    BY <2>3, <2>4, EvidenceFrame
  <2> QED BY <2>7, <2>8 DEF Goal
(* A call that fails leaves no result.                                      *)
<1>18. ASSUME NEW c \in Callers, CallFails(c) PROVE Goal
  <2> DEFINE d == caller[c].dir
  <2>1. /\ caller[c] \in Busy /\ caller'[c] = Leave(c) /\ Others(c) /\ caller[c].at = "call"
    BY <1>18, LeaveStep DEF CallFails, At
  <2>2. OwnDir(c, d) /\ d \in Dir /\ Written(caller[c])
    BY <2>1, OwnDirOf DEF Progress, Idle, Busy
  <2>3. run[d] = "none"
    BY <2>1, <2>2 DEF Written
  <2>4. Elsewhere(d) /\ run' = run
    BY <1>18, <2>2 DEF CallFails, TypeOK, Elsewhere, Same
  <2>5. Progress'
    BY <2>1, <2>2, <2>4, LeftWritten, ProgressFrame DEF Others
  <2>6. OutputsOfOneCall'
    BY <2>2, <2>3, <2>4, EvidenceFrame
  <2> QED BY <2>5, <2>6 DEF Goal
(* The result refers to what the call has left.                             *)
<1>19. ASSUME NEW c \in Callers, WriteRun(c) PROVE Goal
  <2> DEFINE d == caller[c].dir
  <2>1. /\ caller[c] \in Busy /\ caller'[c] = Leave(c) /\ Others(c) /\ caller[c].at = "run"
    BY <1>19, LeaveStep DEF WriteRun, At
  <2>2. OwnDir(c, d) /\ d \in Dir /\ Written(caller[c])
    BY <2>1, OwnDirOf DEF Progress, Idle, Busy
  <2>3. /\ Elsewhere(d) /\ UNCHANGED <<files, calls, guard, attempt>>
        /\ run'[d] = IF caller[c].blocked THEN "stopped" ELSE "done"
    BY <1>19, <2>2 DEF WriteRun, TypeOK, Elsewhere, Same
  <2>4. Progress'
    BY <2>1, <2>2, <2>3, LeftWritten, ProgressFrame DEF Others
  <2>5. OutputsOfOneCall'
    <3>1. CASE caller[c].blocked
      BY <2>2, <2>3, <3>1, EvidenceFrame
    <3>2. CASE ~caller[c].blocked
      <4>1. /\ attempt[d] > 0 /\ calls[d] = attempt[d] /\ guard[d] = attempt[d]
            /\ \A i \in DOMAIN files[d] : files[d][i] = attempt[d]
        BY <2>1, <2>2, <3>2 DEF Written, Called
      <4> QED BY <2>2, <2>3, <4>1 DEF OutputsOfOneCall, Elsewhere, Same
    <3> QED BY <3>1, <3>2
  <2> QED BY <2>4, <2>5 DEF Goal
<1>20. ASSUME KillWorker \/ KillServer PROVE Goal
  <2>1. PICK C \in SUBSET Callers :
          \A c \in Callers : caller'[c] = IF c \in C THEN Idle ELSE caller[c]
    BY <1>20, KillEffect
  <2>2. UNCHANGED dirs
    BY <1>20 DEF KillWorker, KillServer, Kill
  <2>3. ASSUME NEW c \in Callers, caller'[c] # Idle PROVE Written(caller[c])'
    <3>1. caller'[c] = caller[c] /\ Written(caller[c])
      BY <2>1, <2>3 DEF Progress
    <3> QED BY <2>2, <3>1 DEF Written
  <2>4. OutputsOfOneCall'
    BY <2>2 DEF OutputsOfOneCall
  <2> QED BY <2>3, <2>4 DEF Goal, Progress
<1>21. CASE UNCHANGED vars
  BY <1>21 DEF vars, Goal, Progress, Written, OutputsOfOneCall
<1>22. ASSUME NEW c \in Callers, run_agent(c) PROVE Goal
  BY <1>4, <1>5, <1>6, <1>7, <1>8, <1>9, <1>10, <1>11, <1>12, <1>13, <1>14, <1>18, <1>19, <1>22
  DEF run_agent
<1> QED BY <1>3, <1>15, <1>16, <1>17, <1>20, <1>21, <1>22 DEF Next

(* Before the first call there is no evidence. *)
LEMMA ProgressInit == Init => Owned /\ Progress /\ OutputsOfOneCall
BY DEF Init, Idle, Owned, InPlace, Progress, OutputsOfOneCall

(* A finished agent's files, guard report and last log entry are those of   *)
(* one and the same call, however its earlier attempts ended (harness.py    *)
(* 1019-1188).                                                              *)
THEOREM OneCallEach == Spec => []OutputsOfOneCall
<1> DEFINE I == TypeOK /\ Owned /\ Progress /\ OutputsOfOneCall
<1>1. Init => I
  BY TypeInit, ProgressInit
<1>2. I /\ [Next]_vars => I'
  BY TypeStep, OwnedStep, ProgressStep
<1>3. I => OutputsOfOneCall
  OBVIOUS
<1> QED BY <1>1, <1>2, <1>3, PTL DEF Spec

-----------------------------------------------------------------------------
(* Results and their bills *)

(* Agents of a job that have been paid for: those with a result, and the    *)
(* one the worker has billed and not yet recorded.                          *)
Paid(j) ==
  {a \in Agents :
     \/ run[<<j, a>>] = "done"
     \/ /\ caller[Worker].at \in {"read", "report", "run"}
        /\ ~caller[Worker].blocked
        /\ caller[Worker].dir = <<j, a>>}
Covered == \A j \in Jobs : Cardinality(Paid(j)) <= usage[j].calls
Stopped ==
  /\ \A d \in JobDir : run[d] = "stopped" => usage[d[1]].stop
  /\ \A c \in Callers : caller[c] # Idle /\ caller[c].blocked => usage[caller[c].bill].stop

(* There are finitely many agents. *)
LEMMA AgentsFinite == IsFiniteSet(Agents)
<1> DEFINE n == Len(AgentOrder)
           f == [i \in 1..n |-> AgentOrder[i]]
<1>1. n \in Nat /\ DOMAIN AgentOrder = 1..n
  BY AgentsAssumption
<1>2. IsFiniteSet(1..n)
  BY <1>1, FS_Interval
<1>3. Agents = {AgentOrder[i] : i \in 1..n}
  BY <1>1 DEF Agents
<1> HIDE DEF n
<1>4. f \in Surjection(1..n, Agents)
  BY <1>3 DEF Surjection
<1> QED BY <1>2, <1>4, FS_Surjection

(* Sets of agents have a size, and a smaller set the smaller one. *)
LEMMA PaidSize ==
  ASSUME NEW S, NEW T, S \subseteq T, T \subseteq Agents
  PROVE  /\ IsFiniteSet(T)
         /\ Cardinality(S) \in Nat /\ Cardinality(T) \in Nat
         /\ Cardinality(S) <= Cardinality(T)
<1>1. IsFiniteSet(T)
  BY AgentsFinite, FS_Subset
<1> QED BY <1>1, FS_Subset, FS_CardinalityType

(* Nothing is taken off a bill. *)
LEMMA UsageGrows ==
  ASSUME TypeOK, [Next]_vars
  PROVE  \A j \in Jobs : /\ usage'[j].calls >= usage[j].calls
                         /\ usage[j].stop => usage'[j].stop
<1> USE DEF ledger
<1>0. usage \in [Jobs -> Usage]
  BY DEF TypeOK
<1>1. ASSUME NEW c \in Callers, Bill(c)
      PROVE  \A j \in Jobs : usage'[j].calls >= usage[j].calls /\ (usage[j].stop => usage'[j].stop)
  BY <1>0, <1>1 DEF Bill, Usage
<1>2. ASSUME NEW c \in Callers, RecordBlocked(c)
      PROVE  \A j \in Jobs : usage'[j].calls >= usage[j].calls /\ (usage[j].stop => usage'[j].stop)
  BY <1>0, <1>2 DEF RecordBlocked, Usage
<1>3. ASSUME usage' = usage
      PROVE  \A j \in Jobs : usage'[j].calls >= usage[j].calls /\ (usage[j].stop => usage'[j].stop)
  <2>1. \A j \in Jobs : usage[j].calls \in Nat
    BY <1>0 DEF Usage
  <2>2. \A j \in Jobs : usage[j].calls >= usage[j].calls
    BY <2>1
  <2>3. \A j \in Jobs : usage[j].stop => usage[j].stop
    BY Zenon
  <2> QED BY <1>3, <2>2, <2>3, Zenon
<1>4. \/ \E c \in Callers : Bill(c) \/ RecordBlocked(c)
      \/ usage' = usage
  BY Zenon DEF Next, run_agent, BeginAgent, rerun, SetEnv, RestoreEnv, Resolve, PreCheck, Call,
     CallFails, WriteOutput, AppendCall, WriteGuardReport, ReadTotals, ReadUsage, WriteReport,
     WriteRun, KillWorker, KillServer, Kill, vars
<1> QED BY <1>1, <1>2, <1>3, <1>4

(* Results of a job's agents come from the worker. *)
LEMMA RunStep ==
  ASSUME TypeOK, Owned, [Next]_vars, NEW d \in JobDir, run'[d] # run[d]
  PROVE  WriteRun(Worker) /\ d = caller[Worker].dir
<1>1. \/ \E c \in Callers : WriteRun(c)
      \/ \E t \in Threads, j \in Jobs, a \in RerunAgents : rerun(t, j, a)
      \/ run' = run
  BY DEF Next, run_agent, BeginAgent, SetEnv, RestoreEnv, Resolve, PreCheck, RecordBlocked, Call,
     CallFails, WriteOutput, AppendCall, WriteGuardReport, ReadTotals, ReadUsage, WriteReport,
     Bill, KillWorker, KillServer, Kill, vars, dirs
<1>2. ASSUME NEW t \in Threads, NEW j \in Jobs, NEW a \in RerunAgents, rerun(t, j, a)
      PROVE  FALSE
  BY <1>2, DirAssumption DEF rerun, TypeOK, Dir
<1>3. PICK c \in Callers : WriteRun(c)
  BY <1>1, <1>2
<1>4. d = caller[c].dir
  BY <1>3 DEF WriteRun, TypeOK, Dir
<1>5. c = Worker
  BY <1>3, <1>4, OwnDirOf, DirAssumption DEF WriteRun, At, OwnDir, Callers
<1> QED BY <1>3, <1>4, <1>5

Late == {"read", "report", "run"}

(* A caller that keeps its request.  Past the call it stays past the call.  *)
Keeps(c) ==
  /\ caller[c] \in Busy
  /\ caller'[c].dir = caller[c].dir
  /\ caller'[c].bill = caller[c].bill
  /\ caller'[c].blocked = caller[c].blocked
  /\ caller'[c].at \in Late => caller[c].at \in Late

(* What can become of a caller in a step. *)
Moves(c) ==
  \/ caller'[c] = caller[c] \/ caller'[c] = Idle
  \/ caller'[c].at \in {"env", "resolve"} /\ ~caller'[c].blocked
  \/ Keeps(c)
  \/ Resolve(c) /\ caller'[c].at = "check" /\ caller'[c].blocked = caller[c].blocked
  \/ RecordBlocked(c) /\ caller'[c].bill = caller[c].bill /\ caller'[c].blocked
  \/ /\ Bill(c) /\ caller'[c].dir = caller[c].dir /\ caller'[c].bill = caller[c].bill
     /\ caller'[c].blocked = caller[c].blocked

(* Each step moves each caller in one of these ways. *)
LEMMA CallerMoves ==
  ASSUME TypeOK, [Next]_vars
  PROVE  \A c \in Callers : Moves(c)
<1> DEFINE Goal == \A c \in Callers : Moves(c)
<1>1. ASSUME NEW c \in Callers, Others(c), Moves(c) PROVE Goal
  BY <1>1 DEF Others, Moves
<1> HIDE DEF Goal
<1> SUFFICES Goal
  BY DEF Goal
<1>2. ASSUME NEW j \in Jobs, NEW i \in DOMAIN AgentOrder, BeginAgent(j, i) PROVE Goal
  <2>1. Worker \in Callers
    BY DEF Callers
  <2>2. caller'[Worker] = Request(<<j, AgentOrder[i]>>, j, AgentOrder[i], "resolve")
    BY <1>2, BeginStep
  <2>3. Moves(Worker)
    BY <2>2 DEF Request, Moves
  <2> QED BY <1>1, <1>2, <2>1, <2>3, BeginStep
<1>3. ASSUME NEW t \in Threads, NEW j \in Jobs, NEW a \in RerunAgents, rerun(t, j, a) PROVE Goal
  <2>1. caller'[t] = Request(t, j, a, "env")
    BY <1>3, RerunStep
  <2>2. Moves(t)
    BY <2>1 DEF Request, Moves
  <2> QED BY <1>1, <1>3, <2>2, RerunStep
<1>4. ASSUME NEW t \in Threads, RestoreEnv(t) PROVE Goal
  <2>1. t \in Callers /\ caller'[t] = Idle /\ Others(t)
    BY <1>4, CallerStep DEF RestoreEnv, Callers
  <2> QED BY <1>1, <2>1 DEF Moves
<1>5. ASSUME NEW c \in Callers, NEW p \in Place, caller[c].at \in Place, Goto(c, p),
             p \in Late => caller[c].at \in Late
      PROVE  Goal
  <2>1. After(c, [caller[c] EXCEPT !.at = p])
    BY <1>5, MoveStep
  <2>2. Moves(c)
    BY <1>5, <2>1 DEF After, Busy, Moves, Keeps
  <2> QED BY <1>1, <2>1, <2>2 DEF After
<1>6. ASSUME NEW c \in Callers,
             SetEnv(c) \/ PreCheck(c) \/ AppendCall(c) \/ WriteGuardReport(c)
      PROVE  Goal
  BY <1>5, <1>6 DEF SetEnv, PreCheck, AppendCall, WriteGuardReport, At, Place, Late
<1>7. ASSUME NEW c \in Callers, Resolve(c) PROVE Goal
  <2>1. After(c, [caller[c] EXCEPT !.at = "check",
                    !.bill = IF c = Worker \/ env = None THEN caller[c].bill ELSE env])
    BY <1>7, ResolveStep
  <2>2. caller'[c].at = "check" /\ caller'[c].blocked = caller[c].blocked
    BY <2>1 DEF After, Busy
  <2> QED BY <1>1, <1>7, <2>1, <2>2 DEF After, Moves
<1>8. ASSUME NEW c \in Callers, RecordBlocked(c) PROVE Goal
  <2>1. After(c, [caller[c] EXCEPT !.at = "read", !.blocked = TRUE])
    BY <1>8, BlockedStep
  <2>2. caller'[c].bill = caller[c].bill /\ caller'[c].blocked
    BY <2>1 DEF After, Busy
  <2> QED BY <1>1, <1>8, <2>1, <2>2 DEF After, Moves
<1>9. ASSUME NEW c \in Callers, Bill(c) PROVE Goal
  <2>1. After(c, [caller[c] EXCEPT !.at = "read"])
    BY <1>9, MoveStep DEF Bill, At, Place
  <2>2. /\ caller'[c].dir = caller[c].dir /\ caller'[c].bill = caller[c].bill
        /\ caller'[c].blocked = caller[c].blocked
    BY <2>1 DEF After, Busy
  <2> QED BY <1>1, <1>9, <2>1, <2>2 DEF After, Moves
<1>10. ASSUME NEW c \in Callers, Call(c) PROVE Goal
  <2>1. PICK s \in Sizes : After(c, [caller[c] EXCEPT !.at = "write", !.size = s, !.next = 1])
    BY <1>10, CallStep
  <2>2. Keeps(c)
    BY <2>1 DEF After, Busy, Keeps, Late
  <2> QED BY <1>1, <2>1, <2>2 DEF After, Moves
<1>11. ASSUME NEW c \in Callers, WriteOutput(c) PROVE Goal
  <2> DEFINE place == IF LastFile(c) THEN "evidence" ELSE "write"
  <2>1. After(c, [caller[c] EXCEPT !.at = place, !.next = caller[c].next + 1])
    BY <1>11, WriteStep
  <2>2. place \notin Late
    BY DEF Late
  <2> HIDE DEF place
  <2>3. Keeps(c)
    BY <2>1, <2>2 DEF After, Busy, Keeps
  <2> QED BY <1>1, <2>1, <2>3 DEF After, Moves
<1>12. ASSUME NEW c \in Callers, ReadTotals(c) PROVE Goal
  <2>1. PICK o \in BOOLEAN : After(c, [caller[c] EXCEPT !.at = "bill", !.over = o])
    BY <1>12, TotalsStep
  <2>2. Keeps(c)
    BY <2>1 DEF After, Busy, Keeps, Late
  <2> QED BY <1>1, <2>1, <2>2 DEF After, Moves
<1>13. ASSUME NEW c \in Callers, ReadUsage(c) PROVE Goal
  <2>1. PICK o \in BOOLEAN : After(c, [caller[c] EXCEPT !.at = "report", !.over = o])
    BY <1>13, ReadStep
  <2>2. Keeps(c)
    BY <1>13, <2>1 DEF ReadUsage, At, After, Busy, Keeps, Late
  <2> QED BY <1>1, <2>1, <2>2 DEF After, Moves
<1>14. ASSUME NEW c \in Callers, caller[c] \in Busy, caller'[c] = Leave(c) PROVE Moves(c)
  <2>1. CASE c = Worker
    BY <1>14, <2>1 DEF Leave, Moves
  <2>2. CASE c # Worker
    BY <1>14, <2>2 DEF Leave, Busy, Moves, Keeps, Late
  <2> QED BY <2>1, <2>2
<1>15. ASSUME NEW c \in Callers, CallFails(c) \/ WriteRun(c) PROVE Goal
  BY <1>1, <1>14, <1>15, LeaveStep
<1>16. ASSUME NEW c \in Callers, WriteReport(c) PROVE Goal
  <2>1. caller[c] \in Busy /\ caller'[c] = [caller[c] EXCEPT !.at = "run"] /\ At(c, "report")
    BY <1>16, ReportStep DEF WriteReport
  <2>2. Moves(c)
    BY <2>1 DEF At, Busy, Moves, Keeps, Late
  <2>3. ASSUME NEW d \in Callers \ {c} PROVE Moves(d)
    <3>1. caller'[d] = caller[d] \/ (caller[d] \in Busy /\ caller'[d] = Leave(d))
      BY <1>16, ReportStep
    <3> QED BY <1>14, <3>1 DEF Moves
  <2> QED BY <2>2, <2>3 DEF Goal
<1>17. ASSUME KillWorker \/ KillServer PROVE Goal
  <2>1. PICK C \in SUBSET Callers :
          \A c \in Callers : caller'[c] = IF c \in C THEN Idle ELSE caller[c]
    BY <1>17, KillEffect
  <2> QED BY <2>1 DEF Goal, Moves
<1>18. CASE UNCHANGED vars
  BY <1>18 DEF vars, Goal, Moves
<1>19. ASSUME NEW c \in Callers, run_agent(c) PROVE Goal
  BY <1>6, <1>7, <1>8, <1>9, <1>10, <1>11, <1>12, <1>13, <1>15, <1>16, <1>19 DEF run_agent
<1>20. ASSUME NEW t \in Threads, SetEnv(t) PROVE Goal
  BY <1>6, <1>20 DEF Callers
<1> QED BY <1>2, <1>3, <1>4, <1>17, <1>18, <1>19, <1>20 DEF Next

(* Who comes to be paid for has just been billed. *)
LEMMA PaidStep ==
  ASSUME TypeOK, Owned, Progress, Covered, [Next]_vars
  PROVE  Covered'
<1> DEFINE w == caller[Worker]
<1>0. Worker \in Callers
  BY DEF Callers
<1>1. \A j \in Jobs, a \in Agents : <<j, a>> \in JobDir
  BY DEF JobDir
<1>2. ASSUME NEW j \in Jobs, NEW a \in Agents, a \in Paid(j)', a \notin Paid(j)
      PROVE  Bill(Worker) /\ w.dir = <<j, a>>
  <2>1. CASE run'[<<j, a>>] = "done"
    <3>1. run[<<j, a>>] # "done"
      BY <1>2 DEF Paid
    <3>2. WriteRun(Worker) /\ <<j, a>> = w.dir
      BY <1>1, <2>1, <3>1, RunStep
    <3>3. run'[<<j, a>>] = (IF w.blocked THEN "stopped" ELSE "done") /\ w.at = "run"
      BY <1>1, <3>2 DEF WriteRun, At, TypeOK, Dir
    <3> QED BY <1>2, <2>1, <3>2, <3>3 DEF Paid
  <2>2. CASE run'[<<j, a>>] # "done"
    <3>1. /\ caller'[Worker].at \in Late /\ ~caller'[Worker].blocked
          /\ caller'[Worker].dir = <<j, a>>
      BY <1>2, <2>2 DEF Paid, Late
    <3>2. ~(w.at \in Late /\ ~w.blocked /\ w.dir = <<j, a>>)
      BY <1>2 DEF Paid, Late
    <3>3. Moves(Worker)
      BY <1>0, CallerMoves
    <3>4. ~Keeps(Worker) /\ caller'[Worker] # w /\ caller'[Worker] # Idle
      BY <3>1, <3>2 DEF Keeps, Idle, Late
    <3> QED BY <3>1, <3>3, <3>4 DEF Moves, Late
  <2> QED BY <2>1, <2>2
<1>3. ASSUME NEW j \in Jobs PROVE Cardinality(Paid(j)') <= usage'[j].calls
  <2>1. usage[j].calls \in Nat /\ usage'[j].calls \in Nat
    BY TypeStep DEF TypeOK, Usage
  <2>2. Paid(j) \subseteq Agents /\ Paid(j)' \subseteq Agents
    BY DEF Paid
  <2>3. Cardinality(Paid(j)) <= usage[j].calls
    BY DEF Covered
  <2>4. CASE Paid(j)' \subseteq Paid(j)
    <3>1. usage'[j].calls >= usage[j].calls
      BY UsageGrows
    <3>2. /\ Cardinality(Paid(j)') \in Nat /\ Cardinality(Paid(j)) \in Nat
          /\ Cardinality(Paid(j)') <= Cardinality(Paid(j))
      BY <2>2, <2>4, PaidSize
    <3> QED BY <2>1, <2>3, <3>1, <3>2
  <2>5. CASE ~(Paid(j)' \subseteq Paid(j))
    <3>1. PICK a \in Agents : a \in Paid(j)' /\ a \notin Paid(j)
      BY <2>2, <2>5
    <3>2. Bill(Worker) /\ w.dir = <<j, a>>
      BY <1>2, <3>1
    <3>3. w.bill = j
      BY <1>0, <3>2 DEF Owned, InPlace, Bill, At
    <3>4. usage'[j].calls = usage[j].calls + 1
      BY <1>0, <3>2, <3>3, BillEffect
    <3>5. Paid(j)' \subseteq Paid(j) \cup {a}
      BY <1>2, <2>2, <3>2
    <3>6. /\ Cardinality(Paid(j) \cup {a}) = Cardinality(Paid(j)) + 1
          /\ Cardinality(Paid(j)) \in Nat
      BY <2>2, <3>1, PaidSize, FS_AddElement
    <3>7. /\ Cardinality(Paid(j)') \in Nat
          /\ Cardinality(Paid(j)') <= Cardinality(Paid(j) \cup {a})
      BY <2>2, <3>1, <3>5, PaidSize
    <3> QED BY <2>1, <2>3, <3>4, <3>6, <3>7
  <2> QED BY <2>4, <2>5
<1> QED BY <1>3 DEF Covered

(* Who is stopped has an entry that says so. *)
LEMMA StoppedStep ==
  ASSUME TypeOK, Owned, Progress, Stopped, [Next]_vars
  PROVE  Stopped'
<1>1. ASSUME NEW c \in Callers, caller'[c] # Idle, caller'[c].blocked
      PROVE  usage'[caller'[c].bill].stop
  <2>1. CASE RecordBlocked(c) /\ caller'[c].bill = caller[c].bill
    <3>1. caller[c] \in Busy
      BY <2>1, BlockedStep DEF After
    <3>2. caller[c].bill \in Jobs
      BY <3>1 DEF Busy
    <3> QED BY <2>1, <3>2 DEF RecordBlocked, TypeOK, Usage
  <2>2. CASE caller[c] \in Busy /\ caller[c].blocked /\ caller'[c].bill = caller[c].bill
    <3>1. caller[c] # Idle /\ caller[c].bill \in Jobs
      BY <2>2 DEF Busy, Idle, Place
    <3>2. usage[caller[c].bill].stop
      BY <2>2, <3>1 DEF Stopped
    <3> QED BY <2>2, <3>1, <3>2, UsageGrows
  <2>3. CASE caller'[c] = caller[c]
    BY <1>1, <2>2, <2>3 DEF TypeOK
  <2>4. CASE Resolve(c) /\ caller'[c].blocked = caller[c].blocked
    <3>1. caller[c] \in Busy /\ caller[c].at = "resolve"
      BY <2>4, ResolveStep DEF Resolve, At, After
    <3>2. ~caller[c].blocked
      BY <3>1 DEF Progress, Written, Idle, Busy, Place
    <3> QED BY <1>1, <2>4, <3>2
  <2>5. CASE Bill(c) /\ caller'[c].bill = caller[c].bill /\ caller'[c].blocked = caller[c].blocked
    <3>1. caller[c] \in Busy
      BY <2>5, BillEffect
    <3> QED BY <1>1, <2>2, <2>5, <3>1
  <2>6. CASE Keeps(c)
    BY <1>1, <2>2, <2>6 DEF Keeps
  <2> QED BY <1>1, <2>1, <2>3, <2>4, <2>5, <2>6, CallerMoves DEF Moves
<1>2. ASSUME NEW d \in JobDir, run'[d] = "stopped" PROVE usage'[d[1]].stop
  <2>0. d[1] \in Jobs
    BY DEF JobDir
  <2>1. CASE run[d] = "stopped"
    BY <2>0, <2>1, UsageGrows DEF Stopped
  <2>2. CASE run[d] # "stopped"
    <3>1. WriteRun(Worker) /\ d = caller[Worker].dir
      BY <1>2, <2>2, RunStep
    <3>2. caller[Worker].at = "run" /\ Worker \in Callers /\ caller[Worker].blocked
      BY <1>2, <3>1 DEF WriteRun, At, TypeOK, Dir, Callers
    <3>3. d = <<caller[Worker].job, caller[Worker].agent>> /\ caller[Worker].bill = d[1]
      BY <3>1, <3>2 DEF Owned, InPlace
    <3>4. usage[d[1]].stop
      BY <3>2, <3>3 DEF Stopped, Idle
    <3> QED BY <2>0, <3>4, UsageGrows
  <2> QED BY <2>1, <2>2
<1> QED BY <1>1, <1>2 DEF Stopped

(* Nothing is paid for and nobody stopped before the first call. *)
LEMMA PaidInit == Init => Covered /\ Stopped
<1> SUFFICES ASSUME Init PROVE Covered /\ Stopped
  OBVIOUS
<1>1. Worker \in Callers
  BY DEF Callers
<1>2. \A j \in Jobs : Paid(j) = {}
  BY <1>1 DEF Init, Paid, Idle, Dir, JobDir
<1>3. Covered
  <2>1. \A j \in Jobs : usage[j].calls = 0
    BY DEF Init
  <2>2. Cardinality({}) = 0
    BY FS_EmptySet
  <2> QED BY <1>2, <2>1, <2>2 DEF Covered
<1>4. Stopped
  BY DEF Init, Stopped, Dir, Idle
<1> QED BY <1>3, <1>4

(* No agent of a job has a result that the job's log has not been charged   *)
(* for, and none is stopped but by what the log says, whatever is killed or *)
(* fails (harness.py 209-217, 1113-1159).                                   *)
THEOREM ResultsArePaid == Spec => []NoFreeRun
<1> DEFINE I == TypeOK /\ Owned /\ Progress /\ OutputsOfOneCall /\ Covered /\ Stopped
<1>1. Init => I
  BY TypeInit, ProgressInit, PaidInit
<1>2. I /\ [Next]_vars => I'
  BY TypeStep, OwnedStep, ProgressStep, PaidStep, StoppedStep
<1>3. I => NoFreeRun
  <2> SUFFICES ASSUME I, NEW j \in Jobs
               PROVE  /\ Cardinality({a \in Agents : run[<<j, a>>] = "done"}) <= usage[j].calls
                      /\ (\E a \in Agents : run[<<j, a>>] = "stopped") => usage[j].stop
    BY DEF NoFreeRun
  <2> DEFINE Done == {a \in Agents : run[<<j, a>>] = "done"}
  <2>1. Done \subseteq Paid(j) /\ Paid(j) \subseteq Agents
    BY DEF Paid
  <2>2. /\ Cardinality(Done) \in Nat /\ Cardinality(Paid(j)) \in Nat
        /\ Cardinality(Done) <= Cardinality(Paid(j))
    BY <2>1, PaidSize
  <2>3. Cardinality(Paid(j)) <= usage[j].calls /\ usage[j].calls \in Nat
    BY DEF Covered, TypeOK, Usage
  <2>4. Cardinality(Done) <= usage[j].calls
    BY <2>2, <2>3
  <2>5. ASSUME NEW a \in Agents, run[<<j, a>>] = "stopped" PROVE usage[j].stop
    <3>1. <<j, a>> \in JobDir /\ <<j, a>>[1] = j
      BY DEF JobDir
    <3>2. Stopped
      OBVIOUS
    <3> HIDE DEF I
    <3> QED BY <2>5, <3>1, <3>2 DEF Stopped
  <2> QED BY <2>4, <2>5
<1> QED BY <1>1, <1>2, <1>3, PTL DEF Spec
=============================================================================
