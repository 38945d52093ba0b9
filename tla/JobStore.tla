------------------------------ MODULE JobStore ------------------------------
(***************************************************************************)
(* The job directories under EAM_JOB_ROOT and everyone who shares them:    *)
(* the API server, whose requests submit root jobs and spawn children      *)
(* (jobstore/store.py, api/jobs_api.py), the operator who approves, and    *)
(* the worker daemon, which visits all job directories in one pass after   *)
(* another (worker/main.py, orchestrator/workflow.py advance_all_once).    *)
(*                                                                         *)
(* A job is created by several writes; a spawn checks the budget on a log  *)
(* it read before it creates the child and appends SPAWNED after; there is *)
(* no lock, and a process may be killed between any two writes.  Of a      *)
(* visit of the daemon there are only the writes that a spawn reads and    *)
(* what it leaves behind; IdeaWorkflow and BlueprintWorkflow take it apart.*)
(***************************************************************************)
EXTENDS JobIds, FiniteSets

CONSTANTS
  Requests,     \* threads of the API server
  Rank,         \* order of the job ids, in which the daemon visits them
  None,         \* "choice" of a submission
  MaxCrashes    \* how often a process is killed

ASSUME RankAssumption == Rank \in [Job -> Nat]
ASSUME NoneAssumption == None \notin Choice
ASSUME RequestsAssumption == IsFiniteSet(Requests)

VARIABLES
  dir,       \* job directories
  spec,      \* jobs with a job_spec.json
  input,     \* jobs with their copy of the spec under inputs/
  ref,       \* jobs with an outputs/policy_bundle_ref.json
  log,       \* event types in events.jsonl; {} while there is no such file
  spawned,   \* number of SPAWNED events that count as a child
  children,  \* the choices those events name
  offers,    \* choices the job's proposals and leaderboard files offer
  req,       \* what each thread is doing
  up,        \* is the daemon running?
  todo,      \* directories left to visit in the daemon's pass
  crashes

files == <<dir, spec, input, ref>>
logs == <<log, spawned, children>>
daemon == <<up, todo>>
vars == <<files, logs, offers, req, daemon, crashes>>

EventType == {"SUBMITTED", "WAITING_APPROVAL", "APPROVED", "REGISTRY_UPDATED",
              "IMPROVEMENTS_PROPOSED", "ACKNOWLEDGED", "SPAWNED", "STOPPED_BUDGET",
              "DONE", "ERROR"}
Place == {"check", "mkdir", "spec", "input", "log", "ref", "record", "reply"}
Request == [at : Place, base : Job, choice : Choice \cup {None}]
Idle == [at |-> "idle"]

(* The job a request creates. *)
Target(q) == IF q.choice = None THEN q.base ELSE Child(q.base, q.choice)

(* The files are there in the order in which they are created. *)
TypeOK ==
  /\ dir \subseteq Job
  /\ spec \subseteq dir
  /\ input \subseteq spec
  /\ ref \subseteq spec
  /\ log \in [Job -> SUBSET EventType]
  /\ spawned \in [Job -> Nat]
  /\ children \in [Job -> SUBSET Choice]
  /\ offers \in [Job -> SUBSET Choice]
  /\ req \in [Requests -> Request \cup {Idle}]
  /\ \A r \in Requests : req[r] # Idle => Target(req[r]) \in Job
  /\ up \in BOOLEAN
  /\ todo \subseteq Job
  /\ crashes \in Nat

Init ==
  /\ dir = {} /\ spec = {} /\ input = {} /\ ref = {}
  /\ log = [j \in Job |-> {}]
  /\ spawned = [j \in Job |-> 0]
  /\ children = [j \in Job |-> {}]
  /\ offers = [j \in Job |-> {}]
  /\ req = [r \in Requests |-> Idle]
  /\ up = TRUE
  /\ todo = {}
  /\ crashes = 0

append_event(j, e) == log' = [log EXCEPT ![j] = @ \cup {e}]
Ended(j) == log[j] \cap {"DONE", "ERROR"} # {}
Approved(j) == "APPROVED" \in log[j]
Registered(j) == "REGISTRY_UPDATED" \in log[j]
Proposed(j) == "IMPROVEMENTS_PROPOSED" \in log[j]

-----------------------------------------------------------------------------
(* Requests *)

At(r, place) == req[r].at = place
Move(r, place) == req' = [req EXCEPT ![r] = [@ EXCEPT !.at = place]]

(* Every writer of a file goes through the same <name>.tmp: once one has    *)
(* renamed it, the others that had written it fail and answer 500.          *)
SameWrite(q, r) == req[q].at = req[r].at /\ Target(req[q]) = Target(req[r])
Publish(r, place) ==
  \E losers \in SUBSET {q \in Requests \ {r} : SameWrite(q, r)} :
    req' = [q \in Requests |->
              CASE q = r        -> [req[q] EXCEPT !.at = place]
                [] q \in losers -> Idle
                [] OTHER        -> req[q]]

(* Slip: one child too many. *)
BelowOrAtLimit(j) ==
  /\ Limit(j).spawn # 0 => spawned[j] <= Limit(j).spawn
  /\ MayDeepen(j)

(* Slip: the depth of the lineage is not looked at. *)
WithinSpawnLimit(j) == Limit(j).spawn # 0 => spawned[j] < Limit(j).spawn

WithinBudget(j) ==
  /\ Limit(j).spawn # 0 => spawned[j] < Limit(j).spawn
  /\ MayDeepen(j)

submit(r, root) ==
  /\ At(r, "idle")
  /\ req' = [req EXCEPT ![r] =
       [at |-> "check", base |-> RootJob(root), choice |-> None]]
  /\ UNCHANGED <<files, logs, offers, daemon, crashes>>

(* Slip: a choice the job has not offered (yet). *)
SpawnUnoffered(r, j, c) ==
  /\ At(r, "idle")
  /\ j \in spec
  /\ WithinBudget(j)
  /\ Generation(j) < MaxDepth
  /\ req' = [req EXCEPT ![r] = [at |-> "check", base |-> j, choice |-> c]]
  /\ UNCHANGED <<files, logs, offers, daemon, crashes>>

(* spawn_child_job_from_proposal and spawn_child_job_from_sweep_best, up to *)
(* the check of the budget on the log as it is now.                         *)
spawn(r, j, c) ==
  /\ At(r, "idle")
  /\ j \in spec
  /\ c \in offers[j]
  /\ WithinBudget(j)
  /\ Generation(j) < MaxDepth
  /\ req' = [req EXCEPT ![r] = [at |-> "check", base |-> j, choice |-> c]]
  /\ UNCHANGED <<files, logs, offers, daemon, crashes>>

(* The other outcome of that check: evidence in the log, answer 409. *)
SpawnStopped(r, j) ==
  /\ At(r, "idle")
  /\ j \in spec
  /\ offers[j] # {}
  /\ ~WithinBudget(j)
  /\ append_event(j, "STOPPED_BUDGET")
  /\ UNCHANGED <<files, spawned, children, offers, req, daemon, crashes>>

(* Slip: a directory is taken for a job. *)
CheckDirectory(r) ==
  /\ At(r, "check")
  /\ Move(r, IF Target(req[r]) \in dir THEN "ref" ELSE "mkdir")
  /\ UNCHANGED <<files, logs, offers, daemon, crashes>>

(* create_job_from_blueprint / _ideaspec: job_spec.json and events.jsonl    *)
(* say that the job exists; only its policy reference is written again.     *)
Check(r) ==
  /\ At(r, "check")
  /\ LET j == Target(req[r]) IN
       Move(r, IF j \in spec /\ log[j] # {} THEN "ref" ELSE "mkdir")
  /\ UNCHANGED <<files, logs, offers, daemon, crashes>>

MakeDirectory(r) ==
  /\ At(r, "mkdir")
  /\ dir' = dir \cup {Target(req[r])}
  /\ Move(r, "spec")
  /\ UNCHANGED <<spec, input, ref, logs, offers, daemon, crashes>>

WriteSpec(r) ==
  /\ At(r, "spec")
  /\ spec' = spec \cup {Target(req[r])}
  /\ Publish(r, "input")
  /\ UNCHANGED <<dir, input, ref, logs, offers, daemon, crashes>>

WriteInput(r) ==
  /\ At(r, "input")
  /\ input' = input \cup {Target(req[r])}
  /\ Publish(r, "log")
  /\ UNCHANGED <<dir, spec, ref, logs, offers, daemon, crashes>>

AppendSubmitted(r) ==
  /\ At(r, "log")
  /\ append_event(Target(req[r]), "SUBMITTED")
  /\ Move(r, "ref")
  /\ UNCHANGED <<files, spawned, children, offers, daemon, crashes>>

(* _ensure_policy_bundle_ref *)
WritePolicyRef(r) ==
  /\ At(r, "ref")
  /\ ref' = ref \cup {Target(req[r])}
  /\ Publish(r, IF req[r].choice = None THEN "reply" ELSE "record")
  /\ UNCHANGED <<dir, spec, input, logs, offers, daemon, crashes>>

(* The parent's log learns of the child when everything else is done. *)
RecordSpawn(r) ==
  /\ At(r, "record")
  /\ LET j == req[r].base IN
       /\ append_event(j, "SPAWNED")
       /\ spawned' = [spawned EXCEPT ![j] = @ + 1]
       /\ children' = [children EXCEPT ![j] = @ \cup {req[r].choice}]
  /\ Move(r, "reply")
  /\ UNCHANGED <<files, offers, daemon, crashes>>

Reply(r) ==
  /\ At(r, "reply")
  /\ req' = [req EXCEPT ![r] = Idle]
  /\ UNCHANGED <<files, logs, offers, daemon, crashes>>

CreateStep(r) ==
  \/ Check(r) \/ MakeDirectory(r) \/ WriteSpec(r) \/ WriteInput(r)
  \/ AppendSubmitted(r) \/ WritePolicyRef(r) \/ RecordSpawn(r) \/ Reply(r)

(* The approve endpoint asks for no more than a job_spec.json.  APPROVED    *)
(* stands for all the reviews of a job but the last: ACKNOWLEDGED is an     *)
(* APPROVED of the step improvements.                                       *)
approve(j, event) ==
  /\ j \in spec
  /\ event \notin log[j]
  /\ append_event(j, event)
  /\ UNCHANGED <<files, spawned, children, offers, req, daemon, crashes>>

KillServer ==
  /\ crashes < MaxCrashes
  /\ \E r \in Requests : req[r] # Idle
  /\ req' = [r \in Requests |-> Idle]
  /\ crashes' = crashes + 1
  /\ UNCHANGED <<files, logs, offers, daemon>>

-----------------------------------------------------------------------------
(* The daemon *)

(* Slip: a job whose creation was cut short is not listed. *)
StartPassSubmitted ==
  /\ up /\ todo = {}
  /\ todo' = {j \in dir : "SUBMITTED" \in log[j]}
  /\ UNCHANGED <<files, logs, offers, req, up, crashes>>

StartPass ==
  /\ up /\ todo = {}
  /\ todo' = dir
  /\ UNCHANGED <<files, logs, offers, req, up, crashes>>

Turn(j) == up /\ j \in todo /\ \A k \in todo : Rank[j] <= Rank[k]
Leave(j) == todo' = todo \ {j} /\ UNCHANGED <<files, spawned, children, req, up, crashes>>

(* An exception leaves advance_job_once, advance_all_once and main. *)
Die == /\ up' = FALSE
       /\ todo' = {}
       /\ UNCHANGED <<files, logs, offers, req>>

(* load_job_spec of a directory without job_spec.json; or the compiler,     *)
(* asked to read an inputs/blueprint.json that is not there.                *)
Unreadable(j) ==
  \/ j \notin spec
  \/ /\ ~IsIdea(j)
     /\ Approved(j) /\ ~Ended(j)
     /\ j \notin input

(* A job that can be worked on.  Its run, its trace preview or its sweep    *)
(* may raise, now or in every pass: those calls are outside any try.        *)
Workable(j) == ~Unreadable(j) /\ Approved(j) /\ ~Ended(j)

VisitRaises(j) ==
  /\ Turn(j)
  /\ Unreadable(j) \/ (Workable(j) /\ ~Proposed(j))
  /\ Die
  /\ UNCHANGED crashes

AskReview(j) ==
  /\ Turn(j)
  /\ j \in spec
  /\ ~Approved(j) /\ ~Ended(j)
  /\ append_event(j, "WAITING_APPROVAL")
  /\ Leave(j) /\ UNCHANGED offers

(* The stages of the job up to the registry and the report. *)
RunStages(j) ==
  /\ Turn(j)
  /\ Workable(j)
  /\ ~Registered(j)
  /\ append_event(j, "REGISTRY_UPDATED")
  /\ UNCHANGED <<files, spawned, children, offers, req, daemon, crashes>>

(* The files that children are chosen from: the leaderboard of the sweep,   *)
(* then the proposals of an idea's improvement agent, entered in            *)
(* outputs.json before the log learns of them.  A second visit writes the   *)
(* same again.                                                              *)
Sweeps(j) == j \in Swept /\ Best \notin offers[j]

WriteLeaderboard(j) ==
  /\ Turn(j)
  /\ Workable(j)
  /\ Registered(j) /\ Sweeps(j)
  /\ offers' = [offers EXCEPT ![j] = @ \cup {Best}]
  /\ UNCHANGED <<files, logs, req, daemon, crashes>>

Improves(j) ==
  /\ IsIdea(j) /\ MayDeepen(j)
  /\ Registered(j) /\ ~Sweeps(j) /\ ~Proposed(j)

WriteProposals(j) ==
  /\ Turn(j)
  /\ Workable(j)
  /\ Improves(j)
  /\ offers[j] \cap Proposals = {}
  /\ \E made \in SUBSET Proposals : offers' = [offers EXCEPT ![j] = @ \cup made]
  /\ UNCHANGED <<files, logs, req, daemon, crashes>>

Propose(j) ==
  /\ Turn(j)
  /\ Workable(j)
  /\ Improves(j)
  /\ log' = [log EXCEPT ![j] = @ \cup {"IMPROVEMENTS_PROPOSED", "WAITING_APPROVAL"}]
  /\ Leave(j) /\ UNCHANGED offers

(* "user may spawn 0..N jobs before approving to finish" *)
AwaitsAcknowledgement(j) == Proposed(j) /\ ~Ended(j) /\ "ACKNOWLEDGED" \notin log[j]

StayBlocked(j) ==
  /\ Turn(j)
  /\ Workable(j)
  /\ AwaitsAcknowledgement(j)
  /\ Leave(j) /\ UNCHANGED <<log, offers>>

FinishJob(j) ==
  /\ Turn(j)
  /\ Workable(j)
  /\ Registered(j) /\ ~Sweeps(j) /\ ~Improves(j) /\ ~AwaitsAcknowledgement(j)
  /\ append_event(j, "DONE")
  /\ Leave(j) /\ UNCHANGED offers

(* ERROR, or the stop of an idea's LLM budget, with what is there by then.  *)
FailJob(j) ==
  /\ Turn(j)
  /\ ~Unreadable(j)
  /\ IsIdea(j) \/ (Approved(j) /\ (Registered(j) => Sweeps(j)))
  /\ ~Ended(j)
  /\ append_event(j, "ERROR")
  /\ Leave(j) /\ UNCHANGED offers

SkipEnded(j) ==
  /\ Turn(j)
  /\ j \in spec
  /\ Ended(j)
  /\ Leave(j) /\ UNCHANGED <<log, offers>>

Visit(j) ==
  \/ VisitRaises(j) \/ AskReview(j) \/ RunStages(j) \/ WriteLeaderboard(j)
  \/ WriteProposals(j) \/ Propose(j) \/ StayBlocked(j) \/ FinishJob(j) \/ FailJob(j)
  \/ SkipEnded(j)

KillDaemon ==
  /\ up
  /\ crashes < MaxCrashes
  /\ Die
  /\ crashes' = crashes + 1

StartDaemon ==
  /\ ~up
  /\ up' = TRUE
  /\ UNCHANGED <<files, logs, offers, req, todo, crashes>>

-----------------------------------------------------------------------------
DaemonStep == StartPass \/ StartDaemon \/ \E j \in Job : Visit(j)

Next ==
  \/ \E r \in Requests :
       \/ CreateStep(r)
       \/ \E root \in Roots : submit(r, root)
       \/ \E j \in Job : SpawnStopped(r, j) \/ \E c \in Choice : spawn(r, j, c)
  \/ \E j \in Job : approve(j, "APPROVED") \/ (IsIdea(j) /\ approve(j, "ACKNOWLEDGED"))
  \/ DaemonStep
  \/ KillServer
  \/ KillDaemon

Spec == Init /\ [][Next]_vars

(* A request that was accepted is carried through; the daemon goes on with  *)
(* its passes and is started again when it has died.                        *)
FairSpec == /\ Spec
            /\ \A r \in Requests : WF_vars(CreateStep(r))
            /\ WF_vars(DaemonStep)

-----------------------------------------------------------------------------
(* Properties *)

(* The budget is checked on a log read before and recorded after the child  *)
(* is made.  However requests and crashes interleave, a job's log has no    *)
(* more SPAWNED events than max_spawn_per_job plus one for every other      *)
(* thread that may have been past the check (store.py 416-423, 552-559).    *)
SpawnOvershoot ==
  \A j \in Job : Limit(j).spawn # 0 =>
    spawned[j] < Limit(j).spawn + Cardinality(Requests)

(* A SPAWNED event names a job that is there with its spec and a log, also  *)
(* when the server was killed while creating it (store.py 502-516).         *)
SpawnedIsReal ==
  \A j \in Job : \A c \in children[j] :
    Child(j, c) \in spec /\ log[Child(j, c)] # {}

(* A child directory exists only for a choice that its parent, reviewed,    *)
(* run and registered, has left on disk - whether the parent has ended, is  *)
(* visited right now or waits for the acknowledgement of its proposals, and *)
(* whatever a retry, a crash or a request half-way leaves behind            *)
(* (store.py 398-404, 537-547, workflow.py 1158-1176).                      *)
ChildrenAreEarned ==
  \A j \in Job : \A c \in Choice :
    Child(j, c) \in dir =>
      c \in offers[j] /\ Approved(j) /\ Registered(j)

(* Seen through job_spec.json the directories form the trees of JobTree.    *)
Tree == INSTANCE JobTree WITH jobs <- spec
ImplementsJobTree == Tree!Spec

(* docs/16_budget_stop/budget_policy_v1.md: "Spawn attempts beyond the      *)
(* limit must be rejected."                                                 *)
SpawnWithinBudget ==
  \A j \in Job : Limit(j).spawn # 0 => spawned[j] <= Limit(j).spawn

(* An approved job comes to its end, or to where it waits for the           *)
(* acknowledgement of its proposals - unless again and again a pass ends    *)
(* with an exception, at this job or at one that is visited before it.      *)
(* Directories half made, requests on their way and crashes further back    *)
(* do not keep it from that (workflow.py 1292, main.py 53-56).              *)
DiesUpTo(j) == \E k \in Job : Rank[k] <= Rank[j] /\ VisitRaises(k)

ServedInOrder ==
  \A j \in Job :
    \/ []<><<DiesUpTo(j)>>_vars
    \/ (j \in spec /\ Approved(j)) ~> (Ended(j) \/ AwaitsAcknowledgement(j))
=============================================================================
