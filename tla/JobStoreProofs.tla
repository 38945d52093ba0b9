--------------------------- MODULE JobStoreProofs ---------------------------
(* Proofs about JobStore, for every set of threads and roots, all policies. *)
EXTENDS JobStore, FiniteSetTheorems, SequenceTheorems, TLAPS

-----------------------------------------------------------------------------
(* Job ids *)

LEMMA PathIsSeq == ASSUME NEW p \in Path PROVE p \in Seq(Choice)
  BY DEF Path

LEMMA ChildType ==
  ASSUME NEW j \in Job, NEW c \in Choice, Generation(j) < MaxDepth
  PROVE  Child(j, c) \in Job
<1>1. j.path \in Seq(Choice) /\ j.root \in Roots
  BY PathIsSeq DEF Job
<1>2. Append(j.path, c) \in [1..(Len(j.path) + 1) -> Choice]
  <2>1. Append(j.path, c) \in Seq(Choice)
    BY <1>1
  <2>2. Len(Append(j.path, c)) = Len(j.path) + 1
    BY <1>1
  <2> QED
    BY <2>1, <2>2, LenProperties
<1>3. Len(j.path) + 1 \in 0..MaxDepth
  BY <1>1, DepthAssumption DEF Generation
<1> QED
  BY <1>1, <1>2, <1>3 DEF Job, Path, Child

LEMMA ChildInjective ==
  ASSUME NEW j \in Job, NEW k \in Job, NEW c \in Choice, NEW d \in Choice,
         Child(j, c) = Child(k, d)
  PROVE  j = k /\ c = d
<1>1. j.path \in Seq(Choice) /\ k.path \in Seq(Choice)
  BY PathIsSeq DEF Job
<1>2. j.root = k.root /\ Append(j.path, c) = Append(k.path, d)
  BY DEF Child
<1>3. Len(j.path) = Len(k.path) /\ c = d
  BY <1>1, <1>2
<1>4. j.path = k.path
  BY <1>1, <1>2, <1>3
<1> QED
  BY <1>2, <1>3, <1>4 DEF Job

LEMMA ChildIsNoRoot ==
  ASSUME NEW j \in Job, NEW c \in Choice
  PROVE  Child(j, c).path # <<>>
<1>1. j.path \in Seq(Choice)
  BY PathIsSeq DEF Job
<1> QED
  BY <1>1 DEF Child

LEMMA RootType ==
  ASSUME NEW r \in Roots PROVE RootJob(r) \in Job /\ RootJob(r).path = <<>>
<1>1. <<>> \in [1..0 -> Choice] /\ 0 \in 0..MaxDepth
  BY DepthAssumption
<1> QED
  BY <1>1 DEF RootJob, Job, Path

-----------------------------------------------------------------------------
(* How a step moves the requests: at most one thread goes on, the others    *)
(* stay or are thrown back to idle.                                         *)

Others(r) == \A q \in Requests \ {r} : req'[q] \in {req[q], Idle}

Advanced(r, from, to) ==
  /\ req[r] \in Request /\ req[r].at = from
  /\ req'[r] \in Request /\ req'[r].at = to
  /\ req'[r].base = req[r].base
  /\ req'[r].choice = req[r].choice
  /\ Others(r)

LEMMA Working ==
  ASSUME TypeOK, NEW r \in Requests, req[r].at \in Place
  PROVE  req[r] \in Request /\ req[r] # Idle /\ Target(req[r]) \in Job
BY DEF TypeOK, Idle, Place

LEMMA MoveAdvances ==
  ASSUME TypeOK, NEW r \in Requests, NEW from \in Place, NEW to \in Place,
         At(r, from), Move(r, to)
  PROVE  Advanced(r, from, to) /\ req' \in [Requests -> Request \cup {Idle}]
<1>1. req[r] \in Request
  BY Working DEF At
<1>2. req' = [req EXCEPT ![r] = [req[r] EXCEPT !.at = to]]
  BY DEF Move
<1>3. [req[r] EXCEPT !.at = to] \in Request
  BY <1>1 DEF Request
<1>4. req \in [Requests -> Request \cup {Idle}]
  BY DEF TypeOK
<1> QED
  BY <1>1, <1>2, <1>3, <1>4 DEF Advanced, Others, At, Request

LEMMA PublishAdvances ==
  ASSUME TypeOK, NEW r \in Requests, NEW from \in Place, NEW to \in Place,
         At(r, from), Publish(r, to)
  PROVE  Advanced(r, from, to) /\ req' \in [Requests -> Request \cup {Idle}]
<1>1. req[r] \in Request
  BY Working DEF At
<1>2. PICK losers \in SUBSET {q \in Requests \ {r} : SameWrite(q, r)} :
        req' = [q \in Requests |->
                  CASE q = r        -> [req[q] EXCEPT !.at = to]
                    [] q \in losers -> Idle
                    [] OTHER        -> req[q]]
  BY DEF Publish
<1>3. [req[r] EXCEPT !.at = to] \in Request
  BY <1>1 DEF Request
<1>4. req \in [Requests -> Request \cup {Idle}]
  BY DEF TypeOK
<1>5. req'[r] = [req[r] EXCEPT !.at = to]
  BY <1>2
<1>6. \A q \in Requests \ {r} : req'[q] \in {req[q], Idle}
  BY <1>2
<1>7. req' \in [Requests -> Request \cup {Idle}]
  BY <1>2, <1>3, <1>4, <1>5, <1>6
<1> QED
  BY <1>1, <1>3, <1>5, <1>6, <1>7 DEF Advanced, Others, At, Request

-----------------------------------------------------------------------------
(* The inductive invariant *)

(* How far a request is says what is on disk. *)
Reached(r) ==
  /\ req[r].at = "spec" => Target(req[r]) \in dir
  /\ req[r].at \in {"input", "log"} => Target(req[r]) \in spec
  /\ req[r].at \in {"ref", "record", "reply"} =>
       Target(req[r]) \in spec /\ log[Target(req[r])] # {}
  /\ req[r].at = "record" => req[r].choice # None

Made == \A r \in Requests : Reached(r)

(* What a job offers is its to offer, and it has been reviewed and run.     *)
Offered ==
  \A j \in Job :
    /\ offers[j] \subseteq Offerable(j)
    /\ offers[j] # {} => Approved(j) /\ Registered(j)

(* A request to spawn was let through by the check. *)
Checked ==
  \A r \in Requests : req[r] # Idle =>
    IF req[r].choice = None
    THEN \E root \in Roots : req[r].base = RootJob(root)
    ELSE /\ req[r].base \in spec
         /\ req[r].choice \in offers[req[r].base]
         /\ MayDeepen(req[r].base)
         /\ Generation(req[r].base) < MaxDepth

(* Children being made count against the budget with those recorded. *)
Pending(j) ==
  {r \in Requests : /\ req[r] # Idle
                    /\ req[r].choice # None
                    /\ req[r].base = j
                    /\ req[r].at # "reply"}

Budgeted ==
  \A j \in Job : Limit(j).spawn # 0 =>
    spawned[j] + Cardinality(Pending(j)) < Limit(j).spawn + Cardinality(Requests)

IInv == /\ TypeOK
        /\ Made
        /\ Offered
        /\ Checked
        /\ SpawnedIsReal
        /\ ChildrenAreEarned
        /\ Budgeted

-----------------------------------------------------------------------------
(* The steps *)

LEMMA StepCases ==
  ASSUME [Next]_vars
  PROVE  \/ \E r \in Requests : CreateStep(r)
         \/ \E r \in Requests, root \in Roots : submit(r, root)
         \/ \E r \in Requests, j \in Job, c \in Choice : spawn(r, j, c)
         \/ \E r \in Requests, j \in Job : SpawnStopped(r, j)
         \/ \E j \in Job, e \in {"APPROVED", "ACKNOWLEDGED"} : approve(j, e)
         \/ \E j \in Job : VisitRaises(j)
         \/ \E j \in Job : AskReview(j) \/ RunStages(j) \/ Propose(j)
         \/ \E j \in Job : WriteLeaderboard(j)
         \/ \E j \in Job : WriteProposals(j)
         \/ \E j \in Job : StayBlocked(j)
         \/ \E j \in Job : FinishJob(j)
         \/ \E j \in Job : FailJob(j)
         \/ \E j \in Job : SkipEnded(j)
         \/ StartPass \/ StartDaemon \/ KillServer \/ KillDaemon
         \/ UNCHANGED vars
BY DEF Next, DaemonStep, Visit

(* A step of a create that goes on from one place to another. *)
LEMMA CreateAdvances ==
  ASSUME TypeOK, NEW r \in Requests, CreateStep(r)
  PROVE  /\ req' \in [Requests -> Request \cup {Idle}]
         /\ \/ Reply(r)
            \/ \E from \in Place \ {"reply"}, to \in Place : Advanced(r, from, to)
<1>1. CASE Check(r)
  <2> DEFINE to == IF Target(req[r]) \in spec /\ log[Target(req[r])] # {}
                   THEN "ref" ELSE "mkdir"
  <2>1. to \in Place /\ "check" \in Place \ {"reply"} /\ At(r, "check") /\ Move(r, to)
    BY <1>1 DEF Check, Place
  <2> HIDE DEF to
  <2> QED
    BY <2>1, MoveAdvances
<1>2. CASE MakeDirectory(r)
  <2>1. At(r, "mkdir") /\ Move(r, "spec") /\ "mkdir" \in Place \ {"reply"} /\ "spec" \in Place
    BY <1>2 DEF MakeDirectory, Place
  <2> QED
    BY <2>1, MoveAdvances
<1>3. CASE WriteSpec(r)
  <2>1. At(r, "spec") /\ Publish(r, "input") /\ "spec" \in Place \ {"reply"} /\ "input" \in Place
    BY <1>3 DEF WriteSpec, Place
  <2> QED
    BY <2>1, PublishAdvances
<1>4. CASE WriteInput(r)
  <2>1. At(r, "input") /\ Publish(r, "log") /\ "input" \in Place \ {"reply"} /\ "log" \in Place
    BY <1>4 DEF WriteInput, Place
  <2> QED
    BY <2>1, PublishAdvances
<1>5. CASE AppendSubmitted(r)
  <2>1. At(r, "log") /\ Move(r, "ref") /\ "log" \in Place \ {"reply"} /\ "ref" \in Place
    BY <1>5 DEF AppendSubmitted, Place
  <2> QED
    BY <2>1, MoveAdvances
<1>6. CASE RecordSpawn(r)
  <2>1. At(r, "record") /\ Move(r, "reply") /\ "record" \in Place \ {"reply"} /\ "reply" \in Place
    BY <1>6 DEF RecordSpawn, Place
  <2> QED
    BY <2>1, MoveAdvances
<1>7. CASE WritePolicyRef(r)
  <2> DEFINE to == IF req[r].choice = None THEN "reply" ELSE "record"
  <2>1. to \in Place /\ "ref" \in Place \ {"reply"} /\ At(r, "ref") /\ Publish(r, to)
    BY <1>7 DEF WritePolicyRef, Place
  <2> HIDE DEF to
  <2> QED
    BY <2>1, PublishAdvances
<1>8. CASE Reply(r)
  BY <1>8 DEF Reply, TypeOK
<1> QED
  BY <1>1, <1>2, <1>3, <1>4, <1>5, <1>6, <1>7, <1>8 DEF CreateStep

(* What may become of a request in a step. *)
LEMMA RequestFate ==
  ASSUME TypeOK, [Next]_vars
  PROVE  /\ req' \in [Requests -> Request \cup {Idle}]
         /\ \A q \in Requests :
              \/ req'[q] = Idle
              \/ /\ req[q] # Idle
                 /\ req'[q].base = req[q].base
                 /\ req'[q].choice = req[q].choice
                 /\ req[q].at = "reply" => req'[q] = req[q]
              \/ \E root \in Roots : submit(q, root)
              \/ \E j \in Job, c \in Choice : spawn(q, j, c)
<1> DEFINE Fate(q) == \/ req'[q] = Idle
                      \/ /\ req[q] # Idle
                         /\ req'[q].base = req[q].base
                         /\ req'[q].choice = req[q].choice
                         /\ req[q].at = "reply" => req'[q] = req[q]
                      \/ \E root \in Roots : submit(q, root)
                      \/ \E j \in Job, c \in Choice : spawn(q, j, c)
<1>0. req \in [Requests -> Request \cup {Idle}]
  BY DEF TypeOK
<1>1. ASSUME NEW q \in Requests, req'[q] \in {req[q], Idle}
      PROVE  Fate(q)
  BY <1>0, <1>1
<1>2. ASSUME NEW r \in Requests, CreateStep(r)
      PROVE  \A q \in Requests : Fate(q)
  <2>1. CASE Reply(r)
    <3>1. \A q \in Requests : req'[q] \in {req[q], Idle}
      BY <2>1, <1>0 DEF Reply
    <3> QED
      BY <3>1, <1>1
  <2>2. ASSUME NEW from \in Place \ {"reply"}, NEW to \in Place, Advanced(r, from, to)
        PROVE  \A q \in Requests : Fate(q)
    <3>1. Fate(r)
      BY <2>2 DEF Advanced, Request, Idle, Place
    <3>2. \A q \in Requests \ {r} : req'[q] \in {req[q], Idle}
      BY <2>2 DEF Advanced, Others
    <3> QED
      BY <3>1, <3>2, <1>1
  <2> QED
    BY <1>2, <2>1, <2>2, CreateAdvances
<1>3. ASSUME NEW r \in Requests, NEW root \in Roots, submit(r, root)
      PROVE  /\ \A q \in Requests : Fate(q)
             /\ req' \in [Requests -> Request \cup {Idle}]
  <2>1. [at |-> "check", base |-> RootJob(root), choice |-> None] \in Request
    BY RootType DEF Request, Place
  <2>2. \A q \in Requests \ {r} : req'[q] \in {req[q], Idle}
    BY <1>3, <1>0 DEF submit
  <2>3. Fate(r)
    BY <1>3
  <2>4. req' \in [Requests -> Request \cup {Idle}]
    BY <1>3, <1>0, <2>1 DEF submit
  <2> QED
    BY <2>2, <2>3, <2>4, <1>1
<1>4. ASSUME NEW r \in Requests, NEW j \in Job, NEW c \in Choice, spawn(r, j, c)
      PROVE  /\ \A q \in Requests : Fate(q)
             /\ req' \in [Requests -> Request \cup {Idle}]
  <2>1. [at |-> "check", base |-> j, choice |-> c] \in Request
    BY DEF Request, Place
  <2>2. \A q \in Requests \ {r} : req'[q] \in {req[q], Idle}
    BY <1>4, <1>0 DEF spawn
  <2>3. Fate(r)
    BY <1>4
  <2>4. req' \in [Requests -> Request \cup {Idle}]
    BY <1>4, <1>0, <2>1 DEF spawn
  <2> QED
    BY <2>2, <2>3, <2>4, <1>1
<1>5. CASE KillServer
  BY <1>5 DEF KillServer
<1>6. CASE req' = req
  <2>1. \A q \in Requests : req'[q] \in {req[q], Idle}
    BY <1>6
  <2> QED
    BY <2>1, <1>1, <1>0, <1>6
<1>7. \/ \E r \in Requests : CreateStep(r)
      \/ \E r \in Requests, root \in Roots : submit(r, root)
      \/ \E r \in Requests, j \in Job, c \in Choice : spawn(r, j, c)
      \/ KillServer
      \/ req' = req
  BY StepCases DEF SpawnStopped, approve, VisitRaises, AskReview, RunStages, Propose,
     WriteLeaderboard, WriteProposals, StayBlocked, FinishJob, FailJob, SkipEnded, StartPass, StartDaemon, KillDaemon, Die, Leave, vars
<1>8. \A q \in Requests : Fate(q)
  BY <1>2, <1>3, <1>4, <1>5, <1>6, <1>7
<1>9. req' \in [Requests -> Request \cup {Idle}]
  BY <1>0, <1>3, <1>4, <1>5, <1>6, <1>7, CreateAdvances DEF KillServer
<1> QED
  BY <1>8, <1>9

LEMMA TargetsStay ==
  ASSUME TypeOK, [Next]_vars
  PROVE  \A q \in Requests : req'[q] # Idle => Target(req'[q]) \in Job
<1> SUFFICES ASSUME NEW q \in Requests, req'[q] # Idle
             PROVE  Target(req'[q]) \in Job
  OBVIOUS
<1>0. req \in [Requests -> Request \cup {Idle}]
  BY DEF TypeOK
<1>1. CASE req[q] # Idle /\ req'[q].base = req[q].base /\ req'[q].choice = req[q].choice
  BY <1>1 DEF Target, TypeOK
<1>2. ASSUME NEW root \in Roots, submit(q, root) PROVE Target(req'[q]) \in Job
  <2>1. req'[q] = [at |-> "check", base |-> RootJob(root), choice |-> None]
    BY <1>0, <1>2 DEF submit
  <2> QED
    BY <2>1, RootType DEF Target
<1>3. ASSUME NEW j \in Job, NEW c \in Choice, spawn(q, j, c) PROVE Target(req'[q]) \in Job
  <2>1. req'[q] = [at |-> "check", base |-> j, choice |-> c]
    BY <1>0, <1>3 DEF spawn
  <2>2. c # None /\ Generation(j) < MaxDepth
    BY <1>3, NoneAssumption DEF spawn
  <2> QED
    BY <2>1, <2>2, ChildType DEF Target
<1> QED
  BY <1>1, <1>2, <1>3, RequestFate

(* What is on disk stays there. *)
LEMMA GrowStep ==
  ASSUME TypeOK, Offered, [Next]_vars
  PROVE  /\ dir \subseteq dir' /\ spec \subseteq spec'
         /\ \A j \in Job : /\ log[j] \subseteq log'[j]
                           /\ offers[j] \subseteq offers'[j]
<1> DEFINE Grow == /\ dir \subseteq dir' /\ spec \subseteq spec'
                   /\ \A j \in Job : /\ log[j] \subseteq log'[j]
                                     /\ offers[j] \subseteq offers'[j]
<1>0. log \in [Job -> SUBSET EventType] /\ offers \in [Job -> SUBSET Choice]
  BY DEF TypeOK
<1>1. ASSUME NEW r \in Requests, CreateStep(r) PROVE Grow
  <2>1. CASE Check(r) \/ Reply(r)
    BY <2>1 DEF Check, Reply, files, logs
  <2>2. CASE MakeDirectory(r) \/ WriteSpec(r) \/ WriteInput(r) \/ WritePolicyRef(r)
    BY <2>2 DEF MakeDirectory, WriteSpec, WriteInput, WritePolicyRef, logs
  <2>3. CASE AppendSubmitted(r)
    BY <2>3, <1>0 DEF AppendSubmitted, append_event, files
  <2>4. CASE RecordSpawn(r)
    BY <2>4, <1>0 DEF RecordSpawn, append_event, files
  <2> QED
    BY <1>1, <2>1, <2>2, <2>3, <2>4 DEF CreateStep
<1>2. ASSUME NEW r \in Requests, NEW root \in Roots, submit(r, root) PROVE Grow
  BY <1>2 DEF submit, files, logs
<1>3. ASSUME NEW r \in Requests, NEW j \in Job, NEW c \in Choice, spawn(r, j, c) PROVE Grow
  BY <1>3 DEF spawn, files, logs
<1>4. ASSUME NEW j \in Job,
             \/ \E r \in Requests : SpawnStopped(r, j)
             \/ \E e \in {"APPROVED", "ACKNOWLEDGED"} : approve(j, e)
      PROVE  Grow
  BY <1>4, <1>0 DEF SpawnStopped, approve, append_event, files
<1>5. ASSUME NEW j \in Job,
             AskReview(j) \/ RunStages(j) \/ Propose(j) \/ FinishJob(j) \/ FailJob(j)
      PROVE  Grow
  BY <1>5, <1>0 DEF AskReview, RunStages, Propose, FinishJob, FailJob, append_event, Leave,
     files
<1>8. ASSUME NEW j \in Job, WriteLeaderboard(j) \/ WriteProposals(j) PROVE Grow
  <2>1. PICK made : offers' = [offers EXCEPT ![j] = offers[j] \cup made]
    BY <1>8 DEF WriteLeaderboard, WriteProposals
  <2> QED
    BY <1>8, <2>1, <1>0 DEF WriteLeaderboard, WriteProposals, files, logs
<1>6. ASSUME NEW j \in Job, VisitRaises(j) \/ StayBlocked(j) \/ SkipEnded(j) PROVE Grow
  BY <1>6 DEF VisitRaises, StayBlocked, SkipEnded, Die, Leave, files, logs
<1>7. CASE StartPass \/ StartDaemon \/ KillServer \/ KillDaemon \/ UNCHANGED vars
  BY <1>7 DEF StartPass, StartDaemon, KillServer, KillDaemon, Die, files, logs, vars
<1> QED
  BY <1>1, <1>2, <1>3, <1>4, <1>5, <1>6, <1>7, <1>8, StepCases

LEMMA TypeStep ==
  ASSUME TypeOK, Made, [Next]_vars
  PROVE  TypeOK'
<1>0. log \in [Job -> SUBSET EventType] /\ offers \in [Job -> SUBSET Choice]
  BY DEF TypeOK
<1>1. /\ req' \in [Requests -> Request \cup {Idle}]
      /\ \A q \in Requests : req'[q] # Idle => Target(req'[q]) \in Job
  BY RequestFate, TargetsStay
<1> DEFINE Rest == /\ dir' \subseteq Job
                   /\ spec' \subseteq dir'
                   /\ input' \subseteq spec'
                   /\ ref' \subseteq spec'
                   /\ log' \in [Job -> SUBSET EventType]
                   /\ spawned' \in [Job -> Nat]
                   /\ children' \in [Job -> SUBSET Choice]
                   /\ offers' \in [Job -> SUBSET Choice]
                   /\ up' \in BOOLEAN
                   /\ todo' \subseteq Job
                   /\ crashes' \in Nat
<1>2. ASSUME NEW r \in Requests, CreateStep(r) PROVE Rest
  <2>1. CASE UNCHANGED <<files, logs, offers, daemon, crashes>>
    BY <2>1 DEF files, logs, daemon, TypeOK
  <2>2. CASE MakeDirectory(r)
    BY <2>2, Working DEF MakeDirectory, logs, daemon, TypeOK, At, Place
  <2>3. CASE WriteSpec(r)
    BY <2>3 DEF WriteSpec, logs, daemon, TypeOK, At, Made, Reached
  <2>4. CASE WriteInput(r)
    BY <2>4 DEF WriteInput, logs, daemon, TypeOK, At, Made, Reached
  <2>5. CASE AppendSubmitted(r)
    BY <2>5 DEF AppendSubmitted, append_event, files, daemon, TypeOK, EventType
  <2>6. CASE WritePolicyRef(r)
    BY <2>6 DEF WritePolicyRef, logs, daemon, TypeOK, At, Made, Reached
  <2>7. CASE RecordSpawn(r)
    <3>1. At(r, "record") /\ req[r] \in Request
      BY <2>7, Working DEF RecordSpawn, At, Place
    <3>2. req[r].base \in Job /\ req[r].choice \in Choice \cup {None}
      BY <3>1 DEF Request
    <3>3. children' \in [Job -> SUBSET Choice]
      BY <2>7, <3>1, <3>2 DEF RecordSpawn, TypeOK, Made, Reached, At
    <3> QED
      BY <2>7, <3>2, <3>3 DEF RecordSpawn, append_event, files, daemon, TypeOK, EventType
  <2> QED
    BY <1>2, <2>1, <2>2, <2>3, <2>4, <2>5, <2>6, <2>7 DEF CreateStep, Check, Reply
<1>3. ASSUME NEW r \in Requests, NEW root \in Roots, submit(r, root) PROVE Rest
  BY <1>3 DEF submit, files, logs, daemon, TypeOK
<1>4. ASSUME NEW r \in Requests, NEW j \in Job, NEW c \in Choice, spawn(r, j, c) PROVE Rest
  BY <1>4 DEF spawn, files, logs, daemon, TypeOK
<1>5. ASSUME NEW j \in Job,
             \/ \E r \in Requests : SpawnStopped(r, j)
             \/ \E e \in {"APPROVED", "ACKNOWLEDGED"} : approve(j, e)
             \/ RunStages(j)
      PROVE  Rest
  BY <1>5 DEF SpawnStopped, approve, RunStages, append_event, files, daemon, TypeOK, EventType
<1>6. ASSUME NEW j \in Job, AskReview(j) \/ Propose(j) \/ FinishJob(j) \/ FailJob(j)
      PROVE  Rest
  BY <1>6 DEF AskReview, Propose, FinishJob, FailJob, append_event, Leave, files, TypeOK,
     EventType
<1>12. ASSUME NEW j \in Job, WriteLeaderboard(j) \/ WriteProposals(j) PROVE Rest
  <2>1. PICK made \in SUBSET Choice : offers' = [offers EXCEPT ![j] = offers[j] \cup made]
    BY <1>12 DEF WriteLeaderboard, WriteProposals, Choice
  <2> QED
    BY <1>12, <2>1 DEF WriteLeaderboard, WriteProposals, files, logs, daemon, TypeOK
<1>7. ASSUME NEW j \in Job, VisitRaises(j) \/ StayBlocked(j) \/ SkipEnded(j) PROVE Rest
  BY <1>7 DEF VisitRaises, StayBlocked, SkipEnded, Die, Leave, files, logs, TypeOK
<1>8. ASSUME StartPass \/ StartDaemon \/ UNCHANGED vars PROVE Rest
  BY <1>8 DEF StartPass, StartDaemon, files, logs, daemon, vars, TypeOK
<1>9. ASSUME KillServer PROVE Rest
  BY <1>9 DEF KillServer, files, logs, daemon, TypeOK
<1>10. ASSUME KillDaemon PROVE Rest
  <2>1. crashes' \in Nat
    BY <1>10 DEF KillDaemon, TypeOK
  <2>2. up' \in BOOLEAN /\ todo' \subseteq Job
    BY <1>10 DEF KillDaemon, Die
  <2>3. UNCHANGED <<files, logs, offers>>
    BY <1>10 DEF KillDaemon, Die
  <2> QED
    BY <2>1, <2>2, <2>3 DEF files, logs, TypeOK
<1>11. Rest
  <2> HIDE DEF Rest
  <2> QED
    BY <1>2, <1>3, <1>4, <1>5, <1>6, <1>7, <1>8, <1>9, <1>10, <1>12, StepCases
<1> QED
  BY <1>1, <1>11 DEF TypeOK, Rest, Target

LEMMA MadeStep ==
  ASSUME TypeOK, Made, Offered, [Next]_vars
  PROVE  Made'
<1> DEFINE Goal(q) ==
      /\ req'[q].at = "spec" => Target(req'[q]) \in dir'
      /\ req'[q].at \in {"input", "log"} => Target(req'[q]) \in spec'
      /\ req'[q].at \in {"ref", "record", "reply"} =>
           Target(req'[q]) \in spec' /\ log'[Target(req'[q])] # {}
      /\ req'[q].at = "record" => req'[q].choice # None
<1>0. req \in [Requests -> Request \cup {Idle}]
  BY DEF TypeOK
<1>1. ASSUME NEW q \in Requests, req'[q] \in {req[q], Idle}
      PROVE  Goal(q)
  <2>1. CASE req'[q] = Idle
    BY <2>1 DEF Idle
  <2>2. CASE req[q] # Idle /\ req'[q] = req[q]
    <3>1. Target(req[q]) \in Job /\ Reached(q)
      BY <2>2 DEF TypeOK, Made
    <3> QED
      BY <2>2, <3>1, GrowStep DEF Reached
  <2> QED
    BY <1>1, <2>1, <2>2
<1>2. ASSUME NEW r \in Requests, NEW from \in Place, NEW to \in Place,
             Advanced(r, from, to)
      PROVE  /\ Target(req'[r]) = Target(req[r]) /\ Target(req[r]) \in Job
             /\ req[r].at = from /\ req'[r].at = to /\ req'[r].choice = req[r].choice
             /\ Goal(r) => \A q \in Requests : Goal(q)
  <2>1. Target(req'[r]) = Target(req[r])
    BY <1>2 DEF Advanced, Target
  <2>2. Target(req[r]) \in Job
    BY <1>2, Working DEF Advanced
  <2>3. \A q \in Requests \ {r} : Goal(q)
    BY <1>2, <1>1 DEF Advanced, Others
  <2> QED
    BY <1>2, <2>1, <2>2, <2>3 DEF Advanced
<1>3. ASSUME NEW r \in Requests, CreateStep(r)
      PROVE  \A q \in Requests : Goal(q)
  <2>0. Reached(r)
    BY DEF Made
  <2>1. ASSUME Check(r) PROVE \A q \in Requests : Goal(q)
    <3>1. CASE Target(req[r]) \in spec /\ log[Target(req[r])] # {}
      <4>1. Advanced(r, "check", "ref")
        BY <2>1, <3>1, MoveAdvances DEF Check, Place
      <4>2. spec' = spec /\ log' = log
        BY <2>1 DEF Check, files, logs
      <4> QED
        BY <3>1, <4>1, <4>2, <1>2 DEF Place
    <3>2. CASE ~(Target(req[r]) \in spec /\ log[Target(req[r])] # {})
      <4>1. Advanced(r, "check", "mkdir")
        BY <2>1, <3>2, MoveAdvances DEF Check, Place
      <4> QED
        BY <4>1, <1>2 DEF Place
    <3> QED
      BY <3>1, <3>2
  <2>2. ASSUME MakeDirectory(r) PROVE \A q \in Requests : Goal(q)
    <3>1. Advanced(r, "mkdir", "spec") /\ Target(req[r]) \in dir'
      BY <2>2, MoveAdvances DEF MakeDirectory, Place
    <3> QED
      BY <3>1, <1>2 DEF Place
  <2>3. ASSUME WriteSpec(r) PROVE \A q \in Requests : Goal(q)
    <3>1. Advanced(r, "spec", "input") /\ Target(req[r]) \in spec'
      BY <2>3, PublishAdvances DEF WriteSpec, Place
    <3> QED
      BY <3>1, <1>2 DEF Place
  <2>4. ASSUME WriteInput(r) PROVE \A q \in Requests : Goal(q)
    <3>1. Advanced(r, "input", "log") /\ spec' = spec
      BY <2>4, PublishAdvances DEF WriteInput, Place
    <3>2. Target(req[r]) \in spec'
      BY <3>1, <2>0 DEF Reached, Advanced
    <3> QED
      BY <3>1, <3>2, <1>2 DEF Place
  <2>5. ASSUME AppendSubmitted(r) PROVE \A q \in Requests : Goal(q)
    <3>1. Advanced(r, "log", "ref") /\ spec' = spec
      BY <2>5, MoveAdvances DEF AppendSubmitted, files, Place
    <3>2. Target(req[r]) \in spec /\ Target(req[r]) \in Job
      BY <3>1, <2>0, <1>2 DEF Reached, Advanced, Place
    <3>3. log'[Target(req[r])] # {}
      BY <2>5, <3>2 DEF AppendSubmitted, append_event, TypeOK
    <3> QED
      BY <3>1, <3>2, <3>3, <1>2 DEF Place
  <2>6. ASSUME WritePolicyRef(r) PROVE \A q \in Requests : Goal(q)
    <3>1. spec' = spec /\ log' = log
      BY <2>6 DEF WritePolicyRef, logs
    <3>2. Target(req[r]) \in spec /\ log[Target(req[r])] # {}
      BY <2>6, <2>0 DEF WritePolicyRef, Reached, At
    <3>3. CASE req[r].choice = None
      <4>1. Advanced(r, "ref", "reply")
        BY <2>6, <3>3, PublishAdvances DEF WritePolicyRef, Place
      <4> QED
        BY <3>1, <3>2, <4>1, <1>2 DEF Place
    <3>4. CASE req[r].choice # None
      <4>1. Advanced(r, "ref", "record")
        BY <2>6, <3>4, PublishAdvances DEF WritePolicyRef, Place
      <4> QED
        BY <3>1, <3>2, <3>4, <4>1, <1>2 DEF Place
    <3> QED
      BY <3>3, <3>4
  <2>7. ASSUME RecordSpawn(r) PROVE \A q \in Requests : Goal(q)
    <3>1. Advanced(r, "record", "reply") /\ spec' = spec
      BY <2>7, MoveAdvances DEF RecordSpawn, files, Place
    <3>2. Target(req[r]) \in spec /\ log[Target(req[r])] # {} /\ Target(req[r]) \in Job
      BY <3>1, <2>0, <1>2 DEF Reached, Advanced, Place
    <3>3. log'[Target(req[r])] # {}
      BY <3>2, GrowStep
    <3> QED
      BY <3>1, <3>2, <3>3, <1>2 DEF Place
  <2>8. ASSUME Reply(r) PROVE \A q \in Requests : Goal(q)
    <3>1. \A q \in Requests : req'[q] \in {req[q], Idle}
      BY <2>8, <1>0 DEF Reply
    <3> QED
      BY <3>1, <1>1
  <2> QED
    BY <1>3, <2>1, <2>2, <2>3, <2>4, <2>5, <2>6, <2>7, <2>8 DEF CreateStep
<1>4. ASSUME NEW r \in Requests,
             \/ \E root \in Roots : submit(r, root)
             \/ \E j \in Job, c \in Choice : spawn(r, j, c)
      PROVE  \A q \in Requests : Goal(q)
  <2>1. req'[r].at = "check"
    BY <1>4, <1>0 DEF submit, spawn
  <2>2. \A q \in Requests \ {r} : req'[q] \in {req[q], Idle}
    BY <1>4, <1>0 DEF submit, spawn
  <2> QED
    BY <2>1, <2>2, <1>1
<1>5. ASSUME \A q \in Requests : req'[q] \in {req[q], Idle}
      PROVE  \A q \in Requests : Goal(q)
  BY <1>5, <1>1
<1>6. \/ \E r \in Requests : CreateStep(r)
      \/ \E r \in Requests : \/ \E root \in Roots : submit(r, root)
                             \/ \E j \in Job, c \in Choice : spawn(r, j, c)
      \/ \A q \in Requests : req'[q] \in {req[q], Idle}
  BY StepCases DEF SpawnStopped, approve, VisitRaises, AskReview, RunStages, Propose,
     WriteLeaderboard, WriteProposals, StayBlocked, FinishJob, FailJob, SkipEnded, StartPass, StartDaemon, KillDaemon, KillServer, Die, Leave, vars
<1>7. \A q \in Requests : Goal(q)
  <2> HIDE DEF Goal
  <2> QED
    BY <1>3, <1>4, <1>5, <1>6
<1> QED
  BY <1>7 DEF Made, Reached, Target

LEMMA OfferedStep ==
  ASSUME TypeOK, Offered, [Next]_vars
  PROVE  Offered'
<1> DEFINE Goal(k) == /\ offers'[k] \subseteq Offerable(k)
                      /\ offers'[k] # {} => /\ "APPROVED" \in log'[k]
                                            /\ "REGISTRY_UPDATED" \in log'[k]
<1>0. log \in [Job -> SUBSET EventType] /\ offers \in [Job -> SUBSET Choice]
  BY DEF TypeOK
<1>1. ASSUME NEW k \in Job, offers'[k] = offers[k]
      PROVE  Goal(k)
  BY <1>1, GrowStep DEF Offered, Approved, Registered
<1>2. ASSUME NEW j \in Job, WriteLeaderboard(j) \/ WriteProposals(j)
      PROVE  \A k \in Job : Goal(k)
  <2>1. PICK made \in SUBSET Offerable(j) : offers' = [offers EXCEPT ![j] = offers[j] \cup made]
    BY <1>2 DEF WriteLeaderboard, WriteProposals, Sweeps, Improves, Offerable
  <2>2. "APPROVED" \in log'[j] /\ "REGISTRY_UPDATED" \in log'[j]
    BY <1>2, GrowStep DEF WriteLeaderboard, WriteProposals, Workable, Improves, Approved,
       Registered
  <2>3. offers'[j] \subseteq Offerable(j)
    BY <1>0, <2>1 DEF Offered
  <2>4. \A k \in Job \ {j} : Goal(k)
    BY <1>0, <2>1, <1>1
  <2> QED
    BY <2>2, <2>3, <2>4
<1>3. \/ \E j \in Job : WriteLeaderboard(j) \/ WriteProposals(j)
      \/ offers' = offers
  BY StepCases DEF CreateStep, Check, MakeDirectory, WriteSpec, WriteInput, AppendSubmitted,
     WritePolicyRef, RecordSpawn, Reply, submit, spawn, SpawnStopped, approve, VisitRaises,
     AskReview, RunStages, Propose, StayBlocked, FinishJob, FailJob, SkipEnded, StartPass,
     StartDaemon, KillDaemon, KillServer, Die, vars
<1>4. \A k \in Job : Goal(k)
  BY <1>1, <1>2, <1>3
<1> QED
  BY <1>4 DEF Offered, Approved, Registered

LEMMA CheckedStep ==
  ASSUME TypeOK, Offered, Checked, [Next]_vars
  PROVE  Checked'
<1> DEFINE Goal(x) == IF x.choice = None
                      THEN \E root \in Roots : x.base = RootJob(root)
                      ELSE /\ x.base \in spec'
                           /\ x.choice \in offers'[x.base]
                           /\ MayDeepen(x.base)
                           /\ Generation(x.base) < MaxDepth
<1>0. req \in [Requests -> Request \cup {Idle}]
  BY DEF TypeOK
<1>1. ASSUME NEW q \in Requests, req[q] # Idle, req'[q].base = req[q].base,
             req'[q].choice = req[q].choice
      PROVE  Goal(req'[q])
  <2>1. req[q].base \in Job
    BY <1>0, <1>1 DEF Request
  <2>2. CASE req[q].choice = None
    BY <1>1, <2>2 DEF Checked
  <2>3. CASE req[q].choice # None
    <3>1. /\ req[q].base \in spec
          /\ req[q].choice \in offers[req[q].base]
          /\ MayDeepen(req[q].base)
          /\ Generation(req[q].base) < MaxDepth
      BY <1>1, <2>3 DEF Checked
    <3>2. req[q].base \in spec' /\ req[q].choice \in offers'[req[q].base]
      BY <3>1, <2>1, GrowStep
    <3> QED
      BY <1>1, <2>3, <3>1, <3>2
  <2> QED
    BY <2>2, <2>3
<1>2. ASSUME NEW q \in Requests, NEW root \in Roots, submit(q, root)
      PROVE  Goal(req'[q])
  BY <1>0, <1>2 DEF submit
<1>3. ASSUME NEW q \in Requests, NEW j \in Job, NEW c \in Choice, spawn(q, j, c)
      PROVE  Goal(req'[q])
  <2>1. req'[q] = [at |-> "check", base |-> j, choice |-> c]
    BY <1>0, <1>3 DEF spawn
  <2>2. /\ j \in spec' /\ c \in offers'[j] /\ c # None
        /\ MayDeepen(j) /\ Generation(j) < MaxDepth
    BY <1>3, GrowStep, NoneAssumption DEF spawn, WithinBudget
  <2> QED
    BY <2>1, <2>2
<1>4. \A q \in Requests : req'[q] # Idle => Goal(req'[q])
  <2> HIDE DEF Goal
  <2> QED
    BY <1>1, <1>2, <1>3, RequestFate
<1> QED
  BY <1>4 DEF Checked, MayDeepen, Limit, IsIdea, Generation

LEMMA SpawnedIsRealStep ==
  ASSUME TypeOK, Made, Offered, SpawnedIsReal, [Next]_vars
  PROVE  SpawnedIsReal'
<1> SUFFICES ASSUME NEW j \in Job, NEW c \in children'[j]
             PROVE  Child(j, c) \in spec' /\ log'[Child(j, c)] # {}
  BY DEF SpawnedIsReal
<1>1. spec \subseteq Job
  BY DEF TypeOK
<1>2. CASE c \in children[j]
  <2>1. Child(j, c) \in spec /\ log[Child(j, c)] # {} /\ Child(j, c) \in Job
    BY <1>1, <1>2 DEF SpawnedIsReal
  <2> QED
    BY <2>1, GrowStep
<1>3. ASSUME NEW r \in Requests, RecordSpawn(r), c \notin children[j]
      PROVE  Child(j, c) \in spec' /\ log'[Child(j, c)] # {}
  <2>1. j = req[r].base /\ c = req[r].choice
    BY <1>3 DEF RecordSpawn, TypeOK
  <2>2. /\ req[r].choice # None
        /\ Target(req[r]) \in spec
        /\ log[Target(req[r])] # {}
    BY <1>3 DEF RecordSpawn, At, Made, Reached
  <2>3. Child(j, c) \in spec /\ log[Child(j, c)] # {} /\ Child(j, c) \in Job
    BY <1>1, <2>1, <2>2 DEF Target
  <2> QED
    BY <2>3, GrowStep
<1>4. (\E r \in Requests : RecordSpawn(r)) \/ children' = children
  BY StepCases DEF CreateStep, Check, MakeDirectory, WriteSpec, WriteInput, AppendSubmitted,
     WritePolicyRef, Reply, submit, spawn, SpawnStopped, approve, VisitRaises, AskReview, RunStages, Propose,
     WriteLeaderboard, WriteProposals, StayBlocked, FinishJob, FailJob, SkipEnded, StartPass, StartDaemon, KillDaemon, KillServer, Die,
     Leave, logs, vars
<1> QED
  BY <1>2, <1>3, <1>4

LEMMA ChildrenAreEarnedStep ==
  ASSUME TypeOK, Offered, Checked, ChildrenAreEarned, [Next]_vars
  PROVE  ChildrenAreEarned'
<1> SUFFICES ASSUME NEW j \in Job, NEW c \in Choice, Child(j, c) \in dir'
             PROVE  /\ c \in offers'[j]
                    /\ "APPROVED" \in log'[j]
                    /\ "REGISTRY_UPDATED" \in log'[j]
  BY DEF ChildrenAreEarned, Approved, Registered
<1>1. ASSUME c \in offers[j], Approved(j), Registered(j)
      PROVE  /\ c \in offers'[j]
             /\ "APPROVED" \in log'[j]
             /\ "REGISTRY_UPDATED" \in log'[j]
  BY <1>1, GrowStep DEF Approved, Registered
<1>2. CASE Child(j, c) \in dir
  BY <1>1, <1>2 DEF ChildrenAreEarned
<1>3. ASSUME NEW r \in Requests, MakeDirectory(r), Child(j, c) = Target(req[r])
      PROVE  c \in offers[j] /\ Approved(j) /\ Registered(j)
  <2>1. req[r] \in Request /\ req[r] # Idle
    BY <1>3, Working DEF MakeDirectory, At, Place
  <2>2. req[r].choice # None
    <3> SUFFICES ASSUME req[r].choice = None PROVE FALSE
      OBVIOUS
    <3>1. PICK root \in Roots : req[r].base = RootJob(root)
      BY <2>1 DEF Checked
    <3>2. Child(j, c) = RootJob(root)
      BY <1>3, <3>1 DEF Target
    <3> QED
      BY <3>2, ChildIsNoRoot, RootType
  <2>3. req[r].base \in Job /\ req[r].choice \in Choice
    BY <2>1, <2>2 DEF Request
  <2>4. j = req[r].base /\ c = req[r].choice
    BY <1>3, <2>2, <2>3, ChildInjective DEF Target
  <2>5. c \in offers[j]
    BY <2>1, <2>2, <2>4 DEF Checked
  <2> QED
    BY <2>5 DEF Offered
<1>4. \/ dir' = dir
      \/ \E r \in Requests : MakeDirectory(r) /\ dir' = dir \cup {Target(req[r])}
  <2>1. ASSUME NEW r \in Requests, MakeDirectory(r)
        PROVE  dir' = dir \cup {Target(req[r])}
    BY <2>1 DEF MakeDirectory
  <2>2. (\E r \in Requests : MakeDirectory(r)) \/ dir' = dir
    BY StepCases DEF CreateStep, Check, WriteSpec, WriteInput, AppendSubmitted,
       WritePolicyRef, RecordSpawn, Reply, submit, spawn, SpawnStopped, approve, VisitRaises,
       AskReview, RunStages, Propose, WriteLeaderboard, WriteProposals, StayBlocked,
       FinishJob, FailJob, SkipEnded, StartPass, StartDaemon, KillDaemon,
       KillServer, Die, Leave, files, vars
  <2> QED
    BY <2>1, <2>2
<1> QED
  BY <1>1, <1>2, <1>3, <1>4

LEMMA PendingIsFinite ==
  ASSUME NEW j
  PROVE  /\ IsFiniteSet(Pending(j)) /\ IsFiniteSet(Requests)
         /\ Cardinality(Pending(j)) \in Nat /\ Cardinality(Requests) \in Nat
<1>1. Pending(j) \subseteq Requests
  BY DEF Pending
<1> QED
  BY <1>1, RequestsAssumption, FS_Subset, FS_CardinalityType

(* A child being made is accounted for until its SPAWNED event is there:    *)
(* a crash may forget one, but no step adds one beyond the check.           *)
LEMMA BudgetedStep ==
  ASSUME TypeOK, Made, Budgeted, [Next]_vars
  PROVE  Budgeted'
<1> DEFINE Later(k) == {q \in Requests : /\ req'[q] # Idle
                                         /\ req'[q].choice # None
                                         /\ req'[q].base = k
                                         /\ req'[q].at # "reply"}
           Goal(k) == spawned'[k] + Cardinality(Later(k))
                        < Limit(k).spawn + Cardinality(Requests)
<1>0. /\ req \in [Requests -> Request \cup {Idle}]
      /\ spawned \in [Job -> Nat]
  BY DEF TypeOK
<1>1. ASSUME NEW k \in Job
      PROVE  /\ Limit(k).spawn \in Nat
             /\ Cardinality(Pending(k)) \in Nat /\ IsFiniteSet(Pending(k))
             /\ Cardinality(Requests) \in Nat /\ IsFiniteSet(Requests)
             /\ spawned[k] \in Nat
  BY <1>0, PendingIsFinite, PolicyAssumption DEF Limit, Policy
<1>2. ASSUME NEW k \in Job, Limit(k).spawn # 0, spawned'[k] = spawned[k],
             Later(k) \subseteq Pending(k)
      PROVE  Goal(k)
  <2>1. Cardinality(Later(k)) \in Nat /\ Cardinality(Later(k)) <= Cardinality(Pending(k))
    BY <1>1, <1>2, FS_Subset, FS_CardinalityType
  <2>2. spawned[k] + Cardinality(Pending(k)) < Limit(k).spawn + Cardinality(Requests)
    BY <1>2 DEF Budgeted
  <2> HIDE DEF Later
  <2> QED
    BY <1>1, <1>2, <2>1, <2>2
<1>3. ASSUME NEW r \in Requests, NEW j \in Job, NEW c \in Choice, spawn(r, j, c),
             NEW k \in Job, Limit(k).spawn # 0
      PROVE  Goal(k)
  <2>1. spawned' = spawned
    BY <1>3 DEF spawn, logs
  <2>2. CASE k = j
    <3>1. spawned[k] < Limit(k).spawn
      BY <1>3, <2>2 DEF spawn, WithinBudget
    <3>2. Later(k) \subseteq Requests
      OBVIOUS
    <3>3. Cardinality(Later(k)) \in Nat /\ Cardinality(Later(k)) <= Cardinality(Requests)
      BY <1>1, <3>2, FS_Subset, FS_CardinalityType
    <3> HIDE DEF Later
    <3> QED
      BY <1>1, <2>1, <3>1, <3>3
  <2>3. CASE k # j
    <3>1. req'[r].base = j /\ \A q \in Requests \ {r} : req'[q] = req[q]
      BY <1>0, <1>3 DEF spawn
    <3>2. Later(k) \subseteq Pending(k)
      BY <2>3, <3>1 DEF Pending
    <3> QED
      BY <1>2, <1>3, <2>1, <3>2
  <2> QED
    BY <2>2, <2>3
<1>4. ASSUME NEW r \in Requests, RecordSpawn(r), NEW k \in Job, Limit(k).spawn # 0
      PROVE  Goal(k)
  <2>1. req[r] \in Request /\ req[r].at = "record" /\ req[r].choice # None /\ req[r] # Idle
    BY <1>4, Working DEF RecordSpawn, At, Place, Made, Reached
  <2>2. req'[r].at = "reply" /\ \A q \in Requests \ {r} : req'[q] = req[q]
    BY <1>4, <1>0, <2>1 DEF RecordSpawn, Move, Request
  <2>3. Later(k) \subseteq Pending(k) \ {r}
    BY <2>2 DEF Pending
  <2>4. CASE req[r].base # k
    <3>1. spawned'[k] = spawned[k]
      BY <1>4, <1>0, <2>4 DEF RecordSpawn
    <3> QED
      BY <1>2, <1>4, <2>3, <3>1
  <2>5. CASE req[r].base = k
    <3>1. spawned'[k] = spawned[k] + 1
      BY <1>4, <1>0, <2>5 DEF RecordSpawn
    <3>2. r \in Pending(k)
      BY <2>1, <2>5 DEF Pending
    <3>3. /\ IsFiniteSet(Pending(k) \ {r})
          /\ Cardinality(Pending(k) \ {r}) = Cardinality(Pending(k)) - 1
      BY <1>1, <3>2, FS_RemoveElement
    <3>4. /\ Cardinality(Later(k)) \in Nat
          /\ Cardinality(Later(k)) <= Cardinality(Pending(k)) - 1
      BY <2>3, <3>3, FS_Subset, FS_CardinalityType
    <3>5. spawned[k] + Cardinality(Pending(k)) < Limit(k).spawn + Cardinality(Requests)
      BY <1>4 DEF Budgeted
    <3> HIDE DEF Later
    <3> QED
      BY <1>1, <3>1, <3>4, <3>5
  <2> QED
    BY <2>4, <2>5
<1>5. ASSUME ~ \E q \in Requests, j \in Job, c \in Choice : spawn(q, j, c),
             spawned' = spawned, NEW k \in Job, Limit(k).spawn # 0
      PROVE  Goal(k)
  <2>1. ASSUME NEW q \in Later(k) PROVE q \in Pending(k)
    <3>1. ~ \E root \in Roots : submit(q, root)
      BY <1>0 DEF submit
    <3>2. /\ req[q] # Idle
          /\ req'[q].base = req[q].base /\ req'[q].choice = req[q].choice
          /\ req[q].at = "reply" => req'[q] = req[q]
      BY <1>5, <3>1, RequestFate
    <3> QED
      BY <3>2 DEF Pending
  <2> QED
    BY <1>2, <1>5, <2>1
<1>6. (\E r \in Requests : RecordSpawn(r)) \/ spawned' = spawned
  BY StepCases DEF CreateStep, Check, MakeDirectory, WriteSpec, WriteInput, AppendSubmitted,
     WritePolicyRef, Reply, submit, spawn, SpawnStopped, approve, VisitRaises, AskReview, RunStages, Propose,
     WriteLeaderboard, WriteProposals, StayBlocked, FinishJob, FailJob, SkipEnded, StartPass, StartDaemon, KillDaemon, KillServer, Die,
     Leave, logs, vars
<1>7. ASSUME NEW k \in Job, Limit(k).spawn # 0 PROVE Goal(k)
  <2> HIDE DEF Goal
  <2> QED
    BY <1>3, <1>4, <1>5, <1>6, <1>7
<1> QED
  BY <1>7 DEF Budgeted, Pending, Limit, IsIdea

-----------------------------------------------------------------------------
(* The theorems *)

LEMMA InitIInv ==
  ASSUME Init PROVE IInv
<1>1. TypeOK
  BY DEF Init, TypeOK, Idle
<1>2. Made /\ Checked
  BY DEF Init, Made, Reached, Checked, Idle
<1>3. Offered /\ SpawnedIsReal /\ ChildrenAreEarned
  BY DEF Init, Offered, SpawnedIsReal, ChildrenAreEarned
<1>4. Budgeted
  <2> SUFFICES ASSUME NEW j \in Job, Limit(j).spawn # 0
               PROVE  spawned[j] + Cardinality(Pending(j))
                        < Limit(j).spawn + Cardinality(Requests)
    BY DEF Budgeted
  <2>1. spawned[j] = 0 /\ Limit(j).spawn \in Nat
    BY PolicyAssumption DEF Init, Limit, Policy
  <2>2. Pending(j) = {}
    BY DEF Init, Pending
  <2>3. Cardinality(Pending(j)) = 0 /\ Cardinality(Requests) \in Nat
    BY <2>2, FS_EmptySet, PendingIsFinite
  <2> QED
    BY <2>1, <2>3
<1> QED
  BY <1>1, <1>2, <1>3, <1>4 DEF IInv

LEMMA StepIInv ==
  ASSUME IInv, [Next]_vars PROVE IInv'
<1>1. /\ TypeOK /\ Made /\ Offered /\ Checked
      /\ SpawnedIsReal /\ ChildrenAreEarned /\ Budgeted
  BY DEF IInv
<1>2. TypeOK' /\ Made' /\ Offered' /\ Checked'
  BY <1>1, TypeStep, MadeStep, OfferedStep, CheckedStep
<1>3. SpawnedIsReal' /\ ChildrenAreEarned' /\ Budgeted'
  BY <1>1, SpawnedIsRealStep, ChildrenAreEarnedStep, BudgetedStep
<1> QED
  BY <1>2, <1>3 DEF IInv

LEMMA Invariance ==
  Spec => []IInv
<1>1. Init => IInv
  BY InitIInv
<1>2. IInv /\ [Next]_vars => IInv'
  BY StepIInv
<1> QED
  BY <1>1, <1>2, PTL DEF Spec

(* Files exist in the order in which a job is created, whoever shares the   *)
(* directories and whenever a process is killed.                            *)
THEOREM TypeCorrect ==
  Spec => []TypeOK
<1>1. IInv => TypeOK
  BY DEF IInv
<1> QED
  BY <1>1, Invariance, PTL

(* max_spawn_per_job without a lock: a job's log has fewer SPAWNED events   *)
(* than its limit plus the number of threads (store.py, both spawns).       *)
THEOREM OvershootBounded ==
  Spec => []SpawnOvershoot
<1>1. IInv => SpawnOvershoot
  <2> SUFFICES ASSUME IInv, NEW j \in Job, Limit(j).spawn # 0
               PROVE  spawned[j] < Limit(j).spawn + Cardinality(Requests)
    BY DEF SpawnOvershoot
  <2>1. spawned[j] + Cardinality(Pending(j)) < Limit(j).spawn + Cardinality(Requests)
    BY DEF IInv, Budgeted
  <2>2. spawned[j] \in Nat /\ Limit(j).spawn \in Nat
    BY PolicyAssumption DEF IInv, TypeOK, Limit, Policy
  <2> QED
    BY <2>1, <2>2, PendingIsFinite
<1> QED
  BY <1>1, Invariance, PTL

(* A server that handles one request at a time does keep to the limit of    *)
(* docs/16_budget_stop/budget_policy_v1.md, crashes or not.                 *)
THEOREM OneThreadKeepsBudget ==
  ASSUME NEW CONSTANT thread, Requests = {thread}
  PROVE  Spec => []SpawnWithinBudget
<1>1. SpawnOvershoot /\ TypeOK => SpawnWithinBudget
  <2> SUFFICES ASSUME SpawnOvershoot, TypeOK, NEW j \in Job, Limit(j).spawn # 0
               PROVE  spawned[j] <= Limit(j).spawn
    BY DEF SpawnWithinBudget
  <2>1. spawned[j] < Limit(j).spawn + Cardinality({thread})
    BY DEF SpawnOvershoot
  <2>2. spawned[j] \in Nat /\ Limit(j).spawn \in Nat
    BY PolicyAssumption DEF TypeOK, Limit, Policy
  <2>3. Cardinality({thread}) = 1
    BY FS_Singleton
  <2> QED
    BY <2>1, <2>2, <2>3
<1> QED
  BY <1>1, OvershootBounded, TypeCorrect, PTL

(* A SPAWNED event never names a job that is not there: it is the last      *)
(* write of a spawn, after the child's spec and log (store.py 502-516).     *)
THEOREM SpawnedEventsAreReal ==
  Spec => []SpawnedIsReal
<1>1. IInv => SpawnedIsReal
  BY DEF IInv
<1> QED
  BY <1>1, Invariance, PTL

(* Every child directory is of a parent that was reviewed, run and          *)
(* registered and that offers the choice - ended or still waiting.          *)
THEOREM ChildrenEarned ==
  Spec => []ChildrenAreEarned
<1>1. IInv => ChildrenAreEarned
  BY DEF IInv
<1> QED
  BY <1>1, Invariance, PTL

(* The write of job_spec.json is where a job comes into being: to an        *)
(* observer of the specs the store only ever grows its trees.               *)
THEOREM Refinement ==
  Spec => ImplementsJobTree
<1>1. Init => Tree!Init
  BY DEF Init, Tree!Init
<1>2. ASSUME IInv, [Next]_vars PROVE [Tree!Next]_spec
  <2>1. ASSUME NEW r \in Requests, WriteSpec(r) PROVE Tree!Next
    <3>1. req[r] \in Request /\ req[r] # Idle
      BY <1>2, <2>1, Working DEF WriteSpec, At, Place, IInv
    <3>2. spec' = spec \cup {Target(req[r])}
      BY <2>1 DEF WriteSpec
    <3>3. CASE req[r].choice = None
      <4>1. PICK root \in Roots : req[r].base = RootJob(root)
        BY <1>2, <3>1, <3>3 DEF IInv, Checked
      <4>2. spec' = spec \cup {Tree!RootJob(root)}
        BY <3>2, <3>3, <4>1 DEF Target, RootJob, Tree!RootJob
      <4> QED
        BY <4>2 DEF Tree!Next, Tree!Submit
    <3>4. CASE req[r].choice # None
      <4>1. req[r].base \in Job /\ req[r].choice \in Choice
        BY <3>1, <3>4 DEF Request
      <4>2. /\ req[r].base \in spec
            /\ req[r].choice \in offers[req[r].base]
            /\ MayDeepen(req[r].base)
        BY <1>2, <3>1, <3>4 DEF IInv, Checked
      <4>3. req[r].choice \in Offerable(req[r].base)
        BY <1>2, <4>1, <4>2 DEF IInv, Offered
      <4>4. spec' = spec \cup {Child(req[r].base, req[r].choice)}
        BY <3>2, <3>4 DEF Target
      <4>5. Tree!Spawn(req[r].base, req[r].choice)
        BY <4>2, <4>3, <4>4 DEF Tree!Spawn, Tree!MayDeepen, MayDeepen, Tree!Offerable,
           Offerable, Tree!Child, Child, Tree!Limit, Limit, Tree!IsIdea, IsIdea,
           Tree!Generation, Generation, Tree!Choice, Choice
      <4> QED
        BY <4>1, <4>5 DEF Tree!Next, Tree!Job, Job, Tree!Path, Path, Tree!Choice, Choice
    <3> QED
      BY <3>3, <3>4
  <2>2. (\E r \in Requests : WriteSpec(r)) \/ spec' = spec
    BY <1>2, StepCases DEF CreateStep, Check, MakeDirectory, WriteInput, AppendSubmitted,
       WritePolicyRef, RecordSpawn, Reply, submit, spawn, SpawnStopped, approve, VisitRaises,
       AskReview, RunStages, Propose, WriteLeaderboard, WriteProposals, StayBlocked,
       FinishJob, FailJob, SkipEnded, StartPass, StartDaemon, KillDaemon,
       KillServer, Die, Leave, files, vars
  <2> QED
    BY <2>1, <2>2
<1>3. IInv /\ [Next]_vars => [Tree!Next]_spec
  BY <1>2
<1> QED
  BY <1>1, <1>3, Invariance, PTL DEF Spec, ImplementsJobTree, Tree!Spec
=============================================================================
