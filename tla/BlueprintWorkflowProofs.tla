------------------------ MODULE BlueprintWorkflowProofs ------------------------
(***************************************************************************)
(* Proofs about Evidence and BlueprintWorkflow, for every set of jobs and  *)
(* runs, any number of workers and command lines, kills and commands.      *)
(***************************************************************************)
EXTENDS BlueprintWorkflow, OrderingProofs, SequenceTheorems, TLAPS

-----------------------------------------------------------------------------
(* Operations *)

Where == {"exists", "open", "write", "publish", "components", "judge", "gtmp",
          "gpublish", "look", "append", "trial", "mkdir", "json", "created",
          "status", "promote", "reply"}
Reply == {"none", "ok", "noop", "pass", "fail", "invalid", "refused", "raised"}
OpSpace == [Actors -> Op \cup {Idle}]

(* A step of a leaves the operations of the others alone. *)
Others(a) == \A b \in Actors \ {a} : op'[b] = op[b]

(* Who is somewhere in an operation has one. *)
LEMMA Operating ==
  ASSUME op \in OpSpace, NEW a \in Actors, op[a].at # "idle"
  PROVE  op[a] \in Op
BY DEF OpSpace, Idle

(* The operation of a becomes x. *)
LEMMA OpStep ==
  ASSUME op \in OpSpace, NEW a \in Actors, NEW x \in Op \cup {Idle}, op' = [op EXCEPT ![a] = x]
  PROVE  op' \in OpSpace /\ op'[a] = x /\ Others(a)
BY DEF OpSpace, Others

(* It goes on, with what it knows. *)
On(a, place) ==
  /\ op' \in OpSpace /\ op[a] \in Op /\ op'[a] \in Op /\ Others(a)
  /\ op'[a].at = place
  /\ op'[a].run = op[a].run /\ op'[a].next = op[a].next
  /\ op'[a].noop = op[a].noop /\ op'[a].found = op[a].found

(* Goto keeps what the operation knows. *)
LEMMA GoesOn ==
  ASSUME op \in OpSpace, NEW a \in Actors, op[a].at # "idle", NEW place \in Where, Goto(a, place)
  PROVE  On(a, place)
<1>1. op[a] \in Op
  BY Operating
<1>2. [op[a] EXCEPT !.at = place] \in Op
  BY <1>1 DEF Op, Where
<1>3. op' = [op EXCEPT ![a] = [op[a] EXCEPT !.at = place]]
  BY DEF Goto
<1>4. op' \in OpSpace /\ op'[a] = [op[a] EXCEPT !.at = place] /\ Others(a)
  BY <1>2, <1>3, OpStep
<1>5. /\ op'[a].at = place
      /\ op'[a].run = op[a].run /\ op'[a].next = op[a].next
      /\ op'[a].noop = op[a].noop /\ op'[a].found = op[a].found
  BY <1>1, <1>4 DEF Op
<1> QED BY <1>1, <1>2, <1>4, <1>5 DEF On

(* It returns. *)
Back(a, v) ==
  /\ op' \in OpSpace /\ op[a] \in Op /\ op'[a] \in Op /\ Others(a)
  /\ op'[a].at = "reply" /\ op'[a].run = op[a].run /\ op'[a].reply = v

(* Return ends it with a reply. *)
LEMMA Returns ==
  ASSUME op \in OpSpace, NEW a \in Actors, op[a].at # "idle", NEW v \in Reply, Return(a, v)
  PROVE  Back(a, v)
<1> DEFINE x == [Call("reply", op[a].run, FALSE, "none") EXCEPT !.reply = v]
<1>1. op[a] \in Op
  BY Operating
<1>2. x \in Op /\ x.at = "reply" /\ x.run = op[a].run /\ x.reply = v
  BY <1>1 DEF Op, Call, Reply
<1>3. op' = [op EXCEPT ![a] = x]
  BY DEF Return
<1> HIDE DEF x
<1>4. op' \in OpSpace /\ op'[a] = x /\ Others(a)
  BY <1>2, <1>3, OpStep
<1> QED BY <1>1, <1>2, <1>4 DEF Back

(* It learns something and goes on. *)
Learn(a, place, v) == op' = [op EXCEPT ![a] = [op[a] EXCEPT !.at = place, !.found = v]]

LEMMA Learns ==
  ASSUME op \in OpSpace, NEW a \in Actors, op[a].at # "idle", NEW place \in Where,
         NEW v \in Merit \cup ALLOWED_STATUSES \cup {"none"},
         Learn(a, place, v)
  PROVE  /\ op' \in OpSpace /\ op[a] \in Op /\ op'[a] \in Op /\ Others(a)
         /\ op'[a].at = place /\ op'[a].run = op[a].run /\ op'[a].found = v
<1> DEFINE x == [op[a] EXCEPT !.at = place, !.found = v]
<1>1. op[a] \in Op
  BY Operating
<1>2. x \in Op
  BY <1>1 DEF Op, Where
<1>3. x.at = place /\ x.run = op[a].run /\ x.found = v
  BY <1>1 DEF Op
<1> HIDE DEF x
<1>4. op' \in OpSpace /\ op'[a] = x /\ Others(a)
  BY <1>2, OpStep DEF Learn, x
<1> QED BY <1>1, <1>2, <1>3, <1>4

(* A call that has just been made. *)
LEMMA CallType ==
  ASSUME NEW place \in Where, NEW r \in Runs, NEW n \in BOOLEAN,
         NEW s \in Merit \cup ALLOWED_STATUSES \cup {"none"}
  PROVE  Call(place, r, n, s) \in Op
BY DEF Call, Op, Where

-----------------------------------------------------------------------------
(* Types *)

(* What is known of an operation from where it is.  A run that cannot be    *)
(* run never gets as far as a dossier.                                      *)
Sensible(o) ==
  /\ o.at \in {"open", "write", "publish", "components"} => merit[o.run] \notin NotRun
  /\ o.at \in {"exists", "open"} => o.next = 1
  /\ o.at = "write" => o.next \in 1..4
  /\ o.at \in {"gtmp", "gpublish"} => o.found \in {"pass", "fail", "invalid"}
  /\ o.at = "append" => o.found \in {"pass", "fail"}
  /\ o.at \in {"status", "promote"} => o.found \in ALLOWED_STATUSES
Runnable == \A r \in Runs : dossier[r].files # {} => merit[r] \notin NotRun
Sense == Runnable /\ \A a \in Actors : Sensible(op[a])

(* The files of a dossier, one by one. *)
LEMMA FileNames ==
  /\ Len(Files) = 4
  /\ Files[1] = "config_snapshot" /\ Files[2] = "metrics" /\ Files[3] = "curve"
  /\ Files[4] = "dossier_manifest"
  /\ FileName = {"config_snapshot", "metrics", "curve", "dossier_manifest"}
  /\ Hashed = {"config_snapshot", "metrics", "curve"}
<1>1. Len(Files) = 4 /\ DOMAIN Files = {1, 2, 3, 4}
  BY DEF Files
<1>2. Len(Artifacts) = 3 /\ DOMAIN Artifacts = {1, 2, 3}
  BY DEF Artifacts
<1>3. /\ Files[1] = "config_snapshot" /\ Files[2] = "metrics" /\ Files[3] = "curve"
      /\ Files[4] = "dossier_manifest"
  BY DEF Files
<1>4. Artifacts[1] = "config_snapshot" /\ Artifacts[2] = "metrics" /\ Artifacts[3] = "curve"
  BY DEF Artifacts
<1>5. FileName = {"config_snapshot", "metrics", "curve", "dossier_manifest"}
  BY <1>1, <1>3 DEF FileName
<1>6. Hashed = {"config_snapshot", "metrics", "curve"}
  BY <1>2, <1>4 DEF Hashed
<1> QED BY <1>1, <1>3, <1>5, <1>6

(* Steps that look and return change no file. *)
JustReturns(a) ==
  \/ RunInvalid(a) \/ RunRaises(a) \/ ResultsThere(a) \/ DossierUnreadable(a) \/ ResultsGone(a)
  \/ RecordRefused(a) \/ TrialCollides(a) \/ CardRefused(a) \/ CardDirThere(a)

(* They end with some reply. *)
LEMMA ReturnStep ==
  ASSUME StoreTypeOK, NEW a \in Actors, JustReturns(a)
  PROVE  /\ \E v \in Reply : Back(a, v)
         /\ UNCHANGED <<store, merit>>
<1>1. op \in OpSpace
  BY DEF StoreTypeOK, OpSpace
<1>2. ASSUME NEW v \in Reply, Return(a, v), op[a].at # "idle" PROVE \E w \in Reply : Back(a, w)
  BY <1>1, <1>2, Returns
<1>3. \E v \in Reply : Return(a, v) /\ op[a].at # "idle"
  BY DEF JustReturns, RunInvalid, RunRaises, ResultsThere, DossierUnreadable, ResultsGone,
     RecordRefused,
     TrialCollides, CardRefused, CardDirThere, At, Reply
<1> QED BY <1>2, <1>3 DEF JustReturns, RunInvalid, RunRaises, ResultsThere, DossierUnreadable,
   ResultsGone,
     RecordRefused, TrialCollides, CardRefused, CardDirThere

(* Where each operation begins. *)
LEMMA Places ==
  ASSUME NEW a \in Actors, Operation(a)
  PROVE  /\ op[a].at \in Where \ {"reply"}
         /\ op[a].at = "exists" => RunInvalid(a) \/ RunRaises(a) \/ FindDossier(a)
         /\ op[a].at = "open" => OpenTmp(a)
         /\ op[a].at = "write" => WriteFile(a)
         /\ op[a].at = "publish" => Publish(a) \/ PublishFails(a)
         /\ op[a].at = "components" => AddComponents(a)
         /\ op[a].at = "judge" => ResultsThere(a) \/ DossierUnreadable(a) \/ RunGates(a)
         /\ op[a].at = "gtmp" => WriteResults(a)
         /\ op[a].at = "gpublish" => PublishResults(a) \/ ResultsGone(a)
         /\ op[a].at = "look" => RecordRefused(a) \/ FindTrial(a)
         /\ op[a].at = "append" => AppendTrial(a) \/ TrialCollides(a)
         /\ op[a].at = "trial" => CardRefused(a) \/ FindCard(a)
         /\ op[a].at = "mkdir" => MakeCardDir(a) \/ CardDirThere(a)
         /\ op[a].at = "json" => WriteCard(a)
         /\ op[a].at = "created" => AppendCreated(a)
         /\ op[a].at = "status" => ReadStatus(a)
         /\ op[a].at = "promote" => AppendPromoted(a)
<1>1. /\ RunInvalid(a) \/ RunRaises(a) \/ FindDossier(a) => op[a].at = "exists"
      /\ OpenTmp(a) => op[a].at = "open"
      /\ WriteFile(a) => op[a].at = "write"
      /\ Publish(a) \/ PublishFails(a) => op[a].at = "publish"
      /\ AddComponents(a) => op[a].at = "components"
  BY DEF RunInvalid, RunRaises, FindDossier, OpenTmp, WriteFile, Publish, PublishFails,
     AddComponents, At
<1>2. /\ ResultsThere(a) \/ DossierUnreadable(a) \/ RunGates(a) => op[a].at = "judge"
      /\ WriteResults(a) => op[a].at = "gtmp"
      /\ PublishResults(a) \/ ResultsGone(a) => op[a].at = "gpublish"
  BY DEF ResultsThere, DossierUnreadable, RunGates, WriteResults, PublishResults, ResultsGone, At
<1>3. /\ RecordRefused(a) \/ FindTrial(a) => op[a].at = "look"
      /\ AppendTrial(a) \/ TrialCollides(a) => op[a].at = "append"
  BY DEF RecordRefused, FindTrial, AppendTrial, TrialCollides, At
<1>4. /\ CardRefused(a) \/ FindCard(a) => op[a].at = "trial"
      /\ MakeCardDir(a) \/ CardDirThere(a) => op[a].at = "mkdir"
      /\ WriteCard(a) => op[a].at = "json"
      /\ AppendCreated(a) => op[a].at = "created"
      /\ ReadStatus(a) => op[a].at = "status"
      /\ AppendPromoted(a) => op[a].at = "promote"
  BY DEF CardRefused, FindCard, MakeCardDir, CardDirThere, WriteCard, AppendCreated, ReadStatus,
     AppendPromoted, At
<1>5. runner(a) \/ gaterunner(a) \/ record_trial(a) \/ create_card_from_run(a) \/ promote_card(a)
  BY DEF Operation
<1>6. op[a].at \in Where \ {"reply"}
  BY <1>1, <1>2, <1>3, <1>4, <1>5
  DEF runner, gaterunner, record_trial, create_card_from_run, promote_card, Where
<1> QED
  BY <1>1, <1>2, <1>3, <1>4, <1>5, <1>6
  DEF runner, gaterunner, record_trial, create_card_from_run, promote_card

(* Each file is written by one or two operations only. *)
LEMMA Frame ==
  ASSUME NEW a \in Actors, Operation(a)
  PROVE  /\ ~Publish(a) /\ ~AddComponents(a) => dossier' = dossier
         /\ ~PublishResults(a) => results' = results
         /\ ~AppendTrial(a) => trials' = trials
         /\ ~MakeCardDir(a) /\ ~WriteCard(a) => card' = card
         /\ ~AppendCreated(a) /\ ~AppendPromoted(a) => cardlog' = cardlog
<1> DEFINE Same == UNCHANGED <<dossier, results, trials, card, cardlog>>
<1>1. RunInvalid(a) \/ RunRaises(a) \/ FindDossier(a) \/ OpenTmp(a) \/ WriteFile(a) \/ PublishFails(a) => Same
  BY DEF RunInvalid, RunRaises, FindDossier, OpenTmp, WriteFile, PublishFails, store
<1>2. (\/ ResultsThere(a) \/ DossierUnreadable(a) \/ RunGates(a) \/ WriteResults(a)
       \/ ResultsGone(a) \/ RecordRefused(a) \/ FindTrial(a) \/ TrialCollides(a)) => Same
  BY DEF ResultsThere, DossierUnreadable, RunGates, WriteResults, ResultsGone, RecordRefused,
     FindTrial, TrialCollides, store
<1>3. CardRefused(a) \/ FindCard(a) \/ CardDirThere(a) \/ ReadStatus(a) => Same
  BY DEF CardRefused, FindCard, CardDirThere, ReadStatus, store
<1>4. Publish(a) \/ AddComponents(a) => UNCHANGED <<results, trials, card, cardlog>>
  BY DEF Publish, AddComponents
<1>5. /\ PublishResults(a) => UNCHANGED <<dossier, trials, card, cardlog>>
      /\ AppendTrial(a) => UNCHANGED <<dossier, results, card, cardlog>>
  BY DEF PublishResults, AppendTrial
<1>6. /\ MakeCardDir(a) \/ WriteCard(a) => UNCHANGED <<dossier, results, trials, cardlog>>
      /\ AppendCreated(a) \/ AppendPromoted(a) => UNCHANGED <<dossier, results, trials, card>>
  BY DEF MakeCardDir, WriteCard, AppendCreated, AppendPromoted
<1> HIDE DEF Same
<1>7. \/ Same \/ Publish(a) \/ AddComponents(a) \/ PublishResults(a) \/ AppendTrial(a)
      \/ MakeCardDir(a) \/ WriteCard(a) \/ AppendCreated(a) \/ AppendPromoted(a)
  BY <1>1, <1>2, <1>3
  DEF Operation, runner, gaterunner, record_trial, create_card_from_run, promote_card
<1> QED BY <1>4, <1>5, <1>6, <1>7 DEF Same

(* An operation keeps the types of the files, and what it must know. *)
LEMMA StoreStep ==
  ASSUME StoreTypeOK, Sense, NEW a \in Actors, Operation(a)
  PROVE  StoreTypeOK' /\ Sense'
<1> USE DEF store
<1> DEFINE Goal == StoreTypeOK' /\ Sense'
           o == op[a]
           r == op[a].run
<1>0. op \in OpSpace /\ \A b \in Actors : Sensible(op[b])
  BY DEF StoreTypeOK, OpSpace, Sense
(* The part of the operations. *)
<1>1. ASSUME merit' = merit, op' \in OpSpace, Others(a), Sensible(op[a])'
      PROVE  op' \in [Actors -> Op \cup {Idle}] /\ \A b \in Actors : Sensible(op[b])'
  BY <1>0, <1>1 DEF OpSpace, Others, Sensible
<1>2. ASSUME UNCHANGED <<store, merit>>, op' \in OpSpace, Others(a), Sensible(op[a])'
      PROVE  Goal
  BY <1>1, <1>2 DEF StoreTypeOK, Sense, Runnable
<1> HIDE DEF Goal
<1> SUFFICES Goal
  BY DEF Goal
<1>3. CASE JustReturns(a)
  <2>1. UNCHANGED <<store, merit>> /\ op' \in OpSpace /\ Others(a) /\ op'[a].at = "reply"
    BY <1>3, ReturnStep DEF Back
  <2>2. Sensible(op[a])'
    BY <2>1 DEF Sensible
  <2> QED BY <1>2, <2>1, <2>2
<1>4. CASE FindDossier(a)
  <2>1. PICK place \in {"components", "open"} : Goto(a, place)
    BY <1>4 DEF FindDossier
  <2>2. On(a, place)
    BY <1>0, <1>4, <2>1, GoesOn DEF FindDossier, At, Where
  <2>3. merit[r] \notin NotRun /\ o.next = 1 /\ UNCHANGED <<store, merit>>
    BY <1>0, <1>4 DEF FindDossier, At, Sensible
  <2>4. Sensible(op[a])'
    BY <2>2, <2>3 DEF On, Sensible
  <2> QED BY <1>2, <2>2, <2>3, <2>4 DEF On
<1>5. CASE OpenTmp(a)
  <2>1. On(a, "write")
    BY <1>0, <1>5, GoesOn DEF OpenTmp, At, Where
  <2>2. merit[r] \notin NotRun /\ o.next = 1 /\ merit' = merit
    BY <1>0, <1>5 DEF OpenTmp, At, Sensible
  <2>3. Sensible(op[a])'
    BY <2>1, <2>2 DEF On, Sensible
  <2>4. tmp' \in [Runs -> Directory]
    BY <1>5 DEF OpenTmp, StoreTypeOK, Empty, Directory
  <2>5. Runnable'
    BY <1>5 DEF OpenTmp, Sense, Runnable
  <2> QED BY <1>1, <1>5, <2>1, <2>3, <2>4, <2>5 DEF OpenTmp, On, StoreTypeOK, Sense, Goal
<1>6. CASE WriteFile(a)
  <2>0. o \in Op /\ o.at = "write"
    BY <1>0, <1>6, Operating DEF WriteFile, At
  <2>1. r \in Runs /\ o.next \in 1..4 /\ merit[r] \notin NotRun /\ merit' = merit
    BY <1>0, <1>6, <2>0 DEF Op, Sensible, WriteFile
  <2> DEFINE place == IF o.next = Len(Files) THEN "publish" ELSE "write"
             n == IF o.next = Len(Files) THEN 1 ELSE o.next + 1
             x == [o EXCEPT !.at = place, !.next = n]
  <2>2. place \in {"publish", "write"} /\ n \in 1..4
    BY <2>1, FileNames
  <2>3. op' = [op EXCEPT ![a] = x]
    BY <1>6 DEF WriteFile
  <2> HIDE DEF place, n
  <2>4. x \in Op /\ x.at = place /\ x.next = n /\ x.run = r
    <3>1. n \in Nat
      BY <2>2
    <3>2. x \in Op
      BY <2>0, <2>2, <3>1 DEF Op
    <3>3. x.at = place /\ x.next = n /\ x.run = r
      BY <2>0 DEF Op
    <3> QED BY <3>2, <3>3
  <2> HIDE DEF x
  <2>5. op' \in OpSpace /\ op'[a] = x /\ Others(a)
    BY <1>0, <2>3, <2>4, OpStep
  <2>6. Sensible(op[a])'
    BY <2>1, <2>2, <2>4, <2>5 DEF Sensible
  <2>7. tmp' \in [Runs -> Directory]
    <3> DEFINE t == tmp[r]
               f == Files[o.next]
               h == IF f = "dossier_manifest" THEN t.files \cap Hashed ELSE t.hashed
               d == [there |-> TRUE, files |-> t.files \cup {f}, hashed |-> h]
    <3>1. t \in Directory
      BY <2>1 DEF StoreTypeOK
    <3>2. f \in FileName
      BY <2>1, FileNames
    <3>3. d \in Directory
      BY <3>1, <3>2 DEF Directory
    <3>4. tmp' = [tmp EXCEPT ![r] = d]
      BY <1>6 DEF WriteFile
    <3> HIDE DEF d
    <3> QED BY <3>3, <3>4 DEF StoreTypeOK
  <2>8. Runnable'
    BY <1>6 DEF WriteFile, Sense, Runnable
  <2> QED BY <1>1, <1>6, <2>1, <2>5, <2>6, <2>7, <2>8 DEF WriteFile, StoreTypeOK, Sense, Goal
<1>7. CASE Publish(a)
  <2>1. On(a, "components")
    BY <1>0, <1>7, GoesOn DEF Publish, At, Where
  <2>2. merit[r] \notin NotRun /\ merit' = merit /\ r \in Runs
    BY <1>0, <1>7, <2>1 DEF Publish, At, Sensible, On, Op
  <2>3. Sensible(op[a])'
    BY <2>1, <2>2 DEF On, Sensible
  <2>4. tmp' \in [Runs -> Directory] /\ dossier' \in [Runs -> Directory]
    BY <1>7, <2>2 DEF Publish, StoreTypeOK, Absent, Directory
  <2>5. Runnable'
    BY <1>7, <2>2 DEF Publish, Sense, Runnable, StoreTypeOK
  <2> QED BY <1>1, <1>7, <2>1, <2>2, <2>3, <2>4, <2>5 DEF Publish, On, StoreTypeOK, Sense, Goal
<1>8. CASE PublishFails(a)
  <2>1. Back(a, "raised")
    BY <1>0, <1>8, Returns DEF PublishFails, At, Reply
  <2>2. Sensible(op[a])'
    BY <2>1 DEF Back, Sensible
  <2>3. tmp' \in [Runs -> Directory]
    BY <1>8 DEF PublishFails, StoreTypeOK, Absent, Directory
  <2>4. Runnable'
    BY <1>8 DEF PublishFails, Sense, Runnable
  <2> QED BY <1>1, <1>8, <2>1, <2>2, <2>3, <2>4 DEF PublishFails, Back, StoreTypeOK, Sense, Goal
<1>9. CASE AddComponents(a)
  <2>1. \E v \in Reply : Return(a, v)
    BY <1>9 DEF AddComponents, Reply
  <2>2. \E v \in Reply : Back(a, v)
    BY <1>0, <1>9, <2>1, Returns DEF AddComponents, At
  <2>3. Sensible(op[a])'
    BY <2>2 DEF Back, Sensible
  <2>4. merit[r] \notin NotRun /\ merit' = merit /\ r \in Runs
    BY <1>0, <1>9, <2>2 DEF AddComponents, At, Sensible, Back, Op
  <2>5. dossier' \in [Runs -> Directory]
    <3>1. [dossier[r] EXCEPT !.files = dossier[r].files \cup {"components"}] \in Directory
      <4> DEFINE d == dossier[r]
      <4>1. d \in Directory
        BY <2>4 DEF StoreTypeOK
      <4>2. d.files \cup {"components"} \in SUBSET (FileName \cup {"components"})
        BY <4>1 DEF Directory
      <4> HIDE DEF d
      <4>3. [d EXCEPT !.files = d.files \cup {"components"}] \in Directory
        BY <4>1, <4>2 DEF Directory
      <4> QED BY <4>3 DEF d
    <3> QED BY <1>9, <2>4, <3>1 DEF AddComponents, StoreTypeOK
  <2>6. Runnable'
    <3>1. \A q \in Runs : q # r => dossier'[q] = dossier[q]
      BY <1>9 DEF AddComponents, StoreTypeOK
    <3> QED BY <2>4, <3>1 DEF Sense, Runnable
  <2> QED BY <1>1, <1>9, <2>2, <2>3, <2>4, <2>5, <2>6 DEF AddComponents, Back, StoreTypeOK, Sense, Goal
<1>10. CASE RunGates(a)
  <2>1. o \in Op /\ r \in Runs
    BY <1>0, <1>10, Operating DEF RunGates, At, Op
  <2>2. merit[r] \in {"pass", "fail", "invalid"}
    BY <1>10, <2>1 DEF RunGates, Sense, Runnable, StoreTypeOK, Merit, NotRun
  <2>3. PICK v \in {"pass", "fail", "invalid"} :
          Learn(a, "gtmp", v)
    BY <1>10, <2>2 DEF RunGates, Learn
  <2>6. op[a].at # "idle" /\ v \in Merit \cup ALLOWED_STATUSES \cup {"none"} /\ "gtmp" \in Where
    BY <1>10 DEF RunGates, At, Where, Merit, NotRun
  <2>4. op' \in OpSpace /\ Others(a) /\ op'[a].at = "gtmp" /\ op'[a].found = v
    BY <1>0, <2>3, <2>6, Learns
  <2>5. Sensible(op[a])'
    BY <2>4 DEF Sensible
  <2> QED BY <1>2, <1>10, <2>4, <2>5 DEF RunGates
<1>11. CASE WriteResults(a)
  <2>1. On(a, "gpublish")
    BY <1>0, <1>11, GoesOn DEF WriteResults, At, Where
  <2>2. Sensible(op[a])'
    BY <1>0, <1>11, <2>1 DEF On, Sensible, WriteResults, At
  <2>3. Runnable'
    BY <1>11 DEF WriteResults, Sense, Runnable
  <2> QED BY <1>1, <1>11, <2>1, <2>2, <2>3 DEF WriteResults, On, StoreTypeOK, Sense, Goal
<1>12. CASE PublishResults(a)
  <2>1. o.found \in {"pass", "fail", "invalid"}
    BY <1>0, <1>12 DEF PublishResults, At, Sensible
  <2>2. Back(a, o.found)
    BY <1>0, <1>12, <2>1, Returns DEF PublishResults, At, Reply
  <2>3. Sensible(op[a])'
    BY <2>2 DEF Back, Sensible
  <2>4. Runnable'
    BY <1>12 DEF PublishResults, Sense, Runnable
  <2>5. results' \in [Runs -> {"none", "pass", "fail"}] /\ gtmp' \in [Runs -> BOOLEAN]
    BY <1>12 DEF PublishResults, StoreTypeOK
  <2> QED BY <1>1, <1>12, <2>2, <2>3, <2>4, <2>5 DEF PublishResults, Back, StoreTypeOK, Sense, Goal
<1>13. CASE FindTrial(a)
  <2>1. o \in Op /\ r \in Runs /\ o.at = "look"
    BY <1>0, <1>13, Operating DEF FindTrial, At, Op
  <2>2. CASE trials[r] # <<>>
    <3>1. Head(trials[r]) \in Reply
      BY <2>1, <2>2 DEF StoreTypeOK, Reply
    <3>2. Back(a, Head(trials[r]))
      BY <1>0, <1>13, <2>1, <2>2, <3>1, Returns DEF FindTrial
    <3>3. Sensible(op[a])'
      BY <3>2 DEF Back, Sensible
    <3> QED BY <1>2, <1>13, <3>2, <3>3 DEF FindTrial, Back
  <2>3. CASE trials[r] = <<>>
    <3>1. results[r] \in {"pass", "fail"}
      BY <1>13, <2>1 DEF FindTrial, StoreTypeOK
    <3> DEFINE v == results[r]
    <3>2. Learn(a, "append", v)
      BY <1>13, <2>3 DEF FindTrial, Learn
    <3>5. op[a].at # "idle" /\ v \in Merit \cup ALLOWED_STATUSES \cup {"none"} /\ "append" \in Where
      BY <2>1, <3>1 DEF Where, Merit, NotRun
    <3> HIDE DEF v
    <3>3. op' \in OpSpace /\ Others(a) /\ op'[a].at = "append" /\ op'[a].found = v
      BY <1>0, <3>2, <3>5, Learns
    <3>4. Sensible(op[a])'
      BY <3>1, <3>3 DEF Sensible, v
    <3> QED BY <1>2, <1>13, <3>3, <3>4 DEF FindTrial
  <2> QED BY <2>2, <2>3
<1>14. CASE AppendTrial(a)
  <2>1. o \in Op /\ r \in Runs /\ o.found \in {"pass", "fail"}
    BY <1>0, <1>14, Operating DEF AppendTrial, At, Op, Sensible
  <2>2. Back(a, o.found)
    BY <1>0, <1>14, <2>1, Returns DEF AppendTrial, At, Reply
  <2>3. Sensible(op[a])'
    BY <2>2 DEF Back, Sensible
  <2>4. Runnable'
    BY <1>14 DEF AppendTrial, Sense, Runnable
  <2>5. trials' \in [Runs -> Seq({"pass", "fail"})]
    <3>1. Append(trials[r], o.found) \in Seq({"pass", "fail"})
      BY <2>1 DEF StoreTypeOK
    <3> QED BY <1>14, <3>1 DEF AppendTrial, StoreTypeOK
  <2> QED BY <1>1, <1>14, <2>2, <2>3, <2>4, <2>5 DEF AppendTrial, Back, StoreTypeOK, Sense, Goal
<1>15. CASE FindCard(a)
  <2>1. CASE card[r] = "json"
    <3>1. Back(a, "ok")
      BY <1>0, <1>15, <2>1, Returns DEF FindCard, At, Reply
    <3>2. Sensible(op[a])'
      BY <3>1 DEF Back, Sensible
    <3> QED BY <1>2, <1>15, <3>1, <3>2 DEF FindCard, Back
  <2>2. CASE card[r] # "json"
    <3>1. On(a, "mkdir")
      BY <1>0, <1>15, <2>2, GoesOn DEF FindCard, At, Where
    <3>2. Sensible(op[a])'
      BY <3>1 DEF On, Sensible
    <3> QED BY <1>2, <1>15, <3>1, <3>2 DEF FindCard, On
  <2> QED BY <2>1, <2>2
<1>16. CASE MakeCardDir(a)
  <2>1. On(a, "json")
    BY <1>0, <1>16, GoesOn DEF MakeCardDir, At, Where
  <2>2. Sensible(op[a])'
    BY <2>1 DEF On, Sensible
  <2>3. Runnable' /\ card' \in [Runs -> {"none", "dir", "json"}]
    BY <1>16 DEF MakeCardDir, Sense, Runnable, StoreTypeOK
  <2> QED BY <1>1, <1>16, <2>1, <2>2, <2>3 DEF MakeCardDir, On, StoreTypeOK, Sense, Goal
<1>17. CASE WriteCard(a)
  <2>1. On(a, "created")
    BY <1>0, <1>17, GoesOn DEF WriteCard, At, Where
  <2>2. Sensible(op[a])'
    BY <2>1 DEF On, Sensible
  <2>3. Runnable' /\ card' \in [Runs -> {"none", "dir", "json"}]
    BY <1>17 DEF WriteCard, Sense, Runnable, StoreTypeOK
  <2> QED BY <1>1, <1>17, <2>1, <2>2, <2>3 DEF WriteCard, On, StoreTypeOK, Sense, Goal
<1>18. ASSUME NEW s \in ALLOWED_STATUSES \cup {"CREATED"}, AppendCreated(a) \/ AppendPromoted(a),
              cardlog' = [cardlog EXCEPT ![r] = Append(cardlog[r], s)]
       PROVE  Goal
  <2>1. Back(a, "ok")
    BY <1>0, <1>18, Returns DEF AppendCreated, AppendPromoted, At, Reply
  <2>2. Sensible(op[a])'
    BY <2>1 DEF Back, Sensible
  <2>3. Runnable'
    BY <1>18 DEF AppendCreated, AppendPromoted, Sense, Runnable
  <2>4. r \in Runs
    BY <2>1 DEF Back, Op
  <2>5. cardlog' \in [Runs -> Seq(ALLOWED_STATUSES \cup {"CREATED"})]
    <3> DEFINE S == ALLOWED_STATUSES \cup {"CREATED"}
    <3>1. cardlog[r] \in Seq(S)
      BY <2>4 DEF StoreTypeOK
    <3>2. Append(cardlog[r], s) \in Seq(S)
      BY <1>18, <3>1
    <3> QED BY <1>18, <3>2 DEF StoreTypeOK
  <2> QED BY <1>1, <1>18, <2>1, <2>2, <2>3, <2>5
          DEF AppendCreated, AppendPromoted, Back, StoreTypeOK, Sense, Goal
<1>19. CASE AppendCreated(a)
  BY <1>18, <1>19 DEF AppendCreated
<1>20. CASE AppendPromoted(a)
  <2>1. o.found \in ALLOWED_STATUSES
    BY <1>0, <1>20 DEF AppendPromoted, At, Sensible
  <2> QED BY <1>18, <1>20, <2>1 DEF AppendPromoted
<1>21. CASE ReadStatus(a)
  <2>1. o.found \in ALLOWED_STATUSES
    BY <1>0, <1>21 DEF ReadStatus, At, Sensible
  <2>2. Goto(a, "promote") \/ Return(a, "refused")
    BY <1>21 DEF ReadStatus
  <2>3. On(a, "promote") \/ Back(a, "refused")
    BY <1>0, <1>21, <2>2, GoesOn, Returns DEF ReadStatus, At, Where, Reply
  <2>4. Sensible(op[a])' /\ op' \in OpSpace /\ Others(a)
    BY <2>1, <2>3 DEF On, Back, Sensible
  <2> QED BY <1>2, <1>21, <2>4 DEF ReadStatus
<1> QED
  BY <1>3, <1>4, <1>5, <1>6, <1>7, <1>8, <1>9, <1>10, <1>11, <1>12, <1>13, <1>14, <1>15, <1>16,
     <1>17, <1>19, <1>20, <1>21
  DEF Operation, runner, gaterunner, record_trial, create_card_from_run, promote_card, JustReturns

-----------------------------------------------------------------------------
(* The stages of a job. *)
LEMMA StageSet ==
  /\ Stage = {"RUNSPEC_COMPILED", "RUN_COMPLETED", "GATES_COMPLETED", "REGISTRY_UPDATED"}
  /\ DOMAIN Stages = 1..4
  /\ Stages[1] = "RUNSPEC_COMPILED" /\ Stages[2] = "RUN_COMPLETED"
  /\ Stages[3] = "GATES_COMPLETED" /\ Stages[4] = "REGISTRY_UPDATED"
<1>1. DOMAIN Stages = {1, 2, 3, 4} /\ DOMAIN Stages = 1..4
  BY DEF Stages
<1>2. /\ Stages[1] = "RUNSPEC_COMPILED" /\ Stages[2] = "RUN_COMPLETED"
      /\ Stages[3] = "GATES_COMPLETED" /\ Stages[4] = "REGISTRY_UPDATED"
  BY DEF Stages
<1> QED BY <1>1, <1>2 DEF Stage

(* A call that begins. *)
Fresh(o) ==
  \E place \in {"exists", "judge", "look", "trial", "status"}, r \in Runs, n \in BOOLEAN,
     s \in ALLOWED_STATUSES \cup {"none"} :
    o = Call(place, r, n, s) /\ (place = "status" => s \in ALLOWED_STATUSES)

(* Outside the operations only the beginning and the end of calls is seen. *)
Calls ==
  /\ UNCHANGED <<store, merit>>
  /\ op' \in OpSpace
  /\ \A b \in Actors : op'[b] = op[b] \/ op'[b] = Idle \/ Fresh(op'[b])

(* A call that begins is an operation that knows nothing yet. *)
LEMMA FreshType ==
  ASSUME NEW o, Fresh(o)
  PROVE  o \in Op /\ Sensible(o)
<1>1. PICK place \in {"exists", "judge", "look", "trial", "status"}, r \in Runs, n \in BOOLEAN,
           s \in ALLOWED_STATUSES \cup {"none"} :
        o = Call(place, r, n, s) /\ (place = "status" => s \in ALLOWED_STATUSES)
  BY DEF Fresh
<1>2. o \in Op
  BY <1>1, CallType DEF Where
<1>3. o.at = place /\ o.found = s /\ o.next = 1
  BY <1>1 DEF Call
<1> QED BY <1>1, <1>2, <1>3 DEF Sensible

(* Who calls and who is done with a call. *)
LEMMA CallsStep ==
  ASSUME TypeOK, NEW a \in Actors, NEW o, o = Idle \/ Fresh(o),
         op' = [op EXCEPT ![a] = o], UNCHANGED <<store, merit>>
  PROVE  Calls
<1>1. o \in Op \cup {Idle} /\ op \in OpSpace
  BY FreshType DEF TypeOK, StoreTypeOK, OpSpace
<1>2. op' \in OpSpace /\ op'[a] = o /\ Others(a)
  BY <1>1, OpStep
<1> QED BY <1>2 DEF Calls, Others

(* Who touches no operation makes no call. *)
LEMMA NoCalls ==
  ASSUME TypeOK, UNCHANGED <<store, merit, op>>
  PROVE  Calls
BY DEF TypeOK, StoreTypeOK, OpSpace, Calls

(* A worker that is at work has a job. *)
LEMMA AtWork ==
  ASSUME TypeOK, NEW w \in Workers, worker[w].at # "idle"
  PROVE  worker[w] \in Work /\ w \in Actors
BY ActorsAssumption DEF TypeOK, Free

(* The worker's part of the types. *)
WorkerTypeOK == worker \in [Workers -> Work \cup {Free}]
LogTypeOK ==
  /\ events \in [Jobs -> SUBSET (Stage \cup {"ERROR", "DONE"})]
  /\ approved \in [Jobs -> SUBSET (APPROVAL_STEPS \cup {AnyStep})]
  /\ asked \in [Jobs -> SUBSET APPROVAL_STEPS]
  /\ overall \in [Jobs -> {"none", "pass", "fail"}]
  /\ carded \in [Jobs -> BOOLEAN]
  /\ swept \subseteq Jobs

(* The types in parts; calls leave those of the files alone. *)
LEMMA TypeParts ==
  /\ TypeOK <=> StoreTypeOK /\ LogTypeOK /\ WorkerTypeOK /\ crashes \in Nat /\ commands \in Nat
  /\ Calls /\ StoreTypeOK => StoreTypeOK'
BY DEF TypeOK, LogTypeOK, WorkerTypeOK, Calls, StoreTypeOK, store, OpSpace

(* A worker goes on to a place in its job. *)
LEMMA WorkerStep ==
  ASSUME TypeOK, NEW w \in Workers, NEW x \in Work \cup {Free}, worker' = [worker EXCEPT ![w] = x]
  PROVE  WorkerTypeOK' /\ worker'[w] = x /\ \A v \in Workers \ {w} : worker'[v] = worker[v]
BY DEF TypeOK, WorkerTypeOK

(* It goes on within its stage. *)
LEMMA WorkerGoes ==
  ASSUME TypeOK, NEW w \in Workers, worker[w].at # "idle",
         NEW place \in {"loop", "compile", "call", "record", "card", "index", "event", "ask",
                       "sweep"},
         worker' = [worker EXCEPT ![w].at = place]
  PROVE  /\ WorkerTypeOK' /\ worker'[w].at = place
         /\ worker'[w].job = worker[w].job /\ worker'[w].stage = worker[w].stage
         /\ worker'[w].card = worker[w].card
         /\ \A v \in Workers \ {w} : worker'[v] = worker[v]
<1> DEFINE x == [worker[w] EXCEPT !.at = place]
<1>1. worker[w] \in Work
  BY AtWork
<1>2. x \in Work
  BY <1>1 DEF Work
<1>3. /\ x.at = place /\ x.job = worker[w].job /\ x.stage = worker[w].stage
      /\ x.card = worker[w].card
  BY <1>1 DEF Work
<1>4. worker' = [worker EXCEPT ![w] = x]
  OBVIOUS
<1> HIDE DEF x
<1> QED BY <1>2, <1>3, <1>4, WorkerStep

(* The head of the loop. *)
LEMMA LoopType ==
  ASSUME NEW j \in Jobs
  PROVE  Loop(j) \in Work
BY StageSet DEF Loop, Work

(* Every step but those of operations: types, and calls. *)
LEMMA OutsideStep ==
  ASSUME TypeOK, Next, ~ \E a \in Actors : Operate(a)
  PROVE  TypeOK' /\ Calls
<1> DEFINE Goal == TypeOK' /\ Calls
<1>0. StoreTypeOK /\ LogTypeOK /\ crashes \in Nat /\ commands \in Nat
  BY TypeParts
<1>1. ASSUME Calls, LogTypeOK', WorkerTypeOK', crashes' \in Nat, commands' \in Nat
      PROVE  Goal
  <2>1. StoreTypeOK'
    BY <1>0, <1>1, TypeParts
  <2>2. TypeOK'
    BY <1>1, <2>1 DEF TypeOK, LogTypeOK, WorkerTypeOK
  <2> QED BY <1>1, <2>2
<1> HIDE DEF Goal
<1> SUFFICES Goal
  BY DEF Goal
<1>2. Free \in Work \cup {Free} /\ WorkerTypeOK
  BY DEF TypeOK, WorkerTypeOK
<1>3. ASSUME NEW w \in Workers, NEW j \in Jobs, AskBlueprint(w, j) PROVE Goal
  <2>1. Calls
    BY <1>3, NoCalls DEF AskBlueprint
  <2>2. LogTypeOK' /\ WorkerTypeOK'
    BY <1>0, <1>2, <1>3 DEF AskBlueprint, LogTypeOK, WorkerTypeOK, APPROVAL_STEPS
  <2> QED BY <1>0, <1>1, <1>3, <2>1, <2>2 DEF AskBlueprint
<1>4. ASSUME NEW w \in Workers, NEW j \in Jobs, NEW s \in Stage, Begin(w, j, s) PROVE Goal
  <2> DEFINE x == [at |-> IF s = "RUNSPEC_COMPILED" THEN "compile" ELSE "call",
                   job |-> j, stage |-> s, card |-> FALSE]
  <2>1. x \in Work
    BY DEF Work
  <2>2. worker' = [worker EXCEPT ![w] = x]
    BY <1>4 DEF Begin
  <2> HIDE DEF x
  <2>3. WorkerTypeOK'
    BY <2>1, <2>2, WorkerStep
  <2>4. Calls
    <3>1. CASE s = "RUNSPEC_COMPILED"
      BY <1>4, <3>1, NoCalls DEF Begin
    <3>2. CASE s # "RUNSPEC_COMPILED"
      <4>1. CallOf(s, j) \in {Call("exists", RunOf[j], TRUE, "none"),
              Call("judge", RunOf[j], TRUE, "none"), Call("look", RunOf[j], TRUE, "none")}
        BY <3>2, StageSet DEF CallOf
      <4>2. Fresh(CallOf(s, j))
        BY <4>1, JobsAssumption DEF Fresh
      <4>3. op' = [op EXCEPT ![w] = CallOf(s, j)] /\ w \in Actors
        BY <1>4, <3>2, ActorsAssumption DEF Begin
      <4> QED BY <1>4, <4>2, <4>3, CallsStep DEF Begin
    <3> QED BY <3>1, <3>2
  <2>5. LogTypeOK'
    BY <1>0, <1>4 DEF Begin, LogTypeOK, log
  <2> QED BY <1>0, <1>1, <1>4, <2>3, <2>4, <2>5 DEF Begin
<1>5. ASSUME NEW w \in Workers, NEW j \in Jobs, AskSweep(w, j) PROVE Goal
  <2>1. Calls
    BY <1>5, NoCalls DEF AskSweep
  <2>2. LogTypeOK'
    BY <1>0, <1>5 DEF AskSweep, LogTypeOK, APPROVAL_STEPS
  <2>3. WorkerTypeOK'
    BY <1>2, <1>5, WorkerStep DEF AskSweep
  <2> QED BY <1>0, <1>1, <1>5, <2>1, <2>2, <2>3 DEF AskSweep
<1>6. ASSUME NEW w \in Workers, NEW j \in Jobs, BeginSweep(w, j) PROVE Goal
  <2>1. Calls
    BY <1>6, NoCalls DEF BeginSweep
  <2>2. LogTypeOK'
    BY <1>0, <1>6 DEF BeginSweep, LogTypeOK, log
  <2>3. [Loop(j) EXCEPT !.at = "sweep"] \in Work
    BY LoopType DEF Work
  <2>4. WorkerTypeOK'
    BY <1>6, <2>3, WorkerStep DEF BeginSweep
  <2> QED BY <1>0, <1>1, <1>6, <2>1, <2>2, <2>4 DEF BeginSweep
<1>7. ASSUME NEW w \in Workers, NEW j \in Jobs, Finish(w, j) PROVE Goal
  <2>1. Calls
    BY <1>7, NoCalls DEF Finish
  <2>2. LogTypeOK'
    BY <1>0, <1>7 DEF Finish, LogTypeOK
  <2>3. WorkerTypeOK'
    BY <1>2, <1>7, WorkerStep DEF Finish
  <2> QED BY <1>0, <1>1, <1>7, <2>1, <2>2, <2>3 DEF Finish
<1>8. ASSUME NEW w \in Workers, Compile(w) PROVE Goal
  <2>1. Calls
    BY <1>8, NoCalls DEF Compile
  <2>2. LogTypeOK'
    BY <1>0, <1>8 DEF Compile, LogTypeOK, log
  <2>3. WorkerTypeOK'
    BY <1>8, WorkerGoes DEF Compile
  <2> QED BY <1>0, <1>1, <1>8, <2>1, <2>2, <2>3 DEF Compile
<1>9. ASSUME NEW w \in Workers, CompileFails(w) PROVE Goal
  <2>1. Calls
    BY <1>9, NoCalls DEF CompileFails
  <2>2. worker[w].job \in Jobs
    BY <1>9, AtWork DEF CompileFails, Work
  <2>3. LogTypeOK'
    BY <1>0, <1>9, <2>2 DEF CompileFails, Fail, LogTypeOK
  <2>4. WorkerTypeOK'
    BY <1>2, <1>9, WorkerStep DEF CompileFails, Fail
  <2> QED BY <1>0, <1>1, <1>9, <2>1, <2>3, <2>4 DEF CompileFails
<1>10. ASSUME NEW w \in Workers, Accept(w) PROVE Goal
  <2>0. worker[w] \in Work /\ w \in Actors
    BY <1>10, AtWork DEF Accept, Returned
  <2>1. Calls
    BY <1>10, <2>0, CallsStep DEF Accept
  <2> DEFINE b == worker[w].at = "card" /\ op[w].reply = "ok"
             x == [worker[w] EXCEPT !.at = "index", !.card = b]
  <2>2. x \in Work
    BY <2>0 DEF Work
  <2>3. worker' = [worker EXCEPT ![w] = x]
    BY <1>10 DEF Accept
  <2> HIDE DEF x
  <2>4. WorkerTypeOK'
    BY <2>2, <2>3, WorkerStep
  <2>5. LogTypeOK'
    BY <1>0, <1>10 DEF Accept, LogTypeOK
  <2> QED BY <1>0, <1>1, <1>10, <2>1, <2>4, <2>5 DEF Accept
<1>11. ASSUME NEW w \in Workers, CreateCard(w) PROVE Goal
  <2>0. worker[w] \in Work /\ w \in Actors
    BY <1>11, AtWork DEF CreateCard, Returned
  <2>1. RunOf[worker[w].job] \in Runs
    BY <2>0, JobsAssumption DEF Work
  <2>2. Fresh(Call("trial", RunOf[worker[w].job], TRUE, "none"))
    BY <2>1 DEF Fresh
  <2>3. Calls
    BY <1>11, <2>0, <2>2, CallsStep DEF CreateCard
  <2>4. WorkerTypeOK'
    BY <1>11, WorkerGoes DEF CreateCard, Returned
  <2>5. LogTypeOK'
    BY <1>0, <1>11 DEF CreateCard, LogTypeOK, log
  <2> QED BY <1>0, <1>1, <1>11, <2>3, <2>4, <2>5 DEF CreateCard
<1>12. ASSUME NEW w \in Workers, Refuse(w) PROVE Goal
  <2>0. worker[w] \in Work /\ w \in Actors /\ worker[w].job \in Jobs
    BY <1>12, AtWork DEF Refuse, Returned, Work
  <2>1. Calls
    BY <1>12, <2>0, CallsStep DEF Refuse
  <2>2. LogTypeOK'
    BY <1>0, <1>12, <2>0 DEF Refuse, Fail, LogTypeOK
  <2>3. WorkerTypeOK'
    BY <1>2, <1>12, WorkerStep DEF Refuse, Fail
  <2> QED BY <1>0, <1>1, <1>12, <2>1, <2>2, <2>3 DEF Refuse
<1>13. ASSUME NEW w \in Workers, Raise(w) PROVE Goal
  <2>0. w \in Actors
    BY ActorsAssumption
  <2>1. Calls
    BY <1>13, <2>0, CallsStep DEF Raise
  <2>2. LogTypeOK' /\ WorkerTypeOK'
    BY <1>0, <1>2, <1>13, WorkerStep DEF Raise, LogTypeOK, log
  <2> QED BY <1>0, <1>1, <1>13, <2>1, <2>2 DEF Raise
<1>14. ASSUME NEW w \in Workers, WriteIndex(w) PROVE Goal
  <2>0. worker[w].card \in BOOLEAN
    BY <1>14, AtWork DEF WriteIndex, Work
  <2>1. Calls
    BY <1>14, NoCalls DEF WriteIndex
  <2>2. LogTypeOK'
    BY <1>0, <1>14, <2>0 DEF WriteIndex, LogTypeOK
  <2>3. WorkerTypeOK'
    BY <1>14, WorkerGoes DEF WriteIndex
  <2> QED BY <1>0, <1>1, <1>14, <2>1, <2>2, <2>3 DEF WriteIndex
<1>15. ASSUME NEW w \in Workers, AppendEvent(w) PROVE Goal
  <2>0. worker[w] \in Work /\ worker[w].job \in Jobs /\ worker[w].stage \in Stage
    BY <1>15, AtWork DEF AppendEvent, Work
  <2>1. Calls
    BY <1>15, NoCalls DEF AppendEvent
  <2>2. LogTypeOK'
    BY <1>0, <1>15, <2>0 DEF AppendEvent, LogTypeOK
  <2>3. [worker[w] EXCEPT !.at = "ask"] \in Work /\ Loop(worker[w].job) \in Work
    BY <2>0, LoopType DEF Work
  <2>4. \/ worker' = [worker EXCEPT ![w] = [worker[w] EXCEPT !.at = "ask"]]
        \/ worker' = [worker EXCEPT ![w] = Loop(worker[w].job)]
    BY <1>15 DEF AppendEvent
  <2>5. WorkerTypeOK'
    BY <2>3, <2>4, WorkerStep
  <2> QED BY <1>0, <1>1, <1>15, <2>1, <2>2, <2>5 DEF AppendEvent
<1>16. ASSUME NEW w \in Workers, AskRunspec(w) PROVE Goal
  <2>0. worker[w].job \in Jobs
    BY <1>16, AtWork DEF AskRunspec, Work
  <2>1. Calls
    BY <1>16, NoCalls DEF AskRunspec
  <2>2. LogTypeOK'
    BY <1>0, <1>16, <2>0 DEF AskRunspec, LogTypeOK, APPROVAL_STEPS
  <2>3. WorkerTypeOK'
    BY <1>16, <2>0, LoopType, WorkerStep DEF AskRunspec
  <2> QED BY <1>0, <1>1, <1>16, <2>1, <2>2, <2>3 DEF AskRunspec
<1>17. ASSUME NEW a \in Actors, Kill(a) PROVE Goal
  <2>1. Calls
    BY <1>17, CallsStep DEF Kill
  <2>2. LogTypeOK'
    BY <1>0, <1>17 DEF Kill, LogTypeOK, log
  <2>3. WorkerTypeOK'
    BY <1>2, <1>17, WorkerStep DEF Kill, WorkerTypeOK
  <2> QED BY <1>0, <1>1, <1>17, <2>1, <2>2, <2>3 DEF Kill
<1>18. ASSUME NEW j \in Jobs, NEW step \in Approvals[j], approve(j, step) PROVE Goal
  <2>1. Calls
    BY <1>18, NoCalls DEF approve
  <2>2. step \in APPROVAL_STEPS \cup {AnyStep}
    BY ApprovalsAssumption DEF APPROVAL_STEPS, AnyStep
  <2>3. LogTypeOK' /\ WorkerTypeOK'
    BY <1>0, <1>2, <1>18, <2>2 DEF approve, LogTypeOK, WorkerTypeOK
  <2> QED BY <1>0, <1>1, <1>18, <2>1, <2>3 DEF approve
<1>19. ASSUME NEW w \in Workers, Sweep(w) \/ SweepRaises(w) PROVE Goal
  <2>0. worker[w].job \in Jobs
    BY <1>19, AtWork DEF Sweep, SweepRaises, Work
  <2>1. Calls
    BY <1>19, NoCalls DEF Sweep, SweepRaises
  <2>2. LogTypeOK'
    BY <1>0, <1>19, <2>0 DEF Sweep, SweepRaises, Fail, LogTypeOK, log
  <2>3. worker' = [worker EXCEPT ![w] = Loop(worker[w].job)] \/ worker' = [worker EXCEPT ![w] = Free]
    BY <1>19 DEF Sweep, SweepRaises, Fail
  <2>4. WorkerTypeOK'
    BY <1>2, <2>0, <2>3, LoopType, WorkerStep
  <2> QED BY <1>0, <1>1, <1>19, <2>1, <2>2, <2>4 DEF Sweep, SweepRaises
<1>20. ASSUME NEW s \in Shells, NEW cmd \in Commands, NEW r \in Runs, Type(s, cmd, r) PROVE Goal
  <2>1. PICK c \in ShellCall(cmd, r) : op' = [op EXCEPT ![s] = c]
    BY <1>20 DEF Type
  <2>2. \/ c \in {Call("exists", r, TRUE, "none"), Call("judge", r, TRUE, "none"),
                  Call("look", r, TRUE, "none")}
        \/ \E n \in BOOLEAN : c = Call("trial", r, n, "none")
        \/ \E t \in ALLOWED_STATUSES : c = Call("status", r, FALSE, t)
    BY <2>1, CommandsAssumption DEF ShellCall
  <2>3. Fresh(c)
    BY <2>2 DEF Fresh
  <2>4. Calls
    BY <1>20, <2>1, <2>3, CallsStep, ActorsAssumption DEF Type
  <2>5. LogTypeOK' /\ WorkerTypeOK'
    BY <1>0, <1>2, <1>20 DEF Type, LogTypeOK, WorkerTypeOK, log
  <2> QED BY <1>0, <1>1, <1>20, <2>4, <2>5 DEF Type
<1> QED
  BY <1>3, <1>4, <1>5, <1>6, <1>7, <1>8, <1>9, <1>10, <1>11, <1>12, <1>13, <1>14, <1>15, <1>16,
     <1>17, <1>18, <1>19, <1>20
  DEF Next, Continue, advance_job_once

(* Every step. *)
LEMMA TypeStep ==
  ASSUME TypeOK, Sense, [Next]_vars
  PROVE  TypeOK' /\ Sense' /\ (Calls \/ \E a \in Actors : Operate(a))
<1>1. ASSUME Calls, TypeOK' PROVE Sense'
  <2>1. Runnable'
    BY <1>1 DEF Calls, Sense, Runnable, store
  <2>2. ASSUME NEW b \in Actors PROVE Sensible(op[b])'
    <3>1. merit' = merit
      BY <1>1 DEF Calls
    <3>2. CASE op'[b] = op[b]
      BY <3>1, <3>2 DEF Sense, Sensible
    <3>3. CASE op'[b] = Idle
      BY <3>3 DEF Sensible, Idle
    <3>4. CASE Fresh(op'[b])
      <4>1. PICK place \in {"exists", "judge", "look", "trial", "status"}, r \in Runs,
                 n \in BOOLEAN, s \in ALLOWED_STATUSES \cup {"none"} :
              op'[b] = Call(place, r, n, s) /\ (place = "status" => s \in ALLOWED_STATUSES)
        BY <3>4 DEF Fresh
      <4>2. op'[b].at = place /\ op'[b].found = s /\ op'[b].next = 1
        BY <4>1 DEF Call
      <4> QED BY <4>1, <4>2 DEF Sensible
    <3> QED BY <1>1, <3>2, <3>3, <3>4 DEF Calls
  <2> QED BY <2>1, <2>2 DEF Sense
<1>2. CASE UNCHANGED vars
  <2>1. Calls
    BY <1>2, NoCalls DEF vars
  <2>2. TypeOK'
    BY <1>2 DEF vars, TypeOK, StoreTypeOK, store, log
  <2> QED BY <1>1, <2>1, <2>2
<1>3. CASE Next /\ ~ \E a \in Actors : Operate(a)
  BY <1>1, <1>3, OutsideStep
<1>4. ASSUME NEW a \in Actors, Operate(a) PROVE TypeOK' /\ Sense'
  <2>1. StoreTypeOK' /\ Sense'
    BY <1>4, StoreStep DEF Operate, TypeOK
  <2> QED BY <1>4, <2>1 DEF Operate, TypeOK, log
<1> QED BY <1>2, <1>3, <1>4

(* At first there is nothing. *)
LEMMA TypeInit == Init => TypeOK /\ Sense
<1> SUFFICES ASSUME Init PROVE TypeOK /\ Sense
  OBVIOUS
<1>1. StoreTypeOK
  BY DEF Init, StoreInit, StoreTypeOK, Absent, Directory
<1>2. Sense
  BY DEF Init, StoreInit, Sense, Runnable, Sensible, Absent, Idle
<1> QED BY <1>1, <1>2 DEF Init, TypeOK

(* Files, operations and workers are of their types. *)
THEOREM Types == Spec => []TypeOK
<1>1. TypeOK /\ Sense /\ [Next]_vars => (TypeOK /\ Sense)'
  BY TypeStep
<1> QED BY <1>1, TypeInit, PTL DEF Spec

-----------------------------------------------------------------------------
(* Registry.  Without the composer, whose second file comes after the       *)
(* dossier, what gates see of a run is settled when they can read it, so    *)
(* that all who judge it agree.                                            *)

Readable(r) == {"dossier_manifest", "config_snapshot", "metrics"} \subseteq dossier[r].files
Verdict(r) == IF Whole(r) /\ merit[r] = "pass" THEN "pass" ELSE "fail"
Judged == \A r \in Runs : results[r] # "none" => Readable(r) /\ results[r] = Verdict(r)
Logged == \A r \in Runs : \A i \in DOMAIN trials[r] : trials[r][i] = results[r]
Carded ==
  \A r \in Runs :
    /\ card[r] # "none" => results[r] = "pass"
    /\ cardlog[r] # <<>> => card[r] = "json"

(* An operation goes by what it has read, and that is still so. *)
Sound(o) ==
  /\ o.at \in {"gtmp", "gpublish"} =>
       Readable(o.run) /\ (o.found = "pass" <=> Verdict(o.run) = "pass")
  /\ o.at = "append" => results[o.run] = o.found
  /\ o.at \in {"mkdir", "json", "created"} => results[o.run] = "pass"
  /\ o.at \in {"created", "promote"} => card[o.run] = "json"
Faith == Judged /\ Logged /\ Carded /\ \A a \in Actors : Sound(op[a])

(* Dossiers that can be read, results and cards stay. *)
Keeps ==
  /\ merit' = merit
  /\ \A r \in Runs : Readable(r) => dossier'[r] = dossier[r]
  /\ \A r \in Runs : results[r] # "none" => results'[r] = results[r]
  /\ \A r \in Runs : card[r] = "json" => card'[r] = "json"

(* Then a verdict stays, too. *)
LEMMA VerdictStays ==
  ASSUME Keeps, NEW r \in Runs, Readable(r)
  PROVE  Readable(r)' /\ Verdict(r)' = Verdict(r)
BY DEF Keeps, Readable, Verdict, Whole

(* Results that stay are still right. *)
LEMMA JudgedStays ==
  ASSUME Judged, Keeps, results' = results
  PROVE  Judged'
<1> SUFFICES ASSUME NEW r \in Runs, results'[r] # "none"
             PROVE  Readable(r)' /\ results'[r] = Verdict(r)'
  BY DEF Judged
<1>1. Readable(r) /\ results[r] = Verdict(r)
  BY DEF Judged
<1> QED BY <1>1, VerdictStays

(* What others know stays true. *)
LEMMA SoundStays ==
  ASSUME Keeps, StoreTypeOK, Sense, NEW b \in Actors, Sound(op[b]), op'[b] = op[b]
  PROVE  Sound(op[b])'
<1> DEFINE r == op[b].run
<1>1. CASE op[b].at = "idle"
  BY <1>1 DEF Sound
<1>2. CASE op[b].at # "idle"
  <2>1. r \in Runs /\ Sensible(op[b])
    BY <1>2, Operating DEF StoreTypeOK, OpSpace, Op, Sense
  <2>2. op'[b].at \in {"gtmp", "gpublish"} =>
          Readable(op[b].run)' /\ (op'[b].found = "pass" <=> Verdict(op[b].run)' = "pass")
    <3> SUFFICES ASSUME op[b].at \in {"gtmp", "gpublish"}
                 PROVE  Readable(op[b].run)' /\ (op[b].found = "pass" <=> Verdict(op[b].run)' = "pass")
      OBVIOUS
    <3>1. Readable(r) /\ (op[b].found = "pass" <=> Verdict(r) = "pass")
      BY DEF Sound
    <3>2. dossier'[r] = dossier[r] /\ merit' = merit
      BY <2>1, <3>1 DEF Keeps
    <3> QED BY <3>1, <3>2 DEF Readable, Verdict, Whole
  <2>3. op'[b].at = "append" => results'[op'[b].run] = op'[b].found
    BY <2>1 DEF Sound, Keeps, Sensible
  <2>4. op'[b].at \in {"mkdir", "json", "created"} => results'[op'[b].run] = "pass"
    BY <2>1 DEF Sound, Keeps
  <2>5. op'[b].at \in {"created", "promote"} => card'[op'[b].run] = "json"
    BY <2>1 DEF Sound, Keeps
  <2> QED BY <2>2, <2>3, <2>4, <2>5 DEF Sound
<1> QED BY <1>1, <1>2

(* An operation that keeps to what it has read leaves the registry faithful. *)
LEMMA FaithStep ==
  ASSUME Composed = {}, StoreTypeOK, Sense, Faith, NEW a \in Actors, Operation(a)
  PROVE  Faith' /\ Keeps
<1> USE DEF store
<1> DEFINE Goal == Faith' /\ Keeps
           o == op[a]
           r == op[a].run
<1>0. op \in OpSpace /\ Sensible(op[a]) /\ Sound(op[a]) /\ Judged /\ Logged /\ Carded
  BY DEF StoreTypeOK, OpSpace, Sense, Faith
<1>1. ASSUME Keeps, Others(a), Sound(op[a])', Judged', Logged', Carded' PROVE Goal
  <2>1. ASSUME NEW b \in Actors PROVE Sound(op[b])'
    BY <1>1, SoundStays DEF Others, Faith
  <2> QED BY <1>1, <2>1 DEF Faith
<1>2. ASSUME Keeps, trials' = trials, card' = card, cardlog' = cardlog PROVE Logged' /\ Carded'
  <2>1. Logged'
    <3> SUFFICES ASSUME NEW q \in Runs, NEW i \in DOMAIN trials[q]
                 PROVE  trials[q][i] = results'[q]
      BY <1>2 DEF Logged
    <3> DEFINE t == trials[q]
    <3>1. t \in Seq({"pass", "fail"}) /\ t[i] = results[q]
      BY <1>0 DEF Logged, StoreTypeOK
    <3> HIDE DEF t
    <3>2. i \in DOMAIN t
      BY DEF t
    <3>3. t[i] \in {"pass", "fail"}
      BY <3>1, <3>2
    <3>4. results[q] # "none"
      BY <3>1, <3>3
    <3> QED BY <1>2, <3>1, <3>4 DEF Keeps, t
  <2>2. Carded'
    BY <1>0, <1>2 DEF Carded, Keeps
  <2> QED BY <2>1, <2>2
<1>3. ASSUME UNCHANGED <<dossier, results, trials, card, cardlog, merit>>, Others(a), Sound(op[a])'
      PROVE  Goal
  <2>1. Keeps
    BY <1>3 DEF Keeps
  <2> QED BY <1>0, <1>1, <1>2, <1>3, <2>1, JudgedStays
<1>4. ASSUME op'[a].at \in {"exists", "open", "write", "publish", "components", "judge", "look",
                            "trial", "status", "reply"}
      PROVE  Sound(op[a])'
  BY <1>4 DEF Sound
<1> HIDE DEF Goal
<1> SUFFICES Goal
  BY DEF Goal
<1>5. CASE JustReturns(a)
  BY <1>3, <1>4, <1>5, ReturnStep DEF Back
<1>6. CASE FindDossier(a) \/ OpenTmp(a)
  <2>1. PICK place \in {"components", "open", "write"} : Goto(a, place)
    BY <1>6 DEF FindDossier, OpenTmp
  <2>2. On(a, place)
    BY <1>0, <1>6, <2>1, GoesOn DEF FindDossier, OpenTmp, At, Where
  <2> QED BY <1>3, <1>4, <1>6, <2>2 DEF FindDossier, OpenTmp, On
<1>7. CASE WriteFile(a)
  <2> DEFINE place == IF o.next = Len(Files) THEN "publish" ELSE "write"
             x == [o EXCEPT !.at = place, !.next = IF o.next = Len(Files) THEN 1 ELSE o.next + 1]
  <2>1. place \in {"publish", "write"}
    OBVIOUS
  <2>2. o \in Op /\ op' = [op EXCEPT ![a] = x]
    BY <1>0, <1>7, Operating DEF WriteFile, At
  <2> HIDE DEF place
  <2>3. x.at = place
    BY <2>2 DEF Op
  <2> HIDE DEF x
  <2>4. op'[a] = x /\ Others(a)
    BY <1>0, <2>2 DEF OpSpace, Others
  <2> QED BY <1>3, <1>4, <1>7, <2>1, <2>3, <2>4 DEF WriteFile
<1>8. CASE Publish(a)
  <2>1. On(a, "components")
    BY <1>0, <1>8, GoesOn DEF Publish, At, Where
  <2>2. Keeps
    BY <1>8 DEF Publish, Keeps, Readable, StoreTypeOK
  <2>3. Judged'
    BY <1>0, <1>8, <2>2, JudgedStays DEF Publish
  <2> QED BY <1>1, <1>2, <1>4, <1>8, <2>1, <2>2, <2>3 DEF Publish, On
<1>9. CASE PublishFails(a)
  BY <1>0, <1>3, <1>4, <1>9, Returns DEF PublishFails, At, Reply, Back
<1>10. CASE AddComponents(a)
  <2>1. \E v \in Reply : Return(a, v)
    BY <1>10 DEF AddComponents, Reply
  <2>2. \E v \in Reply : Back(a, v)
    BY <1>0, <1>10, <2>1, Returns DEF AddComponents, At
  <2>3. dossier' = dossier
    BY <1>0, <1>10 DEF AddComponents
  <2> QED BY <1>3, <1>4, <1>10, <2>2, <2>3 DEF AddComponents, Back
<1>11. CASE RunGates(a)
  <2>1. o \in Op /\ r \in Runs
    BY <1>0, <1>11, Operating DEF RunGates, At, Op
  <2>2. PICK v \in IF Whole(r) THEN {merit[r]} ELSE {"fail", "invalid"} :
          Learn(a, "gtmp", v)
    BY <1>11 DEF RunGates, Learn
  <2>3. v = "pass" <=> Verdict(r) = "pass"
    BY <2>2 DEF Verdict
  <2>4. v \in Merit
    BY <2>1, <2>2 DEF StoreTypeOK, Merit, NotRun
  <2>8. op[a].at # "idle" /\ "gtmp" \in Where /\ v \in Merit \cup ALLOWED_STATUSES \cup {"none"}
    BY <1>11, <2>4 DEF RunGates, At, Where
  <2>5. Others(a) /\ op'[a].at = "gtmp" /\ op'[a].found = v /\ op'[a].run = r
    BY <1>0, <2>2, <2>8, Learns
  <2>6. Readable(r) /\ dossier' = dossier /\ merit' = merit
    BY <1>11 DEF RunGates, Readable
  <2>7. Sound(op[a])'
    BY <2>3, <2>5, <2>6 DEF Sound, Readable, Verdict, Whole
  <2> QED BY <1>3, <1>11, <2>5, <2>7 DEF RunGates
<1>12. CASE WriteResults(a)
  <2>1. On(a, "gpublish")
    BY <1>0, <1>12, GoesOn DEF WriteResults, At, Where
  <2>2. Sound(op[a])'
    BY <1>0, <1>12, <2>1 DEF On, Sound, WriteResults, At, Readable, Verdict, Whole
  <2> QED BY <1>3, <1>12, <2>1, <2>2 DEF WriteResults, On
<1>13. CASE PublishResults(a)
  <2>1. o.found \in {"pass", "fail", "invalid"} /\ Readable(r)
        /\ (o.found = "pass" <=> Verdict(r) = "pass")
    BY <1>0, <1>13 DEF PublishResults, At, Sensible, Sound
  <2>2. Back(a, o.found) /\ r \in Runs
    BY <1>0, <1>13, <2>1, Returns DEF PublishResults, At, Reply, Back, Op
  <2>3. results' = [results EXCEPT ![r] = Verdict(r)]
    BY <1>13, <2>1 DEF PublishResults, Verdict
  <2>4. Keeps
    BY <1>0, <1>13, <2>2, <2>3 DEF PublishResults, Keeps, Judged, StoreTypeOK
  <2>5. Judged'
    <3> SUFFICES ASSUME NEW q \in Runs, results'[q] # "none"
                 PROVE  Readable(q)' /\ results'[q] = Verdict(q)'
      BY DEF Judged
    <3>1. Readable(q) /\ results'[q] = Verdict(q)
      BY <1>0, <2>1, <2>2, <2>3 DEF Judged, StoreTypeOK
    <3> QED BY <2>4, <3>1, VerdictStays
  <2> QED BY <1>1, <1>2, <1>4, <1>13, <2>2, <2>4, <2>5 DEF PublishResults, Back
<1>14. CASE FindTrial(a)
  <2>1. o \in Op /\ r \in Runs /\ o.at = "look"
    BY <1>0, <1>14, Operating DEF FindTrial, At, Op
  <2>2. CASE trials[r] # <<>>
    <3>1. Head(trials[r]) \in Reply
      BY <2>1, <2>2 DEF StoreTypeOK, Reply
    <3>2. Back(a, Head(trials[r]))
      BY <1>0, <1>14, <2>1, <2>2, <3>1, Returns DEF FindTrial
    <3> QED BY <1>3, <1>4, <1>14, <3>2 DEF FindTrial, Back
  <2>3. CASE trials[r] = <<>>
    <3>1. results[r] \in {"pass", "fail"}
      BY <1>14, <2>1 DEF FindTrial, StoreTypeOK
    <3> DEFINE v == results[r]
    <3>2. Learn(a, "append", v) /\ results' = results
      BY <1>14, <2>3 DEF FindTrial, Learn
    <3>5. op[a].at # "idle" /\ v \in Merit \cup ALLOWED_STATUSES \cup {"none"} /\ "append" \in Where
      BY <2>1, <3>1 DEF Where, Merit, NotRun
    <3> HIDE DEF v
    <3>3. Others(a) /\ op'[a].at = "append" /\ op'[a].found = v /\ op'[a].run = r
      BY <1>0, <3>2, <3>5, Learns
    <3>4. Sound(op[a])'
      BY <3>2, <3>3 DEF Sound, v
    <3> QED BY <1>3, <1>14, <3>3, <3>4 DEF FindTrial
  <2> QED BY <2>2, <2>3
<1>15. CASE AppendTrial(a)
  <2>1. o \in Op /\ r \in Runs /\ o.found \in {"pass", "fail"} /\ results[r] = o.found
    BY <1>0, <1>15, Operating DEF AppendTrial, At, Op, Sensible, Sound
  <2>2. Back(a, o.found)
    BY <1>0, <1>15, <2>1, Returns DEF AppendTrial, At, Reply
  <2>3. Keeps
    BY <1>15 DEF AppendTrial, Keeps
  <2>4. Judged' /\ Carded'
    BY <1>0, <1>15, <2>3, JudgedStays DEF AppendTrial, Carded
  <2>5. Logged'
    <3> SUFFICES ASSUME NEW q \in Runs, NEW i \in DOMAIN trials'[q]
                 PROVE  trials'[q][i] = results[q]
      BY <1>15 DEF Logged, AppendTrial
    <3>1. CASE q # r
      BY <1>0, <1>15, <3>1 DEF Logged, AppendTrial, StoreTypeOK
    <3>2. CASE q = r
      <4> DEFINE t == trials[r]
      <4>1. t \in Seq({"pass", "fail"}) /\ \A k \in DOMAIN t : t[k] = results[r]
        BY <1>0, <2>1 DEF Logged, StoreTypeOK
      <4>2. trials'[q] = Append(t, o.found)
        BY <1>15, <2>1, <3>2 DEF AppendTrial, StoreTypeOK
      <4> HIDE DEF t
      <4> QED BY <2>1, <3>2, <4>1, <4>2
    <3> QED BY <3>1, <3>2
  <2> QED BY <1>1, <1>4, <1>15, <2>2, <2>3, <2>4, <2>5 DEF AppendTrial, Back
<1>16. CASE FindCard(a)
  <2>1. CASE card[r] = "json"
    <3>1. Back(a, "ok")
      BY <1>0, <1>16, <2>1, Returns DEF FindCard, At, Reply
    <3> QED BY <1>3, <1>4, <1>16, <3>1 DEF FindCard, Back
  <2>2. CASE card[r] # "json"
    <3>1. On(a, "mkdir") /\ r \in Runs
      BY <1>0, <1>16, <2>2, GoesOn DEF FindCard, At, Where, On, Op
    <3>2. results[r] = "pass"
      <4> DEFINE t == trials[r]
      <4>1. t \in Seq({"pass", "fail"}) /\ \A k \in DOMAIN t : t[k] = results[r]
        BY <1>0, <3>1 DEF Logged, StoreTypeOK
      <4>2. t # <<>> /\ Head(t) = "pass"
        BY <1>16 DEF FindCard, PassedTrial
      <4> HIDE DEF t
      <4> QED BY <4>1, <4>2
    <3>3. Sound(op[a])'
      BY <1>16, <3>1, <3>2 DEF Sound, On, FindCard
    <3> QED BY <1>3, <1>16, <3>1, <3>3 DEF FindCard, On
  <2> QED BY <2>1, <2>2
<1>17. CASE MakeCardDir(a)
  <2>1. On(a, "json") /\ r \in Runs
    BY <1>0, <1>17, GoesOn DEF MakeCardDir, At, Where, On, Op
  <2>2. results[r] = "pass" /\ results' = results /\ card[r] = "none"
    BY <1>0, <1>17 DEF MakeCardDir, At, Sound
  <2>3. Sound(op[a])'
    BY <2>1, <2>2 DEF On, Sound
  <2>4. Keeps
    BY <1>17 DEF MakeCardDir, Keeps, StoreTypeOK
  <2>5. Judged' /\ Logged'
    BY <1>0, <1>17, <2>4, JudgedStays DEF MakeCardDir, Logged
  <2>6. Carded'
    BY <1>0, <1>17, <2>1, <2>2 DEF MakeCardDir, Carded, StoreTypeOK
  <2> QED BY <1>1, <2>1, <2>3, <2>4, <2>5, <2>6 DEF On
<1>18. CASE WriteCard(a)
  <2>1. On(a, "created") /\ r \in Runs
    BY <1>0, <1>18, GoesOn DEF WriteCard, At, Where, On, Op
  <2>2. results[r] = "pass" /\ results' = results
    BY <1>0, <1>18 DEF WriteCard, At, Sound
  <2>3. card'[r] = "json"
    BY <1>18, <2>1 DEF WriteCard, StoreTypeOK
  <2>4. Sound(op[a])'
    BY <2>1, <2>2, <2>3 DEF On, Sound
  <2>5. Keeps
    BY <1>18 DEF WriteCard, Keeps, StoreTypeOK
  <2>6. Judged' /\ Logged'
    BY <1>0, <1>18, <2>5, JudgedStays DEF WriteCard, Logged
  <2>7. Carded'
    BY <1>0, <1>18, <2>1, <2>2, <2>3 DEF WriteCard, Carded, StoreTypeOK
  <2> QED BY <1>1, <2>1, <2>4, <2>5, <2>6, <2>7 DEF On
<1>19. CASE AppendCreated(a) \/ AppendPromoted(a)
  <2>1. Back(a, "ok") /\ r \in Runs
    BY <1>0, <1>19, Returns DEF AppendCreated, AppendPromoted, At, Reply, Back, Op
  <2>2. card[r] = "json"
    BY <1>0, <1>19 DEF AppendCreated, AppendPromoted, At, Sound
  <2>3. Keeps
    BY <1>19 DEF AppendCreated, AppendPromoted, Keeps
  <2>4. Judged' /\ Logged'
    BY <1>0, <1>19, <2>3, JudgedStays DEF AppendCreated, AppendPromoted, Logged
  <2>5. \A q \in Runs : q # r => cardlog'[q] = cardlog[q]
    BY <1>19 DEF AppendCreated, AppendPromoted, StoreTypeOK
  <2>6. Carded'
    BY <1>0, <1>19, <2>2, <2>5 DEF AppendCreated, AppendPromoted, Carded
  <2> QED BY <1>1, <1>4, <2>1, <2>3, <2>4, <2>6 DEF Back
<1>20. CASE ReadStatus(a)
  <2>1. CASE card[r] = "json" /\ MayPromote(r, o.found)
    <3>1. On(a, "promote")
      BY <1>0, <1>20, <2>1, GoesOn DEF ReadStatus, At, Where
    <3>2. Sound(op[a])'
      BY <1>20, <2>1, <3>1 DEF On, Sound, ReadStatus
    <3> QED BY <1>3, <1>20, <3>1, <3>2 DEF ReadStatus, On
  <2>2. CASE ~(card[r] = "json" /\ MayPromote(r, o.found))
    <3>1. Back(a, "refused")
      BY <1>0, <1>20, <2>2, Returns DEF ReadStatus, At, Reply
    <3> QED BY <1>3, <1>4, <1>20, <3>1 DEF ReadStatus, Back
  <2> QED BY <2>1, <2>2
<1> QED
  BY <1>5, <1>6, <1>7, <1>8, <1>9, <1>10, <1>11, <1>12, <1>13, <1>14, <1>15, <1>16, <1>17,
     <1>18, <1>19, <1>20
  DEF Operation, runner, gaterunner, record_trial, create_card_from_run, promote_card, JustReturns

(* Calls that begin and end know nothing that could be wrong. *)
LEMMA FaithCalls ==
  ASSUME TypeOK, Sense, Faith, Calls
  PROVE  Faith'
<1>1. Keeps
  BY DEF Calls, Keeps, store
<1>2. StoreTypeOK
  BY DEF TypeOK
<1>3. Judged' /\ Logged' /\ Carded'
  BY <1>1, JudgedStays DEF Faith, Calls, store, Logged, Carded
<1>4. ASSUME NEW b \in Actors PROVE Sound(op[b])'
  <2>1. CASE op'[b] = op[b]
    BY <1>1, <1>2, <2>1, SoundStays DEF Faith
  <2>2. CASE op'[b] = Idle
    BY <2>2 DEF Sound, Idle
  <2>3. CASE Fresh(op'[b])
    <3>1. op'[b].at \in {"exists", "judge", "look", "trial", "status"}
      BY <2>3 DEF Fresh, Call
    <3> QED BY <3>1 DEF Sound
  <2> QED BY <2>1, <2>2, <2>3 DEF Calls
<1> QED BY <1>3, <1>4 DEF Faith

(* However many workers and command lines judge, record and create cards at *)
(* once, and whoever is killed: entries of the trial log agree with         *)
(* gate_results.json, and only a run that passed has a card.                *)
THEOREM RegistryIsFaithful ==
  ASSUME Composed = {}
  PROVE  Spec => []RegistryFaithful
<1> DEFINE Inv == TypeOK /\ Sense /\ Faith
<1>1. Init => Inv
  <2> SUFFICES ASSUME Init PROVE Faith
    BY TypeInit
  <2>1. \A r \in Runs : /\ results[r] = "none" /\ trials[r] = <<>>
                        /\ card[r] = "none" /\ cardlog[r] = <<>>
    BY DEF Init, StoreInit
  <2>2. \A a \in Actors : Sound(op[a])
    BY DEF Init, StoreInit, Sound, Idle
  <2> QED BY <2>1, <2>2 DEF Faith, Judged, Logged, Carded
<1>2. Inv /\ [Next]_vars => Inv'
  <2> SUFFICES ASSUME Inv, [Next]_vars PROVE Inv'
    OBVIOUS
  <2>1. TypeOK' /\ Sense' /\ (Calls \/ \E a \in Actors : Operate(a))
    BY TypeStep
  <2>2. ASSUME NEW a \in Actors, Operate(a) PROVE Faith'
    BY <2>2, FaithStep DEF Operate, TypeOK
  <2> QED BY <2>1, <2>2, FaithCalls
<1>3. Inv => RegistryFaithful
  BY DEF Faith, Logged, Carded, RegistryFaithful
<1> HIDE DEF Inv
<1> QED BY <1>1, <1>2, <1>3, PTL DEF Spec

-----------------------------------------------------------------------------
(* Runs that are made: only the worker's jobs ask for them, unless someone  *)
(* types "run".                                                            *)

RunnerPlace == {"exists", "open", "write", "publish", "components"}
Approved(r) ==
  \E j \in Jobs : RunOf[j] = r /\ approved[j] # {} /\ "RUNSPEC_COMPILED" \in events[j]

(* Nothing is taken out of a log. *)
LEMMA LogsGrow ==
  ASSUME TypeOK, [Next]_vars
  PROVE  \A j \in Jobs : approved[j] \subseteq approved'[j] /\ events[j] \subseteq events'[j]
<1> SUFFICES ASSUME NEW j \in Jobs
             PROVE  approved[j] \subseteq approved'[j] /\ events[j] \subseteq events'[j]
  OBVIOUS
<1>0. LogTypeOK
  BY TypeParts
<1>1. CASE UNCHANGED vars
  BY <1>1 DEF vars, log
<1>2. ASSUME NEW w \in Workers, Continue(w)
      PROVE  approved[j] \subseteq approved'[j] /\ events[j] \subseteq events'[j]
  <2>1. approved' = approved
    BY <1>2 DEF Continue, Compile, CompileFails, Accept, CreateCard, Refuse, Raise, WriteIndex,
       AppendEvent, AskRunspec, Sweep, SweepRaises, log
  <2>2. events' = events \/ \E e : events' = [events EXCEPT ![worker[w].job] = @ \cup {e}]
    <3>1. CASE CompileFails(w) \/ Refuse(w) \/ AppendEvent(w) \/ Sweep(w)
      BY <3>1 DEF CompileFails, Refuse, AppendEvent, Sweep, Fail
    <3>2. CASE ~(CompileFails(w) \/ Refuse(w) \/ AppendEvent(w) \/ Sweep(w))
      BY <1>2, <3>2 DEF Continue, Compile, Accept, CreateCard, Raise, WriteIndex, AskRunspec,
         SweepRaises, log
    <3> QED BY <3>1, <3>2
  <2> QED BY <1>0, <2>1, <2>2 DEF LogTypeOK
<1>3. ASSUME NEW w \in Workers, NEW i \in Jobs, advance_job_once(w, i)
      PROVE  approved[j] \subseteq approved'[j] /\ events[j] \subseteq events'[j]
  BY <1>0, <1>3 DEF LogTypeOK, advance_job_once, AskBlueprint, Begin, AskSweep, BeginSweep,
     Finish, log
<1>4. ASSUME NEW a \in Actors, Operate(a) \/ Kill(a)
      PROVE  approved[j] \subseteq approved'[j] /\ events[j] \subseteq events'[j]
  BY <1>4 DEF Operate, Kill, log
<1>5. ASSUME NEW i \in Jobs, NEW step \in Approvals[i], approve(i, step)
      PROVE  approved[j] \subseteq approved'[j] /\ events[j] \subseteq events'[j]
  BY <1>0, <1>5 DEF LogTypeOK, approve
<1>6. ASSUME NEW s \in Shells, NEW cmd \in Commands, NEW r \in Runs, Type(s, cmd, r)
      PROVE  approved[j] \subseteq approved'[j] /\ events[j] \subseteq events'[j]
  BY <1>6 DEF Type, log
<1> QED BY <1>1, <1>2, <1>3, <1>4, <1>5, <1>6 DEF Next

(* So an approved run stays approved. *)
LEMMA ApprovedStays ==
  ASSUME TypeOK, [Next]_vars, NEW r, Approved(r)
  PROVE  Approved(r)'
<1>1. PICK j \in Jobs : RunOf[j] = r /\ approved[j] # {} /\ "RUNSPEC_COMPILED" \in events[j]
  BY DEF Approved
<1>2. approved[j] \subseteq approved'[j] /\ events[j] \subseteq events'[j]
  BY LogsGrow
<1> QED BY <1>1, <1>2 DEF Approved

(* A job calls the runner for its own run, when it has been approved. *)
CalledByJob(b) == b \in Workers /\ Approved(op'[b].run)

(* Whoever enters the runner is a worker that calls it for an approved job. *)
LEMMA RunnerCalled ==
  ASSUME "run" \notin Commands, TypeOK, Next, ~ \E a \in Actors : Operate(a),
         NEW b \in Actors, op'[b] # op[b], op'[b].at \in RunnerPlace
  PROVE  CalledByJob(b)
<1>0. op \in OpSpace /\ Workers \subseteq Actors /\ Shells \subseteq Actors
  BY ActorsAssumption DEF TypeOK, StoreTypeOK, OpSpace
<1>1. op'[b] # Idle
  BY DEF Idle, RunnerPlace
<1>2. ASSUME NEW a \in Actors, NEW o, op' = [op EXCEPT ![a] = o] PROVE b = a /\ op'[b] = o
  BY <1>0, <1>2 DEF OpSpace
<1>3. ASSUME NEW w \in Workers, NEW j \in Jobs, NEW s \in Stage, Begin(w, j, s)
      PROVE  CalledByJob(b)
  <2>1. s # "RUNSPEC_COMPILED" /\ op' = [op EXCEPT ![w] = CallOf(s, j)]
    BY <1>3 DEF Begin
  <2>2. b = w /\ op'[b] = CallOf(s, j)
    BY <1>0, <1>2, <2>1
  <2>3. s = "RUN_COMPLETED"
    BY <2>1, <2>2, StageSet DEF CallOf, Call, RunnerPlace
  <2>4. "RUNSPEC_COMPILED" \in events[j]
    BY <1>3, <2>3, StageSet DEF Begin, Due
  <2>5. op'[b].run = RunOf[j]
    BY <2>2, <2>3 DEF CallOf, Call
  <2>6. approved[j] # {}
    BY <1>3 DEF Begin, IsApproved
  <2> QED BY <2>2, <2>4, <2>5, <2>6 DEF CalledByJob, Approved
<1>4. ASSUME NEW w \in Workers, CreateCard(w) PROVE FALSE
  <2>1. op'[b] = Call("trial", RunOf[worker[w].job], TRUE, "none")
    BY <1>0, <1>2, <1>4 DEF CreateCard
  <2> QED BY <2>1 DEF Call, RunnerPlace
<1>5. ASSUME NEW s \in Shells, NEW cmd \in Commands, NEW r \in Runs, Type(s, cmd, r) PROVE FALSE
  <2>1. PICK c \in ShellCall(cmd, r) : op' = [op EXCEPT ![s] = c]
    BY <1>5 DEF Type
  <2>2. cmd \in {"gates", "record-trial", "create-card", "promote-card"}
    BY CommandsAssumption
  <2>3. c.at \notin RunnerPlace
    BY <2>1, <2>2 DEF ShellCall, Call, RunnerPlace
  <2> QED BY <1>0, <1>2, <2>1, <2>3
<1>6. ASSUME NEW a \in Actors, op' = [op EXCEPT ![a] = Idle] PROVE FALSE
  BY <1>1, <1>2, <1>6
<1>7. ASSUME NEW w \in Workers, Accept(w) \/ Refuse(w) \/ Raise(w) PROVE FALSE
  BY <1>0, <1>6, <1>7 DEF Accept, Refuse, Raise
<1>8. ASSUME NEW a \in Actors, Kill(a) PROVE FALSE
  BY <1>6, <1>8 DEF Kill
<1>9. ASSUME NEW w \in Workers, Sweep(w) \/ SweepRaises(w) PROVE FALSE
  BY <1>9 DEF Sweep, SweepRaises
<1>10. ASSUME NEW w \in Workers,
              \/ Compile(w) \/ CompileFails(w) \/ WriteIndex(w) \/ AppendEvent(w) \/ AskRunspec(w)
              \/ \E j \in Jobs : AskBlueprint(w, j) \/ AskSweep(w, j) \/ BeginSweep(w, j) \/ Finish(w, j)
       PROVE  FALSE
  BY <1>10 DEF Compile, CompileFails, WriteIndex, AppendEvent, AskRunspec, AskBlueprint, AskSweep,
     BeginSweep, Finish
<1>11. ASSUME NEW j \in Jobs, NEW step \in Approvals[j], approve(j, step) PROVE FALSE
  BY <1>11 DEF approve
<1> QED BY <1>3, <1>4, <1>5, <1>7, <1>8, <1>9, <1>10, <1>11 DEF Next, Continue, advance_job_once

(* The way through the runner: who is in it was in it, with the same run,   *)
(* and directories appear and change only under it.                        *)
Runner(a) ==
  /\ op'[a].at \in RunnerPlace => op[a].at \in RunnerPlace /\ op'[a].run = op[a].run
  /\ op[a].at \notin RunnerPlace => UNCHANGED <<tmp, dossier>>
  /\ \A r \in Runs : r # op[a].run => tmp'[r] = tmp[r] /\ dossier'[r] = dossier[r]

(* Every operation keeps to this way. *)
LEMMA RunnerStep ==
  ASSUME StoreTypeOK, Sense, NEW a \in Actors, Operation(a)
  PROVE  Runner(a) /\ Others(a) /\ op' \in OpSpace /\ op[a] \in Op
<1> USE DEF store
<1> DEFINE Goal == Runner(a) /\ Others(a) /\ op' \in OpSpace /\ op[a] \in Op
<1>0. op \in OpSpace /\ op[a].at # "idle"
  BY Places DEF StoreTypeOK, OpSpace, Where
<1>00. op[a] \in Op
  BY <1>0, Operating
<1>1. ASSUME Others(a), op' \in OpSpace, op'[a].at \notin RunnerPlace, UNCHANGED <<tmp, dossier>>
      PROVE  Goal
  BY <1>00, <1>1 DEF Runner
<1>2. ASSUME NEW v \in Reply, Return(a, v) PROVE Others(a) /\ op' \in OpSpace /\ op'[a].at \notin RunnerPlace
  BY <1>0, <1>2, Returns DEF Back, RunnerPlace
<1>3. ASSUME NEW place \in Where \ RunnerPlace, Goto(a, place)
      PROVE  Others(a) /\ op' \in OpSpace /\ op'[a].at \notin RunnerPlace
  BY <1>0, <1>3, GoesOn DEF On
<1>4. ASSUME NEW place \in Where \ RunnerPlace, NEW v \in Merit \cup ALLOWED_STATUSES \cup {"none"},
             Learn(a, place, v)
      PROVE  Others(a) /\ op' \in OpSpace /\ op'[a].at \notin RunnerPlace
  BY <1>0, <1>4, Learns
<1>5. op[a].run \in Runs /\ op[a].found \in Merit \cup ALLOWED_STATUSES \cup {"none"}
  BY <1>00 DEF Op
<1> HIDE DEF Goal
<1> SUFFICES Goal
  BY DEF Goal
<1>6. CASE JustReturns(a)
  BY <1>1, <1>6, ReturnStep DEF Back, RunnerPlace
<1>7. ASSUME NEW place \in RunnerPlace, On(a, place), op[a].at \in RunnerPlace,
             \A r \in Runs : r # op[a].run => tmp'[r] = tmp[r] /\ dossier'[r] = dossier[r]
      PROVE  Goal
  BY <1>7 DEF On, Runner, Goal
<1>8. CASE FindDossier(a)
  <2>1. PICK place \in {"components", "open"} : Goto(a, place)
    BY <1>8 DEF FindDossier
  <2>2. On(a, place)
    BY <1>0, <2>1, GoesOn DEF Where
  <2> QED BY <1>7, <1>8, <2>2 DEF FindDossier, At, RunnerPlace
<1>9. CASE OpenTmp(a)
  <2>1. On(a, "write")
    BY <1>0, <1>9, GoesOn DEF OpenTmp, Where
  <2>2. \A r \in Runs : r # op[a].run => tmp'[r] = tmp[r] /\ dossier'[r] = dossier[r]
    BY <1>9 DEF OpenTmp, StoreTypeOK
  <2> QED BY <1>7, <1>9, <2>1, <2>2 DEF OpenTmp, At, RunnerPlace
<1>10. CASE WriteFile(a)
  <2> DEFINE place == IF op[a].next = Len(Files) THEN "publish" ELSE "write"
             k == IF op[a].next = Len(Files) THEN 1 ELSE op[a].next + 1
             x == [op[a] EXCEPT !.at = place, !.next = k]
  <2>1. place \in {"publish", "write"} /\ k \in Nat
    BY <1>00 DEF Op
  <2>2. op' = [op EXCEPT ![a] = x]
    BY <1>10 DEF WriteFile
  <2> HIDE DEF place, k
  <2>3. x \in Op
    BY <1>00, <2>1 DEF Op
  <2>4. x.at = place /\ x.run = op[a].run
    BY <1>00 DEF Op
  <2> HIDE DEF x
  <2>5. op' \in OpSpace /\ op'[a] = x /\ Others(a)
    BY <1>0, <2>2, <2>3, OpStep
  <2>6. \A r \in Runs : r # op[a].run => tmp'[r] = tmp[r] /\ dossier'[r] = dossier[r]
    BY <1>10 DEF WriteFile, StoreTypeOK
  <2> QED BY <1>00, <1>10, <2>4, <2>5, <2>6 DEF WriteFile, At, RunnerPlace, Runner, Goal
<1>11. CASE Publish(a)
  <2>1. On(a, "components")
    BY <1>0, <1>11, GoesOn DEF Publish, Where
  <2>2. \A r \in Runs : r # op[a].run => tmp'[r] = tmp[r] /\ dossier'[r] = dossier[r]
    BY <1>11 DEF Publish, StoreTypeOK
  <2> QED BY <1>7, <1>11, <2>1, <2>2 DEF Publish, At, RunnerPlace
<1>12. CASE PublishFails(a) \/ AddComponents(a)
  <2>1. \E v \in Reply : Return(a, v)
    BY <1>12 DEF PublishFails, AddComponents, Reply
  <2>2. Others(a) /\ op' \in OpSpace /\ op'[a].at \notin RunnerPlace
    BY <1>2, <2>1
  <2>3. \A r \in Runs : r # op[a].run => tmp'[r] = tmp[r] /\ dossier'[r] = dossier[r]
    BY <1>12 DEF PublishFails, AddComponents, StoreTypeOK
  <2> QED BY <1>00, <1>12, <2>2, <2>3 DEF PublishFails, AddComponents, At, RunnerPlace, Runner, Goal
<1>13. CASE RunGates(a)
  <2>1. PICK v \in IF Whole(op[a].run) THEN {merit[op[a].run]} ELSE {"fail", "invalid"} :
          Learn(a, "gtmp", v)
    BY <1>13 DEF RunGates, Learn
  <2>2. v \in Merit
    BY <1>5, <2>1 DEF StoreTypeOK, Merit, NotRun
  <2> QED BY <1>1, <1>4, <1>13, <2>1, <2>2 DEF RunGates, Where, RunnerPlace
<1>14. CASE FindTrial(a)
  <2>1. CASE trials[op[a].run] # <<>>
    <3>1. Head(trials[op[a].run]) \in Reply
      BY <1>5, <2>1 DEF StoreTypeOK, Reply
    <3> QED BY <1>1, <1>2, <1>14, <2>1, <3>1 DEF FindTrial
  <2>2. CASE trials[op[a].run] = <<>>
    <3>1. Learn(a, "append", results[op[a].run])
      BY <1>14, <2>2 DEF FindTrial, Learn
    <3>2. results[op[a].run] \in Merit \cup ALLOWED_STATUSES \cup {"none"}
      BY <1>5 DEF StoreTypeOK, Merit, NotRun
    <3> QED BY <1>1, <1>4, <1>14, <3>1, <3>2 DEF FindTrial, Where, RunnerPlace
  <2> QED BY <2>1, <2>2
<1>15. CASE PublishResults(a) \/ AppendTrial(a)
  <2>1. op[a].found \in Reply
    BY <1>15 DEF PublishResults, AppendTrial, At, Sense, Sensible, Reply
  <2> QED BY <1>1, <1>2, <1>15, <2>1 DEF PublishResults, AppendTrial
<1>16. CASE WriteResults(a)
  BY <1>1, <1>3, <1>16 DEF WriteResults, Where, RunnerPlace
<1>17. CASE FindCard(a)
  <2>1. Return(a, "ok") \/ Goto(a, "mkdir")
    BY <1>17 DEF FindCard
  <2> QED BY <1>1, <1>2, <1>3, <1>17, <2>1 DEF FindCard, Where, RunnerPlace, Reply
<1>18. CASE ReadStatus(a)
  <2>1. Return(a, "refused") \/ Goto(a, "promote")
    BY <1>18 DEF ReadStatus
  <2> QED BY <1>1, <1>2, <1>3, <1>18, <2>1 DEF ReadStatus, Where, RunnerPlace, Reply
<1>19. CASE MakeCardDir(a)
  BY <1>1, <1>3, <1>19 DEF MakeCardDir, Where, RunnerPlace
<1>20. CASE WriteCard(a)
  BY <1>1, <1>3, <1>20 DEF WriteCard, Where, RunnerPlace
<1>21. CASE AppendCreated(a) \/ AppendPromoted(a)
  BY <1>1, <1>2, <1>21 DEF AppendCreated, AppendPromoted, Reply
<1> QED
  BY <1>6, <1>8, <1>9, <1>10, <1>11, <1>12, <1>13, <1>14, <1>15, <1>16, <1>17, <1>18, <1>19, <1>20,
     <1>21
  DEF Operation, runner, gaterunner, record_trial, create_card_from_run, promote_card, JustReturns

(* Everyone in the runner works for a job that was approved. *)
Asked == \A a \in Actors : op[a].at \in RunnerPlace => a \in Workers /\ Approved(op[a].run)

(* It stays so. *)
LEMMA AskedStep ==
  ASSUME "run" \notin Commands, TypeOK, Sense, Asked, [Next]_vars
  PROVE  Asked'
<1> SUFFICES ASSUME NEW b \in Actors, op'[b].at \in RunnerPlace
             PROVE  b \in Workers /\ Approved(op[b].run)'
  BY DEF Asked
<1>1. CASE op'[b] = op[b]
  BY <1>1, ApprovedStays DEF Asked, Approved
<1>2. CASE Next /\ op'[b] # op[b] /\ ~ \E a \in Actors : Operate(a)
  <2>1. b \in Workers /\ Approved(op'[b].run)
    BY <1>2, RunnerCalled DEF CalledByJob
  <2>2. \A j \in Jobs : approved[j] \subseteq approved'[j] /\ events[j] \subseteq events'[j]
    BY LogsGrow
  <2> QED BY <2>1, <2>2 DEF Approved
<1>3. ASSUME NEW a \in Actors, Operate(a), op'[b] # op[b]
      PROVE  b \in Workers /\ Approved(op[b].run)'
  <2>1. Runner(a) /\ Others(a)
    BY <1>3, RunnerStep DEF Operate, TypeOK
  <2>2. b = a
    BY <1>3, <2>1 DEF Others
  <2>3. op[b].at \in RunnerPlace /\ op'[b].run = op[b].run
    BY <2>1, <2>2 DEF Runner
  <2>4. b \in Workers /\ Approved(op[b].run)
    BY <2>3 DEF Asked
  <2>5. \A j \in Jobs : approved[j] \subseteq approved'[j] /\ events[j] \subseteq events'[j]
    BY LogsGrow
  <2> QED BY <2>3, <2>4, <2>5 DEF Approved
<1> QED BY <1>1, <1>2, <1>3 DEF vars

(* As long as nobody types "run", nothing is made of a run before a job     *)
(* that compiles to it has been approved and compiled.                      *)
THEOREM UnapprovedRunsNothing ==
  ASSUME "run" \notin Commands
  PROVE  Spec => []NothingUnapproved
<1> DEFINE Inv == TypeOK /\ Sense /\ Asked /\ NothingUnapproved
<1>1. Init => Inv
  <2> SUFFICES ASSUME Init PROVE Asked /\ NothingUnapproved
    BY TypeInit
  <2>1. Asked
    BY DEF Init, StoreInit, Asked, RunnerPlace, Idle
  <2>2. NothingUnapproved
    BY DEF Init, StoreInit, NothingUnapproved, Absent
  <2> QED BY <2>1, <2>2
<1>2. Inv /\ [Next]_vars => Inv'
  <2> SUFFICES ASSUME Inv, [Next]_vars PROVE Inv'
    OBVIOUS
  <2>1. TypeOK' /\ Sense' /\ (Calls \/ \E a \in Actors : Operate(a)) /\ Asked'
    BY TypeStep, AskedStep
  <2>2. NothingUnapproved'
    <3> SUFFICES ASSUME NEW r \in Runs, tmp'[r].there \/ dossier'[r].there
                 PROVE  Approved(r)'
      BY DEF NothingUnapproved, Approved
    <3>1. CASE tmp[r].there \/ dossier[r].there
      <4>1. Approved(r)
        BY <3>1 DEF NothingUnapproved, Approved
      <4> QED BY <4>1, ApprovedStays
    <3>2. CASE ~tmp[r].there /\ ~dossier[r].there
      <4>1. PICK a \in Actors : Operate(a)
        BY <2>1, <3>2 DEF Calls, store
      <4>2. Runner(a)
        BY <4>1, RunnerStep DEF Operate, TypeOK
      <4>3. op[a].at \in RunnerPlace /\ op[a].run = r
        BY <3>2, <4>2 DEF Runner
      <4>4. Approved(r)
        BY <4>3 DEF Asked
      <4> QED BY <4>4, ApprovedStays
    <3> QED BY <3>1, <3>2
  <2> QED BY <2>1, <2>2
<1>3. Inv => NothingUnapproved
  BY Zenon
<1> HIDE DEF Inv
<1> QED BY <1>1, <1>2, <1>3, PTL DEF Spec

-----------------------------------------------------------------------------
(* Dossiers.  The files of a writer in the order it writes them. *)

Written(o, d) ==
  /\ o.at = "write" =>
       /\ o.next = 1 => d.files = {}
       /\ o.next = 2 => d.files = {"config_snapshot"}
       /\ o.next = 3 => d.files = {"config_snapshot", "metrics"}
       /\ o.next = 4 => d.files = Hashed
  /\ o.at = "publish" => d.files = FileName /\ d.hashed = Hashed
WrittenSoFar == \A a \in Actors : op[a].at \in {"write", "publish"} => Written(op[a], tmp[op[a].run])

(* The writer itself. *)
LEMMA WriterStep ==
  ASSUME StoreTypeOK, Sense, WrittenSoFar, NEW a \in Actors, Operation(a),
         op'[a].at \in {"write", "publish"}
  PROVE  Written(op'[a], tmp'[op'[a].run])
<1> DEFINE r == op[a].run
<1>0. op \in OpSpace /\ op[a] \in Op /\ Runner(a)
  BY RunnerStep DEF StoreTypeOK, OpSpace
<1>1. r \in Runs /\ op'[a].run = r /\ op[a].at \in RunnerPlace
  BY <1>0 DEF Op, Runner, RunnerPlace
<1>2. CASE OpenTmp(a)
  <2>1. On(a, "write")
    BY <1>0, <1>1, <1>2, GoesOn DEF OpenTmp, Where, RunnerPlace
  <2>2. op'[a].next = 1
    BY <1>2, <2>1 DEF OpenTmp, At, On, Sense, Sensible
  <2>3. tmp'[r].files = {}
    BY <1>1, <1>2 DEF OpenTmp, StoreTypeOK, Empty
  <2> QED BY <1>1, <2>1, <2>2, <2>3 DEF On, Written
<1>3. CASE WriteFile(a)
  <2> DEFINE k == op[a].next
             t == tmp[r]
             x == [op[a] EXCEPT !.at = IF k = Len(Files) THEN "publish" ELSE "write",
                                !.next = IF k = Len(Files) THEN 1 ELSE k + 1]
  <2>1. /\ k \in 1..4
        /\ k = 1 => t.files = {}
        /\ k = 2 => t.files = {"config_snapshot"}
        /\ k = 3 => t.files = {"config_snapshot", "metrics"}
        /\ k = 4 => t.files = Hashed
    BY <1>3 DEF WriteFile, At, Sense, Sensible, WrittenSoFar, Written
  <2>2. op'[a] = x
    BY <1>0, <1>3 DEF WriteFile, OpSpace
  <2>3. /\ x.at = IF k = 4 THEN "publish" ELSE "write"
        /\ x.next = IF k = 4 THEN 1 ELSE k + 1
    BY <1>0, FileNames DEF Op
  <2> HIDE DEF x
  <2>4. /\ tmp'[r].files = t.files \cup {Files[k]}
        /\ tmp'[r].hashed = IF Files[k] = "dossier_manifest" THEN t.files \cap Hashed ELSE t.hashed
    BY <1>1, <1>3 DEF WriteFile, StoreTypeOK
  <2> HIDE DEF k, t
  <2>5. Written(x, tmp'[r])
    <3>1. CASE k = 1
      BY <2>1, <2>3, <2>4, <3>1, FileNames DEF Written
    <3>2. CASE k = 2
      BY <2>1, <2>3, <2>4, <3>2, FileNames DEF Written
    <3>3. CASE k = 3
      BY <2>1, <2>3, <2>4, <3>3, FileNames DEF Written
    <3>4. CASE k = 4
      BY <2>1, <2>3, <2>4, <3>4, FileNames DEF Written
    <3> QED BY <2>1, <3>1, <3>2, <3>3, <3>4
  <2> QED BY <1>1, <2>2, <2>5
<1>4. CASE RunInvalid(a) \/ RunRaises(a) \/ PublishFails(a) \/ AddComponents(a)
  <2>1. \E v \in Reply : Return(a, v)
    BY <1>4 DEF RunInvalid, RunRaises, PublishFails, AddComponents, Reply
  <2>2. \E v \in Reply : Back(a, v)
    BY <1>0, <1>1, <2>1, Returns DEF RunnerPlace
  <2> QED BY <2>2 DEF Back
<1>5. CASE FindDossier(a) \/ Publish(a)
  <2>1. PICK place \in {"components", "open"} : Goto(a, place)
    BY <1>5 DEF FindDossier, Publish
  <2>2. On(a, place)
    BY <1>0, <1>1, <2>1, GoesOn DEF Where, RunnerPlace
  <2> QED BY <2>2 DEF On
<1> QED
  BY <1>1, <1>2, <1>3, <1>4, <1>5, Places DEF RunnerPlace

(* With one worker nobody writes into the directory of another. *)
LEMMA OneWriter ==
  ASSUME \A v, w \in Workers : v = w, TypeOK, Sense, Asked, WrittenSoFar,
         NEW a \in Actors, Operation(a)
  PROVE  WrittenSoFar'
<1> SUFFICES ASSUME NEW b \in Actors, op'[b].at \in {"write", "publish"}
             PROVE  Written(op'[b], tmp'[op'[b].run])
  BY DEF WrittenSoFar, Written
<1>0. StoreTypeOK
  BY DEF TypeOK
<1>1. CASE b = a
  BY <1>0, <1>1, WriterStep
<1>2. CASE b # a
  <2>1. Runner(a) /\ Others(a)
    BY <1>0, RunnerStep
  <2>2. op'[b] = op[b]
    BY <1>2, <2>1 DEF Others
  <2>3. b \in Workers
    BY <2>2 DEF Asked, RunnerPlace
  <2>4. UNCHANGED <<tmp, dossier>>
    BY <1>2, <2>1, <2>3 DEF Asked, Runner
  <2> QED BY <2>2, <2>4 DEF WrittenSoFar
<1> QED BY <1>1, <1>2

(* What is published is what has been written. *)
LEMMA WholeStep ==
  ASSUME StoreTypeOK, WrittenSoFar, DossierWhole, NEW a \in Actors, Operation(a)
  PROVE  DossierWhole'
<1> USE DEF store
<1>1. CASE UNCHANGED dossier
  BY <1>1 DEF DossierWhole
<1>2. CASE Publish(a)
  <2>1. Written(op[a], tmp[op[a].run]) /\ op[a].at = "publish"
    BY <1>2 DEF Publish, At, WrittenSoFar
  <2>2. tmp[op[a].run].files = FileName /\ tmp[op[a].run].hashed = Hashed
    BY <2>1 DEF Written
  <2> QED BY <1>2, <2>2 DEF Publish, StoreTypeOK, DossierWhole
<1>3. CASE AddComponents(a)
  <2>1. ASSUME NEW r \in Runs
        PROVE  /\ dossier'[r].there = dossier[r].there
               /\ dossier[r].files \subseteq dossier'[r].files
               /\ dossier'[r].hashed = dossier[r].hashed
    <3> DEFINE d == dossier[op[a].run]
               e == [d EXCEPT !.files = d.files \cup {"components"}]
    <3>1. op[a].run \in Runs => d \in Directory
      BY DEF StoreTypeOK
    <3>2. d \in Directory => e.there = d.there /\ d.files \subseteq e.files /\ e.hashed = d.hashed
      BY DEF Directory
    <3>3. dossier' = dossier \/ dossier' = [dossier EXCEPT ![op[a].run] = e]
      BY <1>3 DEF AddComponents
    <3> HIDE DEF e
    <3> QED BY <2>1, <3>1, <3>2, <3>3 DEF StoreTypeOK
  <2> QED BY <2>1 DEF DossierWhole
<1> QED
  BY <1>1, <1>2, <1>3, Frame

(* With one worker, and nobody typing "run", no dossier is ever seen that   *)
(* lacks a file or the hash of one, wherever the worker is killed and       *)
(* whatever it has left.  The run DossierRace shows that one runner more is *)
(* too many.                                                               *)
THEOREM DossiersAreWhole ==
  ASSUME "run" \notin Commands, \A v, w \in Workers : v = w
  PROVE  Spec => []DossierWhole
<1> DEFINE Inv == TypeOK /\ Sense /\ Asked /\ WrittenSoFar /\ DossierWhole
<1>1. Init => Inv
  <2> SUFFICES ASSUME Init PROVE Asked /\ WrittenSoFar /\ DossierWhole
    BY TypeInit
  <2>1. Asked /\ WrittenSoFar
    BY DEF Init, StoreInit, Asked, RunnerPlace, WrittenSoFar, Idle
  <2>2. DossierWhole
    BY DEF Init, StoreInit, DossierWhole, Absent
  <2> QED BY <2>1, <2>2
<1>2. Inv /\ [Next]_vars => Inv'
  <2> SUFFICES ASSUME Inv, [Next]_vars PROVE Inv'
    OBVIOUS
  <2>1. TypeOK' /\ Sense' /\ (Calls \/ \E a \in Actors : Operate(a)) /\ Asked'
    BY TypeStep, AskedStep
  <2>2. ASSUME NEW a \in Actors, Operate(a) PROVE WrittenSoFar' /\ DossierWhole'
    BY <2>2, OneWriter, WholeStep DEF Operate, TypeOK
  <2>3. ASSUME Calls PROVE WrittenSoFar' /\ DossierWhole'
    <3>1. \A b \in Actors : op'[b] = op[b] \/ op'[b].at \notin {"write", "publish"}
      <4>1. Idle.at \notin {"write", "publish"}
        BY DEF Idle
      <4>2. ASSUME NEW o, Fresh(o) PROVE o.at \notin {"write", "publish"}
        BY <4>2 DEF Fresh, Call
      <4> QED BY <2>3, <4>1, <4>2 DEF Calls
    <3>2. tmp' = tmp /\ dossier' = dossier
      BY <2>3 DEF Calls, store
    <3> QED BY <3>1, <3>2 DEF WrittenSoFar, Written, DossierWhole
  <2> QED BY <2>1, <2>2, <2>3
<1>3. Inv => DossierWhole
  OBVIOUS
<1> HIDE DEF Inv
<1> QED BY <1>1, <1>2, <1>3, PTL DEF Spec

-----------------------------------------------------------------------------
(* Logs and their evidence.  What each operation has left when it returns.  *)

There == \A r \in Runs : dossier[r].files # {} => dossier[r].there

(* Whole dossiers, results, trials and cards stay. *)
Lasts ==
  /\ Keeps
  /\ \A r \in Runs : Whole(r) => Whole(r)'
  /\ \A r \in Runs : trials[r] # <<>> => trials'[r] # <<>>

(* No operation takes any of them away. *)
LEMMA EvidenceLasts ==
  ASSUME Composed = {}, StoreTypeOK, Sense, Faith, NEW a \in Actors, Operation(a)
  PROVE  Lasts
<1>1. Keeps
  BY FaithStep
<1>2. ASSUME NEW r \in Runs, Whole(r) PROVE Whole(r)'
  <2>1. Readable(r)
    BY <1>2, FileNames DEF Whole, Readable
  <2> QED BY <1>1, <1>2, <2>1 DEF Keeps, Whole
<1>3. ASSUME NEW r \in Runs, trials[r] # <<>> PROVE trials'[r] # <<>>
  <2>1. CASE AppendTrial(a)
    <3> DEFINE t == trials[r]
               v == op[a].found
    <3>1. t \in Seq({"pass", "fail"}) /\ op[a].at = "append" /\ v \in {"pass", "fail"}
      BY <2>1 DEF StoreTypeOK, AppendTrial, At, Sense, Sensible
    <3>2. trials'[r] = t \/ trials'[r] = Append(t, v)
      BY <2>1 DEF AppendTrial, StoreTypeOK
    <3> HIDE DEF t, v
    <3>3. Append(t, v) # <<>>
      BY <3>1
    <3> QED BY <1>3, <3>2, <3>3 DEF t
  <2>2. CASE ~AppendTrial(a)
    <3>1. trials' = trials
      BY <2>2, Frame
    <3> QED BY <1>3, <3>1
  <2> QED BY <2>1, <2>2
<1> QED BY <1>1, <1>2, <1>3 DEF Lasts

(* No dossier has files and is not there. *)
LEMMA ThereStep ==
  ASSUME Composed = {}, StoreTypeOK, There, NEW a \in Actors, Operation(a)
  PROVE  There'
<1> USE DEF store
<1>1. CASE UNCHANGED dossier
  BY <1>1 DEF There
<1>2. CASE Publish(a)
  BY <1>2 DEF Publish, There, StoreTypeOK
<1>3. CASE AddComponents(a)
  <2>1. dossier' = dossier
    BY <1>3 DEF AddComponents
  <2> QED BY <2>1 DEF There
<1> QED
  BY <1>1, <1>2, <1>3, Frame

GatePlace == {"judge", "gtmp", "gpublish"}
TrialPlace == {"look", "append"}
CardPlace == {"trial", "mkdir", "json", "created"}

(* The runner returns "ok" with the whole dossier. *)
LEMMA RunnerOut ==
  ASSUME Composed = {}, StoreTypeOK, Sense, There, DossierWhole, NEW a \in Actors, Operation(a),
         op[a].at \in RunnerPlace
  PROVE  /\ op'[a] \in Op /\ op'[a].run = op[a].run /\ op'[a].at \in RunnerPlace \cup {"reply"}
         /\ op'[a].at = "reply" /\ op'[a].reply = "ok" => Whole(op[a].run)'
<1> USE DEF store
<1> DEFINE r == op[a].run
<1>0. op \in OpSpace /\ op[a] \in Op /\ op'[a] \in Op \cup {Idle} /\ r \in Runs
  BY RunnerStep DEF StoreTypeOK, OpSpace, Op
<1>1. CASE RunInvalid(a) \/ RunRaises(a) \/ PublishFails(a)
  <2>1. Back(a, "invalid") \/ Back(a, "raised")
    BY <1>0, <1>1, Returns DEF RunInvalid, RunRaises, PublishFails, At, Reply
  <2> QED BY <2>1 DEF Back
<1>2. CASE FindDossier(a) \/ OpenTmp(a) \/ Publish(a)
  <2>1. PICK place \in {"components", "open", "write"} : Goto(a, place)
    BY <1>2 DEF FindDossier, OpenTmp, Publish
  <2>2. On(a, place)
    BY <1>0, <1>2, <2>1, GoesOn DEF FindDossier, OpenTmp, Publish, At, Where
  <2> QED BY <2>2 DEF On, RunnerPlace
<1>3. CASE WriteFile(a)
  <2> DEFINE place == IF op[a].next = Len(Files) THEN "publish" ELSE "write"
             x == [op[a] EXCEPT !.at = place, !.next = IF op[a].next = Len(Files) THEN 1
                                                      ELSE op[a].next + 1]
  <2>1. place \in {"publish", "write"}
    OBVIOUS
  <2>2. op'[a] = x
    BY <1>0, <1>3 DEF WriteFile, OpSpace
  <2> HIDE DEF place
  <2>3. x.at = place /\ x.run = r
    BY <1>0 DEF Op
  <2> HIDE DEF x
  <2>4. op'[a].at # "idle"
    BY <2>1, <2>2, <2>3
  <2>5. op'[a] \in Op
    BY <1>0, <2>4 DEF Idle
  <2> QED BY <2>1, <2>2, <2>3, <2>5 DEF RunnerPlace
<1>4. CASE AddComponents(a)
  <2>1. \E v \in {"ok", "invalid"} : Return(a, v) /\ (v = "ok" => "dossier_manifest" \in dossier[r].files)
    BY <1>4 DEF AddComponents
  <2>2. \E v \in {"ok", "invalid"} : Back(a, v) /\ (v = "ok" => "dossier_manifest" \in dossier[r].files)
    BY <1>0, <1>4, <2>1, Returns DEF AddComponents, At, Reply
  <2>3. op'[a] \in Op /\ op'[a].run = r /\ op'[a].at = "reply"
        /\ (op'[a].reply = "ok" => "dossier_manifest" \in dossier[r].files)
    BY <2>2 DEF Back
  <2>4. dossier' = dossier
    BY <1>4 DEF AddComponents
  <2>5. ASSUME "dossier_manifest" \in dossier[r].files PROVE Whole(r)'
    BY <1>0, <2>3, <2>4, <2>5 DEF There, DossierWhole, Whole
  <2> QED BY <2>3, <2>5
<1> QED
  BY <1>1, <1>2, <1>3, <1>4, Places DEF RunnerPlace

(* The gate runner returns a verdict, or "noop", when there are results. *)
LEMMA GatesOut ==
  ASSUME StoreTypeOK, Sense, NEW a \in Actors, Operation(a), op[a].at \in GatePlace
  PROVE  /\ op'[a] \in Op /\ op'[a].run = op[a].run /\ op'[a].at \in GatePlace \cup {"reply"}
         /\ op'[a].at = "reply" /\ op'[a].reply \in {"pass", "fail", "noop"} =>
              results'[op[a].run] # "none"
<1> USE DEF store
<1> DEFINE r == op[a].run
<1>0. op \in OpSpace /\ op[a] \in Op /\ r \in Runs
  BY RunnerStep DEF StoreTypeOK, OpSpace, Op
<1>1. CASE ResultsThere(a)
  <2>1. Back(a, "noop")
    BY <1>0, <1>1, Returns DEF ResultsThere, At, Reply
  <2> QED BY <1>1, <2>1 DEF Back, ResultsThere
<1>2. CASE DossierUnreadable(a) \/ ResultsGone(a)
  <2>1. Back(a, "invalid") \/ Back(a, "raised")
    BY <1>0, <1>2, Returns DEF DossierUnreadable, ResultsGone, At, Reply
  <2> QED BY <2>1 DEF Back
<1>3. CASE RunGates(a)
  <2>1. PICK v \in IF Whole(r) THEN {merit[r]} ELSE {"fail", "invalid"} :
          Learn(a, "gtmp", v)
    BY <1>3 DEF RunGates, Learn
  <2>2. v \in Merit
    BY <1>0, <2>1 DEF StoreTypeOK, Merit, NotRun
  <2>3. op'[a] \in Op /\ op'[a].at = "gtmp" /\ op'[a].run = r
    BY <1>0, <1>3, <2>1, <2>2, Learns DEF RunGates, At, Where
  <2> QED BY <2>3 DEF GatePlace
<1>4. CASE WriteResults(a)
  <2>1. On(a, "gpublish")
    BY <1>0, <1>4, GoesOn DEF WriteResults, At, Where
  <2> QED BY <2>1 DEF On, GatePlace
<1>5. CASE PublishResults(a)
  <2>1. op[a].found \in Reply
    BY <1>5 DEF PublishResults, At, Sense, Sensible, Reply
  <2>2. Back(a, op[a].found)
    BY <1>0, <1>5, <2>1, Returns DEF PublishResults, At
  <2>3. results'[r] # "none"
    BY <1>0, <1>5 DEF PublishResults, StoreTypeOK
  <2> QED BY <2>2, <2>3 DEF Back
<1> QED
  BY <1>1, <1>2, <1>3, <1>4, <1>5, Places DEF GatePlace

(* record_trial returns the result that is in the log. *)
LEMMA TrialOut ==
  ASSUME Composed = {}, StoreTypeOK, Sense, Faith, NEW a \in Actors, Operation(a),
         op[a].at \in TrialPlace
  PROVE  /\ op'[a] \in Op /\ op'[a].run = op[a].run /\ op'[a].at \in TrialPlace \cup {"reply"}
         /\ op'[a].at = "reply" /\ op'[a].reply \in {"pass", "fail"} =>
              trials'[op[a].run] # <<>> /\ op'[a].reply = results'[op[a].run]
<1> USE DEF store
<1> DEFINE r == op[a].run
<1>0. op \in OpSpace /\ op[a] \in Op /\ r \in Runs /\ Sensible(op[a]) /\ Sound(op[a])
  BY RunnerStep DEF StoreTypeOK, OpSpace, Op, Sense, Faith
<1>1. CASE RecordRefused(a) \/ TrialCollides(a)
  <2>1. Back(a, "refused")
    BY <1>0, <1>1, Returns DEF RecordRefused, TrialCollides, At, Reply
  <2> QED BY <2>1 DEF Back
<1>2. CASE FindTrial(a) /\ trials[r] # <<>>
  <2> DEFINE t == trials[r]
  <2>1. t \in Seq({"pass", "fail"}) /\ t # <<>> /\ \A k \in DOMAIN t : t[k] = results[r]
    BY <1>0, <1>2 DEF StoreTypeOK, Faith, Logged
  <2>2. Return(a, Head(t)) /\ trials' = trials /\ results' = results
    BY <1>2 DEF FindTrial
  <2> HIDE DEF t
  <2>3. Head(t) = results[r] /\ Head(t) \in Reply
    BY <2>1 DEF Reply
  <2>4. Back(a, Head(t))
    BY <1>0, <1>2, <2>2, <2>3, Returns DEF FindTrial, At
  <2> QED BY <1>2, <2>2, <2>3, <2>4 DEF Back
<1>3. CASE FindTrial(a) /\ trials[r] = <<>>
  <2> DEFINE v == results[r]
  <2>1. Learn(a, "append", v)
    BY <1>3 DEF FindTrial, Learn
  <2>2. v \in {"none", "pass", "fail"} /\ op[a].at # "idle"
    BY <1>0, <1>3 DEF StoreTypeOK, FindTrial, At
  <2>3. v \in Merit \cup ALLOWED_STATUSES \cup {"none"} /\ "append" \in Where /\ op \in OpSpace
    BY <1>0, <2>2 DEF Merit, NotRun, Where
  <2> HIDE DEF v
  <2>4. op'[a] \in Op /\ op'[a].at = "append" /\ op'[a].run = r
    BY <2>1, <2>2, <2>3, Learns
  <2> QED BY <2>4 DEF TrialPlace
<1>4. CASE AppendTrial(a)
  <2> DEFINE t == trials[r]
             v == op[a].found
  <2>1. v \in {"pass", "fail"} /\ results[r] = v /\ t \in Seq({"pass", "fail"})
    BY <1>0, <1>4 DEF AppendTrial, At, Sensible, Sound, StoreTypeOK
  <2>2. Back(a, v)
    BY <1>0, <1>4, <2>1, Returns DEF AppendTrial, At, Reply
  <2>3. trials'[r] = Append(t, v) /\ results' = results
    BY <1>0, <1>4 DEF AppendTrial, StoreTypeOK
  <2>4. Append(t, v) # <<>>
    <3> HIDE DEF t, v
    <3> QED BY <2>1
  <2> QED BY <2>1, <2>2, <2>3, <2>4 DEF Back
<1> QED
  BY <1>1, <1>2, <1>3, <1>4, Places DEF TrialPlace

(* With a passed trial a card is not refused to a caller who takes the one  *)
(* that is there, and "ok" means there is one.                             *)
LEMMA CardOut ==
  ASSUME StoreTypeOK, Sense, Faith, NEW a \in Actors, Operation(a),
         op[a].at \in CardPlace, op[a].at = "trial" => op[a].noop /\ PassedTrial(op[a].run)
  PROVE  /\ op'[a] \in Op /\ op'[a].run = op[a].run
         /\ op'[a].at \in (CardPlace \ {"trial"}) \cup {"reply"}
         /\ op'[a].at = "reply" => op'[a].reply \in {"ok", "raised"}
         /\ op'[a].at = "reply" /\ op'[a].reply = "ok" => card'[op[a].run] = "json"
<1> USE DEF store
<1> DEFINE r == op[a].run
<1>0. op \in OpSpace /\ op[a] \in Op /\ r \in Runs /\ Sound(op[a])
  BY RunnerStep DEF StoreTypeOK, OpSpace, Op, Faith
<1>1. CASE CardRefused(a)
  BY <1>1 DEF CardRefused, At
<1>2. CASE CardDirThere(a)
  <2>1. Back(a, "raised")
    BY <1>0, <1>2, Returns DEF CardDirThere, At, Reply
  <2> QED BY <2>1 DEF Back
<1>3. CASE FindCard(a) /\ card[r] = "json"
  <2>1. Back(a, "ok")
    BY <1>0, <1>3, Returns DEF FindCard, At, Reply
  <2> QED BY <1>3, <2>1 DEF Back, FindCard
<1>4. CASE AppendCreated(a)
  <2>1. Back(a, "ok")
    BY <1>0, <1>4, Returns DEF AppendCreated, At, Reply
  <2>2. card'[r] = "json"
    BY <1>0, <1>4 DEF AppendCreated, At, Sound
  <2> QED BY <2>1, <2>2 DEF Back
<1>5. CASE (FindCard(a) /\ card[r] # "json") \/ MakeCardDir(a) \/ WriteCard(a)
  <2>1. PICK place \in {"mkdir", "json", "created"} : Goto(a, place)
    BY <1>5 DEF FindCard, MakeCardDir, WriteCard
  <2>2. On(a, place)
    BY <1>0, <1>5, <2>1, GoesOn DEF FindCard, MakeCardDir, WriteCard, At, Where
  <2> QED BY <2>2 DEF On, CardPlace
<1> QED
  BY <1>1, <1>2, <1>3, <1>4, <1>5, Places DEF CardPlace

(* The evidence of a stage. *)
Evident(s, j) ==
  /\ s = "RUN_COMPLETED" => Whole(RunOf[j])
  /\ s = "GATES_COMPLETED" => results[RunOf[j]] # "none"
  /\ s = "REGISTRY_UPDATED" => trials[RunOf[j]] # <<>>
RightCard(b, r) == (b <=> results[r] = "pass") /\ (b => card[r] = "json")

Told ==
  \A j \in Jobs :
    /\ \A s \in events[j] : Evident(s, j)
    /\ "REGISTRY_UPDATED" \in events[j] => RightCard(carded[j], RunOf[j])

(* The call of a stage, and what is known when it has returned. *)
Calling(s, o) ==
  /\ s \in {"RUN_COMPLETED", "GATES_COMPLETED", "REGISTRY_UPDATED"}
  /\ s = "RUN_COMPLETED" =>
       /\ o.at \in RunnerPlace \cup {"reply"}
       /\ o.at = "reply" /\ o.reply = "ok" => Whole(o.run)
  /\ s = "GATES_COMPLETED" =>
       /\ o.at \in GatePlace \cup {"reply"}
       /\ o.at = "reply" /\ o.reply \in {"pass", "fail", "noop"} => results[o.run] # "none"
  /\ s = "REGISTRY_UPDATED" =>
       /\ o.at \in TrialPlace \cup {"reply"}
       /\ o.at = "reply" /\ o.reply \in {"pass", "fail"} =>
            trials[o.run] # <<>> /\ o.reply = results[o.run]
CallingCard(o) ==
  /\ trials[o.run] # <<>> /\ results[o.run] = "pass"
  /\ o.at \in CardPlace \cup {"reply"}
  /\ o.at = "trial" => o.noop
  /\ o.at = "reply" => o.reply \in {"ok", "raised"}
  /\ o.at = "reply" /\ o.reply = "ok" => card[o.run] = "json"

(* What a worker may rely on in the middle of a stage. *)
Doing(x, o) ==
  /\ x.at \in {"compile", "call", "card", "index", "event"} => x.stage \notin events[x.job]
  /\ x.at = "compile" => x.stage = "RUNSPEC_COMPILED"
  /\ x.at \in {"call", "card"} => o \in Op /\ o.run = RunOf[x.job]
  /\ x.at = "call" => Calling(x.stage, o)
  /\ x.at = "card" => x.stage = "REGISTRY_UPDATED" /\ CallingCard(o)
  /\ x.at \in {"index", "event"} =>
       /\ Evident(x.stage, x.job)
       /\ x.stage = "REGISTRY_UPDATED" => RightCard(x.card, RunOf[x.job])
  /\ x.at = "event" /\ x.stage = "REGISTRY_UPDATED" => carded[x.job] = x.card
Busy == \A w \in Workers : Doing(worker[w], op[w])

(* The trial of a run has its result. *)
LEMMA TrialKnown ==
  ASSUME StoreTypeOK, Faith, NEW r \in Runs, trials[r] # <<>>
  PROVE  results[r] # "none" /\ Head(trials[r]) = results[r]
<1> DEFINE t == trials[r]
<1>1. t \in Seq({"pass", "fail"}) /\ t # <<>> /\ \A k \in DOMAIN t : t[k] = results[r]
  BY DEF StoreTypeOK, Faith, Logged
<1> HIDE DEF t
<1>2. Head(t) = results[r] /\ Head(t) \in {"pass", "fail"}
  BY <1>1
<1> QED BY <1>2 DEF t

(* What is told stays true. *)
LEMMA ToldStays ==
  ASSUME StoreTypeOK, Faith, Lasts, Told, UNCHANGED <<events, carded>>
  PROVE  Told'
<1> SUFFICES ASSUME NEW j \in Jobs
             PROVE  /\ \A s \in events[j] : Evident(s, j)'
                    /\ "REGISTRY_UPDATED" \in events[j] => RightCard(carded[j], RunOf[j])'
  BY DEF Told, Evident, RightCard
<1> DEFINE r == RunOf[j]
<1>0. r \in Runs
  BY JobsAssumption
<1>1. ASSUME NEW s \in events[j] PROVE Evident(s, j)'
  BY <1>0, <1>1 DEF Told, Evident, Lasts, Keeps
<1>2. ASSUME "REGISTRY_UPDATED" \in events[j] PROVE RightCard(carded[j], r)'
  <2>1. trials[r] # <<>> /\ RightCard(carded[j], r)
    BY <1>2 DEF Told, Evident
  <2>2. results[r] # "none"
    BY <1>0, <2>1, TrialKnown
  <2> QED BY <1>0, <2>1, <2>2 DEF RightCard, Lasts, Keeps
<1> QED BY <1>1, <1>2

(* So does what a worker relies on. *)
LEMMA DoingStays ==
  ASSUME TypeOK, Faith, Lasts, NEW w \in Workers, Doing(worker[w], op[w]),
         worker'[w] = worker[w], op'[w] = op[w], UNCHANGED <<events, carded>>
  PROVE  Doing(worker[w], op[w])'
<1> DEFINE x == worker[w]
           o == op[w]
           r == RunOf[x.job]
<1>0. StoreTypeOK
  BY DEF TypeOK
<1>1. CASE x.at \in {"call", "card", "index", "event"}
  <2>0. r \in Runs /\ x.stage \in Stage
    BY <1>1, AtWork, JobsAssumption DEF Work
  <2>1. x.at = "call" => Calling(x.stage, o)'
    BY <2>0, TrialKnown, <1>0 DEF Doing, Calling, Lasts, Keeps
  <2>2. x.at = "card" => CallingCard(o)'
    BY <2>0 DEF Doing, CallingCard, Lasts, Keeps
  <2>3. x.at \in {"index", "event"} => Evident(x.stage, x.job)'
    BY <2>0 DEF Doing, Evident, Lasts, Keeps
  <2>4. x.at \in {"index", "event"} /\ x.stage = "REGISTRY_UPDATED" => RightCard(x.card, r)'
    BY <2>0, TrialKnown, <1>0 DEF Doing, Evident, RightCard, Lasts, Keeps
  <2> QED BY <2>1, <2>2, <2>3, <2>4 DEF Doing
<1>2. CASE x.at \notin {"call", "card", "index", "event"}
  BY <1>2 DEF Doing
<1> QED BY <1>1, <1>2

(* The worker's operation brings what its stage needs. *)
LEMMA DoingStep ==
  ASSUME Composed = {}, TypeOK, Sense, Faith, There, DossierWhole, Lasts,
         NEW w \in Workers, Doing(worker[w], op[w]), Operate(w)
  PROVE  Doing(worker[w], op[w])'
<1> DEFINE x == worker[w]
           o == op[w]
           r == RunOf[x.job]
<1>0. /\ StoreTypeOK /\ Operation(w) /\ w \in Actors
      /\ UNCHANGED <<log, worker>>
  BY ActorsAssumption DEF TypeOK, Operate
<1>1. Faith' /\ o.at # "reply"
  BY <1>0, FaithStep, Places
<1>2. CASE x.at = "call"
  <2>0. r \in Runs /\ o \in Op /\ o.run = r /\ Calling(x.stage, o)
    BY <1>2, AtWork, JobsAssumption DEF Work, Doing
  <2>1. op'[w] \in Op /\ op'[w].run = r /\ Calling(x.stage, op[w])'
    <3>1. CASE x.stage = "RUN_COMPLETED"
      <4>1. o.at \in RunnerPlace
        BY <1>1, <2>0, <3>1 DEF Calling
      <4> QED BY <1>0, <2>0, <3>1, <4>1, RunnerOut DEF Calling, log
    <3>2. CASE x.stage = "GATES_COMPLETED"
      <4>1. o.at \in GatePlace
        BY <1>1, <2>0, <3>2 DEF Calling
      <4> QED BY <1>0, <2>0, <3>2, <4>1, GatesOut DEF Calling, log
    <3>3. CASE x.stage = "REGISTRY_UPDATED"
      <4>1. o.at \in TrialPlace
        BY <1>1, <2>0, <3>3 DEF Calling
      <4> QED BY <1>0, <2>0, <3>3, <4>1, TrialOut DEF Calling, log
    <3> QED BY <2>0, <3>1, <3>2, <3>3 DEF Calling
  <2> QED BY <1>0, <1>2, <2>1 DEF Doing, log
<1>3. CASE x.at = "card"
  <2>0. r \in Runs /\ o \in Op /\ o.run = r /\ CallingCard(o)
    BY <1>3, AtWork, JobsAssumption DEF Work, Doing
  <2>1. o.at \in CardPlace /\ (o.at = "trial" => o.noop /\ PassedTrial(o.run))
    BY <1>0, <1>1, <2>0, TrialKnown DEF CallingCard, PassedTrial
  <2>2. /\ op'[w] \in Op /\ op'[w].run = o.run
        /\ op'[w].at \in (CardPlace \ {"trial"}) \cup {"reply"}
        /\ op'[w].at = "reply" => op'[w].reply \in {"ok", "raised"}
        /\ op'[w].at = "reply" /\ op'[w].reply = "ok" => card'[o.run] = "json"
    BY <1>0, <2>1, CardOut
  <2>3. trials'[r] # <<>> /\ results'[r] = "pass"
    BY <2>0 DEF CallingCard, Lasts, Keeps
  <2>4. CallingCard(op[w])'
    BY <2>0, <2>2, <2>3 DEF CallingCard
  <2> QED BY <1>0, <1>3, <2>0, <2>2, <2>4 DEF Doing, log
<1>4. CASE x.at \in {"index", "event"}
  <2>0. r \in Runs /\ x.stage \in Stage
    BY <1>4, AtWork, JobsAssumption DEF Work
  <2>1. Evident(x.stage, x.job)'
    BY <1>0, <1>4, <2>0 DEF Doing, Evident, Lasts, Keeps
  <2>2. x.stage = "REGISTRY_UPDATED" => RightCard(x.card, r)'
    BY <1>0, <1>4, <2>0, TrialKnown DEF Doing, Evident, RightCard, Lasts, Keeps
  <2> QED BY <1>0, <1>4, <2>1, <2>2 DEF Doing, log
<1>5. CASE x.at \notin {"call", "card", "index", "event"}
  BY <1>0, <1>5 DEF Doing, log
<1> QED BY <1>2, <1>3, <1>4, <1>5

(* What one worker does between its operations: each stage is logged with   *)
(* what its operation has returned.                                        *)
LEMMA DoingOutside ==
  ASSUME \A v, w \in Workers : v = w, TypeOK, Sense, Faith, Told, Busy, Calls,
         Next, ~ \E a \in Actors : Operate(a)
  PROVE  Told' /\ Busy'
<1> DEFINE Goal == Told' /\ Busy'
<1>0. /\ StoreTypeOK /\ LogTypeOK /\ op \in OpSpace
      /\ Workers \subseteq Actors /\ Workers \cap Shells = {}
      /\ UNCHANGED <<store, merit>>
  BY TypeParts, ActorsAssumption DEF StoreTypeOK, OpSpace, Calls
<1>1. Lasts
  BY <1>0 DEF Lasts, Keeps, Whole, store
<1>2. ASSUME NEW w \in Workers, Doing(worker[w], op[w])', Told' PROVE Goal
  BY <1>2 DEF Busy
<1>3. ASSUME NEW w \in Workers, worker'[w].at \in {"idle", "loop", "ask", "sweep"}
      PROVE  Doing(worker[w], op[w])'
  BY <1>3 DEF Doing
<1>4. UNCHANGED <<events, carded>> => Told'
  BY <1>0, <1>1, ToldStays
<1>5. ASSUME NEW j \in Jobs, NEW e, e \cap Stage = {}, events' = [events EXCEPT ![j] = events[j] \cup e],
             carded' = carded
      PROVE  Told'
  <2>1. \A i \in Jobs : events'[i] \cap Stage = events[i] \cap Stage
    BY <1>0, <1>5 DEF LogTypeOK
  <2>2. ASSUME NEW i \in Jobs, NEW s \in events'[i] PROVE Evident(s, i)'
    BY <1>0, <2>1, StageSet DEF Told, Evident, Whole, store
  <2>3. ASSUME NEW i \in Jobs, "REGISTRY_UPDATED" \in events'[i] PROVE RightCard(carded[i], RunOf[i])'
    BY <1>0, <1>5, <2>1, <2>3, StageSet DEF Told, RightCard, store
  <2> QED BY <2>2, <2>3 DEF Told, Evident, RightCard
<1>6. ASSUME \A w \in Workers : worker'[w] = worker[w] /\ op'[w] = op[w], UNCHANGED <<events, carded>>
      PROVE  Goal
  <2>1. ASSUME NEW w \in Workers PROVE Doing(worker[w], op[w])'
    BY <1>1, <1>6, DoingStays DEF Busy
  <2> QED BY <1>4, <1>6, <2>1 DEF Busy
<1> HIDE DEF Goal
<1> SUFFICES Goal
  BY DEF Goal
<1>7. ASSUME NEW w \in Workers, NEW j \in Jobs, AskBlueprint(w, j) PROVE Goal
  BY <1>6, <1>7 DEF AskBlueprint
<1>8. ASSUME NEW j \in Jobs, NEW step, approve(j, step) PROVE Goal
  BY <1>6, <1>8 DEF approve
<1>9. ASSUME NEW s \in Shells, NEW o, op' = [op EXCEPT ![s] = o], UNCHANGED <<log, worker>> PROVE Goal
  <2>1. \A w \in Workers : op'[w] = op[w]
    BY <1>0, <1>9 DEF OpSpace
  <2> QED BY <1>6, <1>9, <2>1 DEF log
<1>10. ASSUME NEW j \in Jobs PROVE Loop(j) \in Work \cup {Free} /\ Loop(j).at = "loop"
  BY LoopType DEF Loop
<1>11. ASSUME NEW s \in Shells, NEW cmd \in Commands, NEW r \in Runs, Type(s, cmd, r) PROVE Goal
  BY <1>9, <1>11 DEF Type
(* Stages that are given up, and jobs that end. *)
<1>12. ASSUME NEW w \in Workers, NEW x \in Work \cup {Free}, worker' = [worker EXCEPT ![w] = x],
              x.at \in {"idle", "loop", "ask", "sweep"}, Told'
       PROVE  Goal
  <2>1. worker'[w] = x
    BY <1>12, WorkerStep
  <2> QED BY <1>2, <1>3, <1>12, <2>1
<1>13. Free \in Work \cup {Free} /\ Free.at = "idle"
  BY DEF Free
<1>14. ASSUME NEW w \in Workers, NEW j \in Jobs, BeginSweep(w, j) PROVE Goal
  <2> DEFINE x == [Loop(j) EXCEPT !.at = "sweep"]
  <2>1. x \in Work /\ x.at = "sweep"
    BY LoopType DEF Loop, Work
  <2> HIDE DEF x
  <2>2. worker' = [worker EXCEPT ![w] = x] /\ Told'
    BY <1>4, <1>14 DEF BeginSweep, log, x
  <2> QED BY <1>12, <2>1, <2>2
<1>15. ASSUME NEW a \in Actors, Kill(a) PROVE Goal
  <2>1. CASE a \in Workers
    <3>1. worker' = [worker EXCEPT ![a] = Free] /\ Told'
      BY <1>0, <1>4, <1>15, <2>1 DEF Kill, log
    <3> QED BY <1>12, <1>13, <2>1, <3>1
  <2>2. CASE a \in Shells
    BY <1>0, <1>9, <1>15, <2>2 DEF Kill
  <2> QED BY <2>1, <2>2, ActorsAssumption
<1>16. ASSUME NEW w \in Workers, NEW j \in Jobs, AskSweep(w, j) PROVE Goal
  BY <1>4, <1>12, <1>13, <1>16 DEF AskSweep
<1>17. ASSUME NEW w \in Workers, Sweep(w) PROVE Goal
  <2> DEFINE j == worker[w].job
  <2>0. j \in Jobs
    BY <1>17, AtWork DEF Sweep, Work
  <2>1. PICK e \in {{}, {"ERROR"}} : events' = [events EXCEPT ![j] = events[j] \cup e]
    BY <1>0, <1>17 DEF Sweep, Fail, LogTypeOK
  <2> HIDE DEF j
  <2>2. Told'
    <3>1. e \cap Stage = {} /\ carded' = carded
      BY <1>17, <2>1, StageSet DEF Sweep
    <3> QED BY <1>5, <2>0, <2>1, <3>1
  <2>3. worker' = [worker EXCEPT ![w] = Loop(j)] \/ worker' = [worker EXCEPT ![w] = Free]
    BY <1>17 DEF Sweep, Fail, j
  <2> QED BY <1>10, <1>12, <1>13, <2>0, <2>2, <2>3
<1>18. ASSUME NEW w \in Workers, NEW j \in Jobs, Finish(w, j) PROVE Goal
  <2>1. {"DONE"} \cap Stage = {} /\ carded' = carded
        /\ events' = [events EXCEPT ![j] = events[j] \cup {"DONE"}]
    BY <1>18, StageSet DEF Finish
  <2>2. Told'
    BY <1>5, <2>1
  <2> QED BY <1>12, <1>13, <1>18, <2>2 DEF Finish
<1>19. ASSUME NEW w \in Workers, AskRunspec(w) PROVE Goal
  <2>1. worker[w].job \in Jobs
    BY <1>19, AtWork DEF AskRunspec, Work
  <2> QED BY <1>4, <1>10, <1>12, <1>19, <2>1 DEF AskRunspec
<1>20. ASSUME NEW w \in Workers, CompileFails(w) \/ Refuse(w) PROVE Goal
  <2>1. worker[w].job \in Jobs
    BY <1>20, AtWork DEF CompileFails, Refuse, Returned, Work
  <2>2. Told'
    <3>1. {"ERROR"} \cap Stage = {} /\ carded' = carded
      BY <1>20, StageSet DEF CompileFails, Refuse
    <3>2. events' = [events EXCEPT ![worker[w].job] = events[worker[w].job] \cup {"ERROR"}]
      BY <1>20 DEF CompileFails, Refuse, Fail
    <3> QED BY <1>5, <2>1, <3>1, <3>2
  <2> QED BY <1>12, <1>13, <1>20, <2>2 DEF CompileFails, Refuse, Fail
<1>21. ASSUME NEW w \in Workers, Raise(w) \/ SweepRaises(w) PROVE Goal
  BY <1>4, <1>12, <1>13, <1>21 DEF Raise, SweepRaises, log
(* Stages that begin and go on. *)
<1>22. ASSUME NEW w \in Workers, NEW j \in Jobs, NEW s \in Stage, Begin(w, j, s) PROVE Goal
  <2> DEFINE x == [at |-> IF s = "RUNSPEC_COMPILED" THEN "compile" ELSE "call",
                   job |-> j, stage |-> s, card |-> FALSE]
  <2>1. worker'[w] = x /\ s \notin events'[j] /\ UNCHANGED <<events, carded>>
    BY <1>22, WorkerStep DEF Begin, Due, log, TypeOK
  <2>2. CASE s = "RUNSPEC_COMPILED"
    BY <1>2, <1>4, <2>1, <2>2 DEF Doing
  <2>3. CASE s # "RUNSPEC_COMPILED"
    <3> DEFINE c == CallOf(s, j)
    <3>1. op'[w] = c
      BY <1>0, <1>22, <2>3 DEF Begin, OpSpace
    <3>2. /\ s \in {"RUN_COMPLETED", "GATES_COMPLETED", "REGISTRY_UPDATED"}
          /\ s = "RUN_COMPLETED" => c = Call("exists", RunOf[j], TRUE, "none")
          /\ s = "GATES_COMPLETED" => c = Call("judge", RunOf[j], TRUE, "none")
          /\ s = "REGISTRY_UPDATED" => c = Call("look", RunOf[j], TRUE, "none")
      BY <2>3, StageSet DEF CallOf
    <3> HIDE DEF c
    <3>3. /\ s = "RUN_COMPLETED" => c.at = "exists"
          /\ s = "GATES_COMPLETED" => c.at = "judge"
          /\ s = "REGISTRY_UPDATED" => c.at = "look"
          /\ c.run = RunOf[j]
      BY <3>2 DEF Call
    <3>4. c \in Op
      BY <3>2, CallType, JobsAssumption DEF Where
    <3>5. Calling(s, c)'
      BY <3>2, <3>3 DEF Calling, RunnerPlace, GatePlace, TrialPlace
    <3>6. x.at = "call" /\ x.stage = s /\ x.job = j
      BY <2>3
    <3> HIDE DEF x
    <3>7. Doing(worker[w], op[w])'
      BY <2>1, <3>1, <3>3, <3>4, <3>5, <3>6 DEF Doing, Calling
    <3> QED BY <1>2, <1>4, <2>1, <3>7
  <2> QED BY <2>2, <2>3
<1>23. ASSUME NEW w \in Workers, Compile(w) PROVE Goal
  <2>1. /\ worker'[w].at = "index" /\ worker'[w].job = worker[w].job
        /\ worker'[w].stage = worker[w].stage
    BY <1>23, WorkerGoes DEF Compile
  <2>2. worker[w].stage = "RUNSPEC_COMPILED" /\ worker[w].stage \notin events[worker[w].job]
    BY <1>23 DEF Compile, Busy, Doing
  <2>3. Told' /\ events' = events
    BY <1>4, <1>23 DEF Compile, log
  <2> QED BY <1>2, <2>1, <2>2, <2>3 DEF Doing, Evident
<1>24. ASSUME NEW w \in Workers, Accept(w) PROVE Goal
  <2> DEFINE x == worker[w]
             o == op[w]
             b == x.at = "card" /\ o.reply = "ok"
             y == [x EXCEPT !.at = "index", !.card = b]
  <2>0. x \in Work /\ Doing(x, o) /\ x.at \in {"call", "card"} /\ o.at = "reply" /\ Accepts(w)
    BY <1>24, AtWork DEF Accept, Returned, At, Busy
  <2>1. worker' = [worker EXCEPT ![w] = y] /\ UNCHANGED <<events, carded>>
    BY <1>24 DEF Accept
  <2>2. y \in Work /\ y.at = "index" /\ y.stage = x.stage /\ y.job = x.job /\ y.card = b
    BY <2>0 DEF Work
  <2> HIDE DEF y
  <2>3. worker'[w] = y
    BY <2>1, <2>2, WorkerStep
  <2>4. x.stage \notin events[x.job] /\ o.run = RunOf[x.job]
    BY <2>0 DEF Doing
  <2>5. Evident(x.stage, x.job) /\ (x.stage = "REGISTRY_UPDATED" => RightCard(b, RunOf[x.job]))
    <3>1. CASE x.at = "call"
      <4>1. Calling(x.stage, o) /\ b = FALSE
        BY <2>0, <3>1 DEF Doing
      <4>2. CASE x.stage = "RUN_COMPLETED"
        BY <2>0, <2>4, <3>1, <4>1, <4>2 DEF Accepts, Calling, Evident
      <4>3. CASE x.stage = "GATES_COMPLETED"
        BY <2>0, <2>4, <3>1, <4>1, <4>3 DEF Accepts, Calling, Evident
      <4>4. CASE x.stage = "REGISTRY_UPDATED"
        BY <2>0, <2>4, <3>1, <4>1, <4>4 DEF Accepts, Calling, Evident, RightCard
      <4> QED BY <4>1, <4>2, <4>3, <4>4 DEF Calling
    <3>2. CASE x.at = "card"
      <4>1. x.stage = "REGISTRY_UPDATED" /\ CallingCard(o)
        BY <2>0, <3>2 DEF Doing
      <4>2. o.reply = "ok"
        BY <2>0, <4>1 DEF Accepts, CallingCard
      <4> QED BY <2>0, <2>4, <3>2, <4>1, <4>2 DEF CallingCard, Evident, RightCard
    <3> QED BY <2>0, <3>1, <3>2
  <2> HIDE DEF b
  <2>6. Evident(x.stage, x.job)' /\ (x.stage = "REGISTRY_UPDATED" => RightCard(b, RunOf[x.job]))
    BY <1>0, <2>2, <2>3, <2>5 DEF Evident, Whole, store
  <2>7. results' = results /\ card' = card
    BY <1>0 DEF store
  <2>8. Doing(worker[w], op[w])'
    BY <2>1, <2>2, <2>3, <2>4, <2>6, <2>7 DEF Doing, Evident, RightCard, Whole
  <2> QED BY <1>2, <1>4, <2>1, <2>8
<1>25. ASSUME NEW w \in Workers, CreateCard(w) PROVE Goal
  <2> DEFINE x == worker[w]
             o == op[w]
             r == RunOf[x.job]
             c == Call("trial", r, TRUE, "none")
  <2>0. x \in Work /\ Doing(x, o) /\ x.at = "call" /\ x.stage = "REGISTRY_UPDATED"
    BY <1>25, AtWork DEF CreateCard, Returned, Busy
  <2>1. worker'[w].at = "card" /\ worker'[w].job = x.job /\ worker'[w].stage = x.stage
    BY <1>25, <2>0, WorkerGoes DEF CreateCard
  <2>2. op'[w] = c /\ UNCHANGED <<events, carded>>
    BY <1>0, <1>25 DEF CreateCard, OpSpace, log
  <2>3. trials[r] # <<>> /\ results[r] = "pass"
    BY <1>25, <2>0 DEF CreateCard, Returned, At, Doing, Calling
  <2>4. r \in Runs
    BY <2>0, JobsAssumption DEF Work
  <2>5. c \in Op /\ c.at = "trial" /\ c.run = r /\ c.noop
    <3>1. c \in Op
      BY <2>4, CallType DEF Where
    <3> QED BY <3>1 DEF Call
  <2> HIDE DEF c
  <2>6. trials'[r] # <<>> /\ results'[r] = "pass"
    BY <1>0, <2>3 DEF store
  <2>7. Doing(worker[w], op[w])'
    BY <2>0, <2>1, <2>2, <2>5, <2>6 DEF Doing, CallingCard, CardPlace
  <2> QED BY <1>2, <1>4, <2>2, <2>7
<1>26. ASSUME NEW w \in Workers, WriteIndex(w) PROVE Goal
  <2> DEFINE x == worker[w]
  <2>0. x \in Work /\ Doing(x, op[w]) /\ x.at = "index" /\ x.job \in Jobs
    BY <1>26, AtWork DEF WriteIndex, Busy, Work
  <2>1. /\ worker'[w].at = "event" /\ worker'[w].job = x.job /\ worker'[w].stage = x.stage
        /\ worker'[w].card = x.card
    BY <1>26, <2>0, WorkerGoes DEF WriteIndex
  <2>2. /\ events' = events
        /\ x.stage = "REGISTRY_UPDATED" => carded' = [carded EXCEPT ![x.job] = x.card]
        /\ x.stage # "REGISTRY_UPDATED" => carded' = carded
    BY <1>26 DEF WriteIndex
  <2>3. /\ x.stage \notin events[x.job] /\ Evident(x.stage, x.job)
        /\ x.stage = "REGISTRY_UPDATED" => RightCard(x.card, RunOf[x.job])
    BY <2>0 DEF Doing
  <2>4. Told'
    <3>1. ASSUME NEW i \in Jobs, NEW s \in events'[i] PROVE Evident(s, i)'
      BY <1>0, <2>2 DEF Told, Evident, Whole, store
    <3>2. ASSUME NEW i \in Jobs, "REGISTRY_UPDATED" \in events'[i] PROVE RightCard(carded[i], RunOf[i])'
      <4>1. carded'[i] = carded[i]
        BY <1>0, <2>2, <2>3, <3>2 DEF LogTypeOK
      <4> QED BY <1>0, <2>2, <3>2, <4>1 DEF Told, RightCard, store
    <3> QED BY <3>1, <3>2 DEF Told, Evident, RightCard
  <2>5. x.stage = "REGISTRY_UPDATED" => carded'[x.job] = x.card
    BY <1>0, <2>0, <2>2 DEF LogTypeOK
  <2>6. Doing(worker[w], op[w])'
    BY <1>0, <2>1, <2>2, <2>3, <2>5 DEF Doing, Evident, RightCard, Whole, store
  <2> QED BY <1>2, <2>4, <2>6
<1>27. ASSUME NEW w \in Workers, AppendEvent(w) PROVE Goal
  <2> DEFINE x == worker[w]
  <2>0. x \in Work /\ Doing(x, op[w]) /\ x.at = "event" /\ x.job \in Jobs /\ x.stage \in Stage
    BY <1>27, AtWork DEF AppendEvent, Busy, Work
  <2>1. events' = [events EXCEPT ![x.job] = events[x.job] \cup {x.stage}] /\ carded' = carded
    BY <1>27 DEF AppendEvent
  <2>2. /\ Evident(x.stage, x.job)
        /\ x.stage = "REGISTRY_UPDATED" => RightCard(carded[x.job], RunOf[x.job])
    BY <2>0 DEF Doing
  <2>3. ASSUME NEW i \in Jobs, NEW s \in events'[i] PROVE s \in events[i] \/ (i = x.job /\ s = x.stage)
    BY <1>0, <2>0, <2>1 DEF LogTypeOK
  <2>4. Told'
    <3>1. ASSUME NEW i \in Jobs, NEW s \in events'[i] PROVE Evident(s, i)'
      BY <1>0, <2>2, <2>3 DEF Told, Evident, Whole, store
    <3>2. ASSUME NEW i \in Jobs, "REGISTRY_UPDATED" \in events'[i] PROVE RightCard(carded[i], RunOf[i])'
      BY <1>0, <2>1, <2>2, <2>3, <3>2 DEF Told, RightCard, store
    <3> QED BY <3>1, <3>2 DEF Told, Evident, RightCard
  <2> DEFINE y == [x EXCEPT !.at = "ask"]
  <2>5. y \in Work /\ y.at = "ask"
    BY <2>0 DEF Work
  <2>6. worker' = [worker EXCEPT ![w] = y] \/ worker' = [worker EXCEPT ![w] = Loop(x.job)]
    BY <1>27 DEF AppendEvent
  <2> HIDE DEF y
  <2> QED BY <1>10, <1>12, <2>0, <2>4, <2>5, <2>6
<1> QED
  BY <1>7, <1>8, <1>10, <1>11, <1>14, <1>15, <1>16, <1>17, <1>18, <1>19, <1>20, <1>21, <1>22,
     <1>23, <1>24,
     <1>25, <1>26, <1>27
  DEF Next, Continue, advance_job_once

(* With one worker, and nobody typing "run", what a log tells of a stage is *)
(* there, and the card it refers to: while command lines judge, record and  *)
(* create cards, and wherever anyone is killed.                            *)
THEOREM LogsHaveEvidence ==
  ASSUME Composed = {}, "run" \notin Commands, \A v, w \in Workers : v = w
  PROVE  Spec => []LogHasEvidence
<1> DEFINE Dossiers == There /\ Asked /\ WrittenSoFar /\ DossierWhole
           Inv == TypeOK /\ Sense /\ Faith /\ Dossiers /\ Told /\ Busy
<1>1. Init => Inv
  <2> SUFFICES ASSUME Init PROVE Faith /\ Dossiers /\ Told /\ Busy
    BY TypeInit
  <2>1. \A r \in Runs : /\ results[r] = "none" /\ trials[r] = <<>>
                        /\ card[r] = "none" /\ cardlog[r] = <<>>
    BY DEF Init, StoreInit
  <2>2. \A a \in Actors : Sound(op[a])
    BY DEF Init, StoreInit, Sound, Idle
  <2>3. Faith
    BY <2>1, <2>2 DEF Faith, Judged, Logged, Carded
  <2>4. Asked /\ WrittenSoFar
    BY DEF Init, StoreInit, Asked, RunnerPlace, WrittenSoFar, Idle
  <2>5. There /\ DossierWhole
    BY DEF Init, StoreInit, There, DossierWhole, Absent
  <2>6. Told
    BY DEF Init, Told
  <2>7. Busy
    BY DEF Init, Busy, Doing, Free
  <2> QED BY <2>3, <2>4, <2>5, <2>6, <2>7
<1>2. Inv /\ [Next]_vars => Inv'
  <2> SUFFICES ASSUME Inv, [Next]_vars PROVE Inv'
    OBVIOUS
  <2>0. StoreTypeOK
    BY DEF TypeOK
  <2>1. TypeOK' /\ Sense' /\ (Calls \/ \E a \in Actors : Operate(a)) /\ Asked'
    BY TypeStep, AskedStep
  <2>2. ASSUME NEW a \in Actors, Operate(a) PROVE Faith' /\ Dossiers' /\ Told' /\ Busy'
    <3>0. Operation(a) /\ UNCHANGED <<log, worker>>
      BY <2>2 DEF Operate
    <3>1. WrittenSoFar' /\ DossierWhole' /\ There' /\ Faith' /\ Lasts
      BY <2>0, <3>0, OneWriter, WholeStep, ThereStep, FaithStep, EvidenceLasts
    <3>2. Told'
      BY <2>0, <3>0, <3>1, ToldStays DEF log
    <3>3. ASSUME NEW w \in Workers PROVE Doing(worker[w], op[w])'
      <4>1. CASE w = a
        BY <2>2, <3>1, <4>1, DoingStep DEF Busy
      <4>2. CASE w # a
        <5>1. op'[w] = op[w]
          BY <2>0, <3>0, <4>2, RunnerStep, ActorsAssumption DEF Others
        <5> QED BY <3>0, <3>1, <5>1, DoingStays DEF Busy, log
      <4> QED BY <4>1, <4>2
    <3> QED BY <2>1, <3>1, <3>2, <3>3 DEF Busy
  <2>3. ASSUME Calls PROVE Faith' /\ Dossiers'
    <3>1. \A b \in Actors : op'[b] = op[b] \/ op'[b].at \notin {"write", "publish"}
      <4>1. Idle.at \notin {"write", "publish"}
        BY DEF Idle
      <4>2. ASSUME NEW o, Fresh(o) PROVE o.at \notin {"write", "publish"}
        BY <4>2 DEF Fresh, Call
      <4> QED BY <2>3, <4>1, <4>2 DEF Calls
    <3>2. tmp' = tmp /\ dossier' = dossier
      BY <2>3 DEF Calls, store
    <3>3. WrittenSoFar' /\ DossierWhole' /\ There'
      BY <3>1, <3>2 DEF WrittenSoFar, Written, DossierWhole, There
    <3> QED BY <2>1, <2>3, <3>3, FaithCalls
  <2>4. CASE Calls /\ Next /\ ~ \E a \in Actors : Operate(a)
    BY <2>1, <2>3, <2>4, DoingOutside
  <2>5. CASE UNCHANGED vars
    <3>1. Calls /\ UNCHANGED <<store, merit, op, events, carded, worker>>
      BY <2>5, NoCalls DEF vars, log
    <3>2. Lasts
      BY <3>1 DEF Lasts, Keeps, Whole, store
    <3>3. Told' /\ Busy'
      BY <2>0, <3>1, <3>2, ToldStays, DoingStays DEF Busy
    <3> QED BY <2>1, <2>3, <3>1, <3>3
  <2> QED BY <2>1, <2>2, <2>4, <2>5
<1>3. Inv => LogHasEvidence
  <2> SUFFICES ASSUME Inv, NEW j \in Jobs
               PROVE  LET r == RunOf[j] IN
                        /\ "RUN_COMPLETED" \in events[j] => Whole(r)
                        /\ "GATES_COMPLETED" \in events[j] => results[r] # "none"
                        /\ "REGISTRY_UPDATED" \in events[j] =>
                             /\ trials[r] # <<>>
                             /\ carded[j] <=> results[r] = "pass"
                             /\ carded[j] => card[r] = "json"
    BY DEF LogHasEvidence
  <2>1. /\ \A s \in events[j] : Evident(s, j)
        /\ "REGISTRY_UPDATED" \in events[j] => RightCard(carded[j], RunOf[j])
    BY DEF Told
  <2> QED BY <2>1 DEF Evident, RightCard
<1> HIDE DEF Inv
<1> QED BY <1>1, <1>2, <1>3, PTL DEF Spec

-----------------------------------------------------------------------------
(* The files implement RunRecord *)

(* A trial stays the first entry of its run. *)
LEMMA TrialStays ==
  ASSUME StoreTypeOK, Sense, NEW a \in Actors, Operation(a), NEW r \in Runs, trials[r] # <<>>
  PROVE  trials'[r] # <<>> /\ Head(trials'[r]) = Head(trials[r])
<1>1. CASE AppendTrial(a)
  <2> DEFINE t == trials[r]
             v == op[a].found
  <2>1. t \in Seq({"pass", "fail"}) /\ v \in {"pass", "fail"}
    BY <1>1 DEF StoreTypeOK, AppendTrial, At, Sense, Sensible
  <2>2. trials'[r] = t \/ trials'[r] = Append(t, v)
    BY <1>1 DEF AppendTrial, StoreTypeOK
  <2> HIDE DEF t, v
  <2>3. t # <<>> => Append(t, v) # <<>> /\ Head(Append(t, v)) = Head(t)
    BY <2>1
  <2> QED BY <2>2, <2>3 DEF t
<1>2. CASE ~AppendTrial(a)
  <2>1. trials' = trials
    BY <1>2, Frame
  <2> QED BY <2>1
<1> QED BY <1>1, <1>2

(* The status of a card changes by its promotion only. *)
LEMMA StatusStays ==
  ASSUME StoreTypeOK, NEW a \in Actors, Operation(a), ~AppendPromoted(a), NEW r \in Runs
  PROVE  EffectiveStatus(r)' = EffectiveStatus(r)
<1>1. CASE AppendCreated(a)
  <2> DEFINE c == cardlog[r]
             d == cardlog'[r]
  <2>1. c \in Seq(ALLOWED_STATUSES \cup {"CREATED"})
    BY DEF StoreTypeOK
  <2>2. d = c \/ d = Append(c, "CREATED")
    BY <1>1 DEF AppendCreated, StoreTypeOK
  <2> HIDE DEF c, d
  <2>3. \A i \in DOMAIN c : i \in DOMAIN d /\ d[i] = c[i]
    BY <2>1, <2>2
  <2>4. \A i \in DOMAIN d \ DOMAIN c : d[i] = "CREATED"
    BY <2>1, <2>2
  <2>5. Promotions(r)' = Promotions(r)
    BY <2>3, <2>4 DEF Promotions, c, d
  <2> DEFINE P == Promotions(r)
             n == CHOOSE i \in P : \A k \in P : k <= i
  <2>6. CASE P = {}
    BY <2>5, <2>6 DEF EffectiveStatus
  <2>7. CASE P # {}
    <3>1. EffectiveStatus(r) = c[n] /\ EffectiveStatus(r)' = d[n]
      BY <2>5, <2>7 DEF EffectiveStatus, c, d
    <3>2. P \subseteq DOMAIN c /\ \A i \in DOMAIN c \ P : c[i] = "CREATED"
      BY DEF Promotions, c
    <3>3. P \subseteq 1..Len(c) /\ Len(c) \in Nat
      BY <2>1, <3>2
    <3>4. \E i \in P : \A k \in P : k <= i
      <4> HIDE DEF P
      <4> QED BY <2>7, <3>3, Largest
    <3>5. n \in P
      <4> HIDE DEF P
      <4> QED BY <3>4
    <3> QED BY <2>3, <3>1, <3>2, <3>5
  <2> QED BY <2>6, <2>7
<1>2. CASE ~AppendCreated(a)
  <2>1. cardlog' = cardlog
    BY <1>2, Frame
  <2> QED BY <2>1 DEF EffectiveStatus, Promotions
<1> QED BY <1>1, <1>2

(* A promotion gives a card its new status. *)
LEMMA StatusChanges ==
  ASSUME StoreTypeOK, Sense, NEW a \in Actors, AppendPromoted(a), NEW r \in Runs, op[a].run = r
  PROVE  /\ EffectiveStatus(r)' = op[a].found
         /\ \A q \in Runs \ {r} : EffectiveStatus(q)' = EffectiveStatus(q)
<1> DEFINE v == op[a].found
           c == cardlog[r]
           n == Len(c) + 1
<1>2. v \in ALLOWED_STATUSES /\ v # "CREATED"
  BY DEF AppendPromoted, At, Sense, Sensible, ALLOWED_STATUSES
<1>3. cardlog' = [cardlog EXCEPT ![r] = Append(c, v)]
  BY DEF AppendPromoted
<1>4. ASSUME NEW q \in Runs \ {r} PROVE EffectiveStatus(q)' = EffectiveStatus(q)
  <2>1. cardlog'[q] = cardlog[q]
    BY <1>3, <1>4 DEF StoreTypeOK
  <2> QED BY <2>1 DEF EffectiveStatus, Promotions
<1>5. EffectiveStatus(r)' = v
  <2> DEFINE d == Append(c, v)
             P == {i \in DOMAIN d : d[i] # "CREATED"}
  <2>0. c \in Seq(ALLOWED_STATUSES \cup {"CREATED"}) /\ cardlog'[r] = d
    BY <1>3 DEF StoreTypeOK
  <2>2. n \in Nat /\ n >= 1 /\ DOMAIN d = 1..n /\ d[n] = v
    <3> HIDE DEF c, v
    <3> QED BY <1>2, <2>0
  <2> HIDE DEF d, c, n
  <2>3. n \in P /\ \A k \in P : k <= n
    BY <1>2, <2>2
  <2>4. (CHOOSE i \in P : \A k \in P : k <= i) = n
    <3>1. P \subseteq Nat
      BY <2>2
    <3> HIDE DEF P
    <3>2. \A i \in P : (\A k \in P : k <= i) => i = n
      BY <2>2, <2>3, <3>1
    <3> QED BY <2>3, <3>2
  <2>5. Promotions(r)' = P
    BY <2>0 DEF Promotions
  <2> QED BY <2>0, <2>2, <2>3, <2>4, <2>5 DEF EffectiveStatus
<1> QED BY <1>4, <1>5

(* A card is made after a passed trial, promoted after its status was read  *)
(* and by a command line only.                                             *)
Promoting(o, r, v) == o.at = "promote" /\ o.run = r /\ o.found = v
Cards ==
  /\ \A w \in Workers : op[w].at \notin {"status", "promote"}
  /\ \A a \in Actors : op[a].at \in {"mkdir", "json", "created"} => PassedTrial(op[a].run)
  /\ \A a \in Actors, r \in Runs, v \in ALLOWED_STATUSES :
       Promoting(op[a], r, v) => MayPromote(r, v)

CardWay == {"mkdir", "json", "created", "status", "promote"}

(* Operations come to these places on the ways of cards only. *)
LEMMA CardPlaces ==
  ASSUME StoreTypeOK, Sense, NEW a \in Actors, Operation(a), op'[a].at \in CardWay
  PROVE  FindCard(a) \/ MakeCardDir(a) \/ WriteCard(a) \/ ReadStatus(a)
<1> SUFFICES ASSUME ~(FindCard(a) \/ MakeCardDir(a) \/ WriteCard(a) \/ ReadStatus(a)) PROVE FALSE
  OBVIOUS
<1>0. op \in OpSpace /\ op[a] \in Op
  BY RunnerStep DEF StoreTypeOK, OpSpace
<1>1. CASE \E v : Return(a, v)
  BY <1>0, <1>1 DEF Return, Call, CardWay, OpSpace, Op
<1>2. CASE \E place \in Where \ CardWay : Goto(a, place)
  BY <1>0, <1>2 DEF Goto, OpSpace, Op
<1>3. ASSUME NEW place \in Where \ CardWay, NEW v, Learn(a, place, v) PROVE FALSE
  BY <1>0, <1>3 DEF Learn, OpSpace, Op
<1>4. ASSUME NEW place \in Where \ CardWay, NEW k,
             op' = [op EXCEPT ![a] = [op[a] EXCEPT !.at = place, !.next = k]]
      PROVE  FALSE
  BY <1>0, <1>4 DEF OpSpace, Op
<1>5. CASE JustReturns(a)
  BY <1>1, <1>5 DEF JustReturns, RunInvalid, RunRaises, ResultsThere, DossierUnreadable,
     ResultsGone,
     RecordRefused, TrialCollides, CardRefused, CardDirThere
<1>6. CASE PublishFails(a) \/ AddComponents(a) \/ PublishResults(a) \/ AppendTrial(a)
           \/ AppendCreated(a) \/ AppendPromoted(a)
  BY <1>1, <1>6 DEF PublishFails, AddComponents, PublishResults, AppendTrial, AppendCreated,
     AppendPromoted
<1>7. CASE FindDossier(a) \/ OpenTmp(a) \/ Publish(a) \/ WriteResults(a)
  BY <1>2, <1>7 DEF FindDossier, OpenTmp, Publish, WriteResults, Where, CardWay
<1>8. CASE WriteFile(a)
  <2>1. PICK place \in {"publish", "write"}, k \in {1, op[a].next + 1} :
          op' = [op EXCEPT ![a] = [op[a] EXCEPT !.at = place, !.next = k]]
    BY <1>8 DEF WriteFile
  <2> QED BY <1>4, <2>1 DEF Where, CardWay
<1>9. CASE RunGates(a)
  <2>1. \E v : Learn(a, "gtmp", v)
    BY <1>9 DEF RunGates, Learn
  <2> QED BY <1>3, <2>1 DEF Where, CardWay
<1>10. CASE FindTrial(a)
  <2>1. CASE trials[op[a].run] # <<>>
    BY <1>1, <1>10, <2>1 DEF FindTrial
  <2>2. CASE trials[op[a].run] = <<>>
    <3>1. \E v : Learn(a, "append", v)
      BY <1>10, <2>2 DEF FindTrial, Learn
    <3> QED BY <1>3, <3>1 DEF Where, CardWay
  <2> QED BY <2>1, <2>2
<1> QED
  BY <1>5, <1>6, <1>7, <1>8, <1>9, <1>10
  DEF Operation, runner, gaterunner, record_trial, create_card_from_run, promote_card, JustReturns

(* With one command line no promotion comes between another one's reading   *)
(* and writing.                                                            *)
LEMMA CardsStep ==
  ASSUME \A s, t \in Shells : s = t, StoreTypeOK, Sense, Cards, NEW a \in Actors, Operation(a)
  PROVE  Cards'
<1>0. Others(a) /\ op' \in OpSpace /\ op \in OpSpace /\ op[a] \in Op
  BY RunnerStep DEF StoreTypeOK, OpSpace
<1>1. ASSUME NEW b \in Actors, b # a, NEW r \in Runs, NEW v \in ALLOWED_STATUSES,
             Promoting(op[b], r, v)
      PROVE  MayPromote(r, v)'
  <2>1. b \in Shells
    BY <1>1, ActorsAssumption DEF Cards, Promoting
  <2>2. ~AppendPromoted(a)
    <3> SUFFICES ASSUME AppendPromoted(a) PROVE FALSE
      OBVIOUS
    <3>1. a \in Shells
      BY ActorsAssumption DEF AppendPromoted, At, Cards
    <3> QED BY <1>1, <2>1, <3>1
  <2>3. EffectiveStatus(r)' = EffectiveStatus(r)
    BY <2>2, StatusStays
  <2> QED BY <1>1, <2>3 DEF Cards, MayPromote
<1>2. ASSUME NEW b \in Actors, b # a, op[b].at \in {"mkdir", "json", "created"}
      PROVE  PassedTrial(op[b].run)'
  <2>1. op'[b] = op[b] /\ op[b] \in Op
    BY <1>0, <1>2, Operating DEF Others
  <2>2. PassedTrial(op[b].run) /\ op[b].run \in Runs
    BY <1>2, <2>1 DEF Cards, Op
  <2> QED BY <2>1, <2>2, TrialStays DEF PassedTrial
<1>3. ASSUME op'[a].at \in {"mkdir", "json", "created"} PROVE PassedTrial(op[a].run)'
  <2>1. FindCard(a) \/ MakeCardDir(a) \/ WriteCard(a)
    <3>1. ASSUME ReadStatus(a) PROVE FALSE
      <4>1. Goto(a, "promote") \/ Return(a, "refused")
        BY <3>1 DEF ReadStatus
      <4>2. On(a, "promote") \/ Back(a, "refused")
        BY <1>0, <3>1, <4>1, GoesOn, Returns DEF ReadStatus, At, Where, Reply
      <4> QED BY <1>3, <4>2 DEF On, Back
    <3> QED BY <1>3, <3>1, CardPlaces DEF CardWay
  <2>2. PassedTrial(op[a].run) /\ trials' = trials
    BY <2>1 DEF FindCard, MakeCardDir, WriteCard, At, Cards, store
  <2>3. \E place \in {"mkdir", "json", "created"} : Goto(a, place)
    <3>1. FindCard(a) /\ card[op[a].run] = "json" => Back(a, "ok")
      BY <1>0, Returns DEF FindCard, At, Reply
    <3> QED BY <1>3, <2>1, <3>1 DEF FindCard, MakeCardDir, WriteCard, Back
  <2>4. op'[a].run = op[a].run
    BY <1>0, <2>1, <2>3, GoesOn DEF On, Where, FindCard, MakeCardDir, WriteCard, At
  <2> QED BY <2>2, <2>4 DEF PassedTrial
<1>4. ASSUME op'[a].at \in {"status", "promote"}
      PROVE  /\ op[a].at = "status"
             /\ \A r \in Runs, v \in ALLOWED_STATUSES : Promoting(op'[a], r, v) => MayPromote(r, v)'
  <2>1. ReadStatus(a)
    <3>1. ASSUME FindCard(a) \/ MakeCardDir(a) \/ WriteCard(a) PROVE FALSE
      <4>1. Return(a, "ok") \/ \E place \in {"mkdir", "json", "created"} : Goto(a, place)
        BY <3>1 DEF FindCard, MakeCardDir, WriteCard
      <4>2. Back(a, "ok") \/ \E place \in {"mkdir", "json", "created"} : On(a, place)
        BY <1>0, <3>1, <4>1, GoesOn, Returns
        DEF FindCard, MakeCardDir, WriteCard, At, Where, Reply
      <4> QED BY <1>4, <4>2 DEF On, Back
    <3> QED BY <1>4, <3>1, CardPlaces DEF CardWay
  <2>2. op[a].at = "status" /\ cardlog' = cardlog
    BY <2>1 DEF ReadStatus, At, store
  <2>3. ~(card[op[a].run] = "json" /\ MayPromote(op[a].run, op[a].found)) => Back(a, "refused")
    BY <1>0, <2>1, <2>2, Returns DEF ReadStatus, Reply
  <2>4. MayPromote(op[a].run, op[a].found) /\ Goto(a, "promote")
    BY <1>4, <2>1, <2>3 DEF ReadStatus, Back
  <2>5. op'[a].run = op[a].run /\ op'[a].found = op[a].found
    BY <1>0, <2>2, <2>4, GoesOn DEF On, Where
  <2>6. ASSUME NEW r \in Runs PROVE EffectiveStatus(r)' = EffectiveStatus(r)
    BY <2>2 DEF EffectiveStatus, Promotions
  <2> QED BY <2>2, <2>4, <2>5, <2>6 DEF MayPromote, Promoting
<1>5. ASSUME NEW w \in Workers PROVE op'[w].at \notin {"status", "promote"}
  BY <1>0, <1>4, ActorsAssumption DEF Others, Cards
<1>6. ASSUME NEW b \in Actors, op'[b].at \in {"mkdir", "json", "created"}
      PROVE  PassedTrial(op[b].run)'
  BY <1>0, <1>2, <1>3, <1>6 DEF Others
<1>7. ASSUME NEW b \in Actors, NEW r \in Runs, NEW v \in ALLOWED_STATUSES, Promoting(op'[b], r, v)
      PROVE  MayPromote(r, v)'
  <2>1. CASE b = a
    BY <1>4, <1>7, <2>1 DEF Promoting
  <2>2. CASE b # a
    BY <1>0, <1>1, <1>7, <2>2 DEF Others
  <2> QED BY <2>1, <2>2
<1> QED BY <1>5, <1>6, <1>7 DEF Cards, Promoting

(* Workers do not promote. *)
LEMMA CardsCalls ==
  ASSUME TypeOK, Cards, Calls, Next, ~ \E a \in Actors : Operate(a)
  PROVE  Cards'
<1>0. op \in OpSpace /\ Workers \subseteq Actors /\ Workers \cap Shells = {} /\ UNCHANGED store
  BY ActorsAssumption DEF TypeOK, StoreTypeOK, OpSpace, Calls
<1>1. ASSUME NEW b \in Actors
      PROVE  op'[b] = op[b] \/ op'[b].at \notin {"mkdir", "json", "created", "promote"}
  <2>1. Idle.at = "idle"
    BY DEF Idle
  <2>2. ASSUME NEW o, Fresh(o) PROVE o.at \in {"exists", "judge", "look", "trial", "status"}
    BY <2>2 DEF Fresh, Call
  <2> QED BY <2>1, <2>2 DEF Calls
<1>2. ASSUME NEW b \in Actors, op'[b].at \in {"mkdir", "json", "created"}
      PROVE  PassedTrial(op[b].run)'
  BY <1>0, <1>1, <1>2 DEF Cards, PassedTrial, store
<1>4. ASSUME NEW b \in Actors, NEW r \in Runs, NEW v \in ALLOWED_STATUSES, Promoting(op'[b], r, v)
      PROVE  MayPromote(r, v)'
  <2>1. EffectiveStatus(r)' = EffectiveStatus(r)
    BY <1>0 DEF EffectiveStatus, Promotions, store
  <2> QED BY <1>1, <1>4, <2>1 DEF Cards, Promoting, MayPromote
<1>3. ASSUME NEW w \in Workers PROVE op'[w].at \notin {"status", "promote"}
  <2> SUFFICES ASSUME op'[w] # op[w] PROVE op'[w].at \notin {"status", "promote"}
    BY DEF Cards
  <2>1. ASSUME NEW a \in Actors, NEW o, op' = [op EXCEPT ![a] = o] PROVE w = a /\ op'[w] = o
    BY <1>0, <2>1 DEF OpSpace
  <2>2. ASSUME NEW a \in Actors, op' = [op EXCEPT ![a] = Idle] PROVE op'[w].at = "idle"
    BY <2>1, <2>2 DEF Idle
  <2>3. ASSUME NEW v \in Workers, NEW j \in Jobs, NEW s \in Stage, Begin(v, j, s)
        PROVE  op'[w].at \in {"exists", "judge", "look"}
    <3>1. s # "RUNSPEC_COMPILED" /\ op' = [op EXCEPT ![v] = CallOf(s, j)]
      BY <2>3 DEF Begin
    <3>2. op'[w] = CallOf(s, j)
      BY <1>0, <2>1, <3>1
    <3> QED BY <3>1, <3>2, StageSet DEF CallOf, Call
  <2>4. ASSUME NEW v \in Workers, CreateCard(v) PROVE op'[w].at = "trial"
    <3>1. op'[w] = Call("trial", RunOf[worker[v].job], TRUE, "none")
      BY <1>0, <2>1, <2>4 DEF CreateCard
    <3> QED BY <3>1 DEF Call
  <2>5. ASSUME NEW s \in Shells, NEW cmd \in Commands, NEW r \in Runs, Type(s, cmd, r) PROVE FALSE
    <3>1. PICK c \in ShellCall(cmd, r) : op' = [op EXCEPT ![s] = c]
      BY <2>5 DEF Type
    <3> QED BY <1>0, <3>1 DEF OpSpace
  <2>6. ASSUME NEW v \in Workers, Accept(v) \/ Refuse(v) \/ Raise(v) PROVE op'[w].at = "idle"
    BY <1>0, <2>2, <2>6 DEF Accept, Refuse, Raise
  <2>7. ASSUME NEW v \in Workers, Sweep(v) \/ SweepRaises(v) PROVE FALSE
    BY <2>7 DEF Sweep, SweepRaises
  <2>8. ASSUME NEW a \in Actors, Kill(a) PROVE op'[w].at = "idle"
    BY <2>2, <2>8 DEF Kill
  <2>9. ASSUME NEW v \in Workers,
               \/ Compile(v) \/ CompileFails(v) \/ WriteIndex(v) \/ AppendEvent(v) \/ AskRunspec(v)
               \/ \E j \in Jobs : AskBlueprint(v, j) \/ AskSweep(v, j) \/ BeginSweep(v, j) \/ Finish(v, j)
        PROVE  FALSE
    BY <2>9 DEF Compile, CompileFails, WriteIndex, AppendEvent, AskRunspec, AskBlueprint, AskSweep,
       BeginSweep, Finish
  <2>10. ASSUME NEW j \in Jobs, NEW step \in Approvals[j], approve(j, step) PROVE FALSE
    BY <2>10 DEF approve
  <2> QED BY <2>3, <2>4, <2>5, <2>6, <2>7, <2>8, <2>9, <2>10 DEF Next, Continue, advance_job_once
<1> QED BY <1>2, <1>3, <1>4 DEF Cards, Promoting

(* What the files say of the runs, as RunRecord has it. *)
Published == {r \in Runs : dossier[r].there /\ FileName \subseteq dossier[r].files
                              /\ dossier[r].hashed = Hashed}
Recorded == [r \in Runs |-> IF trials[r] = <<>> THEN "none" ELSE Head(trials[r])]
Complete == {r \in Runs : card[r] = "json"}
Statuses == [r \in Runs |-> EffectiveStatus(r)]

(* The steps of RunRecord in these terms. *)
Publishes(r) ==
  /\ r \notin Published /\ Published' = Published \cup {r}
  /\ UNCHANGED <<results, Recorded, Complete, Statuses>>
Judges(r) ==
  /\ r \in Published /\ results[r] = "none"
  /\ \E v \in {"pass", "fail"} : results' = [results EXCEPT ![r] = v]
  /\ UNCHANGED <<Published, Recorded, Complete, Statuses>>
Records(r) ==
  /\ results[r] # "none" /\ Recorded' = [Recorded EXCEPT ![r] = results[r]]
  /\ UNCHANGED <<Published, results, Complete, Statuses>>
MakesCard(r) ==
  /\ Recorded[r] = "pass" /\ Complete' = Complete \cup {r}
  /\ UNCHANGED <<Published, results, Recorded, Statuses>>
Promotes(r) ==
  /\ r \in Complete /\ Statuses[r] \in DOMAIN TRANSITIONS
  /\ Statuses' = [Statuses EXCEPT ![r] = TRANSITIONS[Statuses[r]]]
  /\ UNCHANGED <<Published, results, Recorded, Complete>>

LEMMA RecordParts ==
  /\ UNCHANGED <<Published, results, Recorded, Complete, Statuses>> => UNCHANGED Record!vars
  /\ \A r \in Runs :
       Publishes(r) \/ Judges(r) \/ Records(r) \/ MakesCard(r) \/ Promotes(r) => Record!Next
<1> USE DEF Published, Recorded, Complete, Statuses
<1>1. UNCHANGED <<Published, results, Recorded, Complete, Statuses>> => UNCHANGED Record!vars
  BY DEF Record!vars
<1>2. ASSUME NEW r \in Runs, Publishes(r) PROVE Record!Publish(r)
  BY <1>2 DEF Publishes, Record!Publish
<1>3. ASSUME NEW r \in Runs, Judges(r) PROVE Record!Judge(r)
  BY <1>3 DEF Judges, Record!Judge
<1>4. ASSUME NEW r \in Runs, Records(r) PROVE Record!Record(r)
  BY <1>4 DEF Records, Record!Record
<1>5. ASSUME NEW r \in Runs, MakesCard(r) PROVE Record!MakeCard(r)
  BY <1>5 DEF MakesCard, Record!MakeCard
<1>6. ASSUME NEW r \in Runs, Promotes(r) PROVE Record!Promote(r)
  BY <1>6 DEF Promotes, Record!Promote, Record!TRANSITIONS, TRANSITIONS
<1> HIDE DEF Published, Recorded, Complete, Statuses
<1> QED BY <1>1, <1>2, <1>3, <1>4, <1>5, <1>6 DEF Record!Next

(* Every operation makes one of these steps, or one that is not seen. *)
LEMMA RecordStep ==
  ASSUME Composed = {}, AllowSkip = FALSE, StoreTypeOK, Sense, Faith, There, WrittenSoFar,
         DossierWhole, Cards, NEW a \in Actors, Operation(a)
  PROVE  Record!Next \/ UNCHANGED Record!vars
<1> USE DEF store
<1> DEFINE r == op[a].run
           Goal == Record!Next \/ UNCHANGED Record!vars
<1>0. r \in Runs /\ op[a] \in Op
  BY RunnerStep DEF Op
<1>1. dossier' = dossier => Published' = Published
  BY DEF Published
<1>2. trials' = trials => Recorded' = Recorded
  BY DEF Recorded
<1>3. card' = card => Complete' = Complete
  BY DEF Complete
<1>4. ~AppendPromoted(a) => Statuses' = Statuses
  BY StatusStays DEF Statuses
<1>5. CASE UNCHANGED <<dossier, results, trials, card>> /\ ~AppendPromoted(a)
  BY <1>1, <1>2, <1>3, <1>4, <1>5, RecordParts
<1>6. CASE Publish(a)
  <2>1. tmp[r].there /\ tmp[r].files = FileName /\ tmp[r].hashed = Hashed
    BY <1>6 DEF Publish, At, WrittenSoFar, Written
  <2>2. dossier' = [dossier EXCEPT ![r] = tmp[r]] /\ dossier[r].files = {}
    BY <1>6 DEF Publish
  <2>3. r \notin Published
    BY <2>2, FileNames DEF Published
  <2>4. Published' = Published \cup {r}
    BY <1>0, <2>1, <2>2 DEF Published, StoreTypeOK
  <2>5. ~AppendPromoted(a) /\ UNCHANGED <<results, trials, card>>
    BY <1>6 DEF Publish, AppendPromoted, At
  <2> QED BY <1>0, <1>2, <1>3, <1>4, <2>3, <2>4, <2>5, RecordParts DEF Publishes
<1>7. CASE PublishResults(a)
  <2>1. ~AppendPromoted(a) /\ UNCHANGED <<dossier, trials, card>>
    BY <1>7 DEF PublishResults, AppendPromoted, At
  <2>2. CASE results[r] # "none"
    <3>1. results'[r] = results[r]
      BY <1>0, <2>2, FaithStep DEF Keeps
    <3>2. results' = results
      BY <1>7, <3>1 DEF PublishResults, StoreTypeOK
    <3> QED BY <1>5, <2>1, <3>2
  <2>3. CASE results[r] = "none"
    <3>1. Readable(r)
      BY <1>7 DEF PublishResults, At, Faith, Sound
    <3>2. r \in Published
      BY <1>0, <3>1 DEF Readable, There, DossierWhole, Published
    <3>3. \E v \in {"pass", "fail"} : results' = [results EXCEPT ![r] = v]
      BY <1>7 DEF PublishResults
    <3> QED BY <1>0, <1>1, <1>2, <1>3, <1>4, <2>1, <2>3, <3>2, <3>3, RecordParts DEF Judges
  <2> QED BY <2>2, <2>3
<1>8. CASE AppendTrial(a)
  <2>1. ~AppendPromoted(a) /\ UNCHANGED <<dossier, results, card>>
    BY <1>8 DEF AppendTrial, AppendPromoted, At
  <2>2. trials' = [trials EXCEPT ![r] = Append(trials[r], op[a].found)]
    BY <1>8 DEF AppendTrial
  <2>3. op[a].found = results[r] /\ results[r] \in {"pass", "fail"}
    BY <1>8 DEF AppendTrial, At, Faith, Sound, Sense, Sensible
  <2>4. CASE trials[r] # <<>>
    <3>1. ASSUME NEW q \in Runs PROVE Recorded'[q] = Recorded[q]
      BY <1>0, <2>2, <2>4, TrialStays DEF Recorded, StoreTypeOK
    <3>2. Recorded' = Recorded
      BY <3>1 DEF Recorded
    <3> QED BY <1>1, <1>3, <1>4, <2>1, <3>2, RecordParts
  <2>5. CASE trials[r] = <<>>
    <3>1. trials'[r] # <<>> /\ Head(trials'[r]) = results[r]
      <4>1. trials'[r] = Append(<<>>, results[r])
        BY <1>0, <2>2, <2>3, <2>5 DEF StoreTypeOK
      <4> QED BY <4>1
    <3>2. \A q \in Runs \ {r} : trials'[q] = trials[q]
      BY <2>2 DEF StoreTypeOK
    <3>3. Recorded' = [Recorded EXCEPT ![r] = results[r]]
      BY <1>0, <3>1, <3>2 DEF Recorded
    <3> QED BY <1>0, <1>1, <1>3, <1>4, <2>1, <2>3, <3>3, RecordParts DEF Records
  <2> QED BY <2>4, <2>5
<1>9. CASE MakeCardDir(a)
  <2>1. ~AppendPromoted(a) /\ UNCHANGED <<dossier, results, trials>>
    BY <1>9 DEF MakeCardDir, AppendPromoted, At
  <2>2. Complete' = Complete
    BY <1>0, <1>9 DEF MakeCardDir, Complete, StoreTypeOK
  <2> QED BY <1>1, <1>2, <1>4, <2>1, <2>2, RecordParts
<1>10. CASE WriteCard(a)
  <2>1. ~AppendPromoted(a) /\ UNCHANGED <<dossier, results, trials>>
    BY <1>10 DEF WriteCard, AppendPromoted, At
  <2>2. Complete' = Complete \cup {r}
    BY <1>0, <1>10 DEF WriteCard, Complete, StoreTypeOK
  <2>3. Recorded[r] = "pass"
    BY <1>0, <1>10 DEF WriteCard, At, Cards, PassedTrial, Recorded
  <2> QED BY <1>0, <1>1, <1>2, <1>4, <2>1, <2>2, <2>3, RecordParts DEF MakesCard
<1>11. CASE AppendPromoted(a)
  <2> DEFINE v == op[a].found
  <2>0. PICK q \in Runs : op[a].run = q
    BY <1>0
  <2>1. UNCHANGED <<dossier, results, trials, card>>
    BY <1>11 DEF AppendPromoted
  <2>2. v \in ALLOWED_STATUSES /\ card[q] = "json"
    BY <1>11, <2>0 DEF AppendPromoted, At, Sense, Sensible, Faith, Sound
  <2>3. MayPromote(q, v)
    BY <1>11, <2>0, <2>2 DEF AppendPromoted, At, Cards, Promoting
  <2>4. EffectiveStatus(q) \in DOMAIN TRANSITIONS /\ v = TRANSITIONS[EffectiveStatus(q)]
    BY <2>3 DEF MayPromote
  <2>5. /\ EffectiveStatus(q)' = v
        /\ \A p \in Runs \ {q} : EffectiveStatus(p)' = EffectiveStatus(p)
    BY <1>11, <2>0, StatusChanges
  <2>6. Statuses[q] = EffectiveStatus(q) /\ q \in Complete
    BY <2>2 DEF Statuses, Complete
  <2>7. Statuses' = [Statuses EXCEPT ![q] = v]
    <3>1. Statuses' = [p \in Runs |-> EffectiveStatus(p)']
      BY DEF Statuses
    <3>2. Statuses' = [p \in Runs |-> IF p = q THEN v ELSE EffectiveStatus(p)]
      BY <2>5, <3>1, Zenon
    <3> QED BY <3>2, Zenon DEF Statuses
  <2> QED BY <1>1, <1>2, <1>3, <2>1, <2>4, <2>6, <2>7, RecordParts DEF Promotes
<1>12. CASE AddComponents(a)
  <2>1. UNCHANGED <<dossier, results, trials, card>> /\ ~AppendPromoted(a)
    BY <1>0, <1>12 DEF AddComponents, AppendPromoted, At
  <2> QED BY <1>5, <2>1
<1>13. ASSUME \/ JustReturns(a) \/ FindDossier(a) \/ OpenTmp(a) \/ WriteFile(a)
              \/ PublishFails(a) \/ RunGates(a) \/ WriteResults(a) \/ FindTrial(a)
              \/ FindCard(a) \/ AppendCreated(a) \/ ReadStatus(a)
       PROVE  Goal
  <2>1. UNCHANGED <<dossier, results, trials, card>>
    BY <1>13, ReturnStep, Zenon DEF FindDossier, OpenTmp, WriteFile, PublishFails, RunGates, WriteResults,
       FindTrial, FindCard, AppendCreated, ReadStatus
  <2>2. ~AppendPromoted(a)
    BY <1>13, Zenon DEF AppendPromoted, At, JustReturns, RunInvalid, RunRaises, ResultsThere,
       DossierUnreadable,
       ResultsGone, RecordRefused, TrialCollides, CardRefused, CardDirThere, FindDossier, OpenTmp,
       WriteFile, PublishFails, RunGates, WriteResults, FindTrial, FindCard, AppendCreated, ReadStatus
  <2> QED BY <1>5, <2>1, <2>2
<1> HIDE DEF Goal
<1> QED
  BY <1>6, <1>7, <1>8, <1>9, <1>10, <1>11, <1>12, <1>13
  DEF Operation, runner, gaterunner, record_trial, create_card_from_run, promote_card, JustReturns,
      Goal

(* With one worker and one command line, nobody typing "run" or skipping a  *)
(* status, the files of every run go the way of RunRecord whatever is       *)
(* killed: a dossier appears whole and once, is judged once, the trial says *)
(* how, a card follows a passed trial and goes through the statuses one by  *)
(* one.                                                                    *)
THEOREM FilesImplementRecord ==
  ASSUME Composed = {}, AllowSkip = FALSE, "run" \notin Commands,
         \A v, w \in Workers : v = w, \A s, t \in Shells : s = t
  PROVE  Spec => ImplementsRunRecord
<1> DEFINE Inv == /\ TypeOK /\ Sense /\ Faith /\ There /\ Asked /\ WrittenSoFar
                  /\ DossierWhole /\ Cards
<1>1. Init => Inv
  <2> SUFFICES ASSUME Init
               PROVE  Faith /\ There /\ Asked /\ WrittenSoFar /\ DossierWhole /\ Cards
    BY TypeInit
  <2>1. \A r \in Runs : /\ results[r] = "none" /\ trials[r] = <<>>
                        /\ card[r] = "none" /\ cardlog[r] = <<>>
    BY DEF Init, StoreInit
  <2>2. \A a \in Actors : op[a].at = "idle"
    BY DEF Init, StoreInit, Idle
  <2>3. Faith
    BY <2>1, <2>2 DEF Faith, Judged, Logged, Carded, Sound
  <2>4. Asked /\ WrittenSoFar /\ Cards
    BY <2>2, ActorsAssumption DEF Asked, RunnerPlace, WrittenSoFar, Cards, Promoting
  <2>5. There /\ DossierWhole
    BY DEF Init, StoreInit, There, DossierWhole, Absent
  <2> QED BY <2>3, <2>4, <2>5
<1>2. Init => Record!Init
  <2> SUFFICES ASSUME Init PROVE Record!Init
    OBVIOUS
  <2>1. ASSUME NEW r \in Runs
        PROVE  /\ ~dossier[r].there /\ results[r] = "none" /\ trials[r] = <<>>
               /\ card[r] = "none" /\ EffectiveStatus(r) = "draft"
    BY DEF Init, StoreInit, Absent, EffectiveStatus, Promotions
  <2>2. results = [r \in Runs |-> "none"]
    BY DEF Init, StoreInit
  <2> QED BY <2>1, <2>2 DEF Record!Init
<1>3. Inv /\ [Next]_vars => Inv' /\ [Record!Next]_(Record!vars)
  <2> SUFFICES ASSUME Inv, [Next]_vars PROVE Inv' /\ [Record!Next]_(Record!vars)
    OBVIOUS
  <2>0. StoreTypeOK
    BY DEF TypeOK
  <2>1. TypeOK' /\ Sense' /\ (Calls \/ \E a \in Actors : Operate(a)) /\ Asked'
    BY TypeStep, AskedStep
  <2>2. ASSUME NEW a \in Actors, Operate(a) PROVE Inv' /\ [Record!Next]_(Record!vars)
    <3>0. Operation(a)
      BY <2>2 DEF Operate
    <3>1. WrittenSoFar' /\ DossierWhole' /\ There' /\ Faith' /\ Cards'
      BY <2>0, <3>0, OneWriter, WholeStep, ThereStep, FaithStep, CardsStep
    <3>2. Record!Next \/ UNCHANGED Record!vars
      BY <2>0, <3>0, RecordStep
    <3> QED BY <2>1, <3>1, <3>2
  <2>3. ASSUME Calls, Cards' PROVE Inv' /\ [Record!Next]_(Record!vars)
    <3>1. \A b \in Actors : op'[b] = op[b] \/ op'[b].at \notin {"write", "publish"}
      <4>1. Idle.at \notin {"write", "publish"}
        BY DEF Idle
      <4>2. ASSUME NEW o, Fresh(o) PROVE o.at \notin {"write", "publish"}
        BY <4>2 DEF Fresh, Call
      <4> QED BY <2>3, <4>1, <4>2 DEF Calls
    <3>2. UNCHANGED store
      BY <2>3 DEF Calls
    <3>3. WrittenSoFar' /\ DossierWhole' /\ There'
      BY <3>1, <3>2 DEF store, WrittenSoFar, Written, DossierWhole, There
    <3>4. UNCHANGED <<Published, results, Recorded, Complete, Statuses>>
      BY <3>2 DEF store, Published, Recorded, Complete, Statuses, EffectiveStatus, Promotions
    <3> QED BY <2>1, <2>3, <3>3, <3>4, FaithCalls, RecordParts
  <2>4. CASE Calls /\ Next /\ ~ \E a \in Actors : Operate(a)
    BY <2>3, <2>4, CardsCalls
  <2>5. CASE UNCHANGED vars
    <3>1. Calls /\ UNCHANGED <<store, op>>
      BY <2>5, NoCalls DEF vars
    <3>2. Cards'
      <4>1. ASSUME NEW r \in Runs, NEW v PROVE MayPromote(r, v)' <=> MayPromote(r, v)
        BY <3>1 DEF store, MayPromote, EffectiveStatus, Promotions
      <4>2. ASSUME NEW b \in Actors PROVE PassedTrial(op[b].run)' <=> PassedTrial(op[b].run)
        BY <3>1 DEF store, PassedTrial
      <4> QED BY <3>1, <4>1, <4>2 DEF Cards, Promoting
    <3> QED BY <2>3, <3>1, <3>2
  <2> QED BY <2>1, <2>2, <2>4, <2>5
<1> HIDE DEF Inv
<1> QED BY <1>1, <1>2, <1>3, PTL DEF Spec, ImplementsRunRecord, Record!Spec
=============================================================================
