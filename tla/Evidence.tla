------------------------------ MODULE Evidence ------------------------------
(***************************************************************************)
(* The artifact store: dossiers, gate results, the trial log and the       *)
(* experience cards, and the operations that write them (runner/run.py,    *)
(* dossier/writer.py, gaterunner/run.py, registry/triallog.py,             *)
(* registry/cards.py).                                                     *)
(*                                                                         *)
(* An operation is a function of the program, called by the worker or from *)
(* a command line; it looks whether its result is there, prepares it and   *)
(* puts it in place, in separate accesses to files that other actors see.  *)
(* Nothing is locked.  A dossier is named by the hash of its run spec, so  *)
(* two callers with the same spec work on the same directory.              *)
(***************************************************************************)
EXTENDS Naturals, Sequences, FiniteSets

CONSTANTS
  Actors,        \* processes: the worker and command lines
  Runs,          \* run ids
  Composed,      \* runs of the curve composer
  AllowSkip      \* promote-card --allow-skip

ASSUME ComposedAssumption == Composed \subseteq Runs

(* The files of a dossier in the order of the writer, and the order of the *)
(* statuses of a card.                                                     *)
Artifacts == <<"config_snapshot", "metrics", "curve">>
Files == <<"config_snapshot", "metrics", "curve", "dossier_manifest">>
FileName == {Files[i] : i \in DOMAIN Files}
Hashed == {Artifacts[i] : i \in DOMAIN Artifacts}
ALLOWED_STATUSES == {"draft", "challenger", "champion", "retired"}
TRANSITIONS == [draft |-> "challenger", challenger |-> "champion", champion |-> "retired"]

VARIABLES
  merit,     \* what running and judging whole evidence of a run comes to
  tmp,       \* .tmp_<run id>, shared by all writers of the run
  dossier,   \* the published directory
  gtmp,      \* .tmp_gate_results.json is there
  results,   \* gate_results.json
  trials,    \* the entries of the run in trial_log.jsonl
  card,      \* the directory of the card and card_v1.json in it
  cardlog,   \* its events.jsonl: CREATED, or the new status of a PROMOTED
  op         \* the operation each actor is in

store == <<tmp, dossier, gtmp, results, trials, card, cardlog>>

Absent == [there |-> FALSE, files |-> {}, hashed |-> {}]
Empty == [there |-> TRUE, files |-> {}, hashed |-> {}]
Directory == [there : BOOLEAN, files : SUBSET (FileName \cup {"components"}),
              hashed : SUBSET Hashed]

(* A run that is turned down or that raises comes to no dossier. *)
NotRun == {"unrunnable", "raises"}
Merit == NotRun \cup {"invalid", "fail", "pass"}
Idle == [at |-> "idle"]
Op == [at : {"exists", "open", "write", "publish", "components", "judge", "gtmp",
             "gpublish", "look", "append", "trial", "mkdir", "json", "created",
             "status", "promote", "reply"},
       run : Runs, next : Nat, noop : BOOLEAN,
       found : Merit \cup ALLOWED_STATUSES \cup {"none"},
       reply : {"none", "ok", "noop", "pass", "fail", "invalid", "refused", "raised"}]

StoreTypeOK ==
  /\ merit \in [Runs -> Merit]
  /\ tmp \in [Runs -> Directory]
  /\ dossier \in [Runs -> Directory]
  /\ gtmp \in [Runs -> BOOLEAN]
  /\ results \in [Runs -> {"none", "pass", "fail"}]
  /\ trials \in [Runs -> Seq({"pass", "fail"})]
  /\ card \in [Runs -> {"none", "dir", "json"}]
  /\ cardlog \in [Runs -> Seq(ALLOWED_STATUSES \cup {"CREATED"})]
  /\ op \in [Actors -> Op \cup {Idle}]

StoreInit ==
  /\ merit \in [Runs -> Merit]
  /\ tmp = [r \in Runs |-> Absent]
  /\ dossier = [r \in Runs |-> Absent]
  /\ gtmp = [r \in Runs |-> FALSE]
  /\ results = [r \in Runs |-> "none"]
  /\ trials = [r \in Runs |-> <<>>]
  /\ card = [r \in Runs |-> "none"]
  /\ cardlog = [r \in Runs |-> <<>>]
  /\ op = [a \in Actors |-> Idle]

-----------------------------------------------------------------------------
At(a, place) == op[a].at = place
Call(place, r, noop, s) ==
  [at |-> place, run |-> r, next |-> 1, noop |-> noop, found |-> s, reply |-> "none"]
Goto(a, place) == op' = [op EXCEPT ![a].at = place]
Return(a, v) ==
  op' = [op EXCEPT ![a] = [Call("reply", op[a].run, FALSE, "none") EXCEPT !.reply = v]]

Whole(r) ==
  /\ FileName \subseteq dossier[r].files
  /\ dossier[r].hashed = Hashed
  /\ r \in Composed => "components" \in dossier[r].files

-----------------------------------------------------------------------------
(* Runner: run_once up to the dossier writer                               *)

(* The run spec, its policies and the back test are checked first ... *)
RunInvalid(a) ==
  /\ At(a, "exists")
  /\ merit[op[a].run] = "unrunnable"
  /\ Return(a, "invalid")
  /\ UNCHANGED <<store, merit>>

(* ... but a snapshot that is missing, or a policy document that cannot be  *)
(* read, is an exception nobody there catches.                              *)
RunRaises(a) ==
  /\ At(a, "exists")
  /\ merit[op[a].run] = "raises"
  /\ Return(a, "raised")
  /\ UNCHANGED <<store, merit>>

(* A dossier that is there is reused, whatever is in it. *)
FindDossier(a) ==
  /\ At(a, "exists")
  /\ merit[op[a].run] \notin NotRun
  /\ Goto(a, IF dossier[op[a].run].there THEN "components" ELSE "open")
  /\ UNCHANGED <<store, merit>>

(* Slip: go on with what an earlier writer has left. *)
KeepTmp(a) ==
  /\ At(a, "open")
  /\ tmp' = [tmp EXCEPT ![op[a].run].there = TRUE]
  /\ op' = [op EXCEPT ![a] = [@ EXCEPT !.at = "write",
       !.next = IF Hashed \subseteq tmp[op[a].run].files THEN 1
                ELSE Cardinality(tmp[op[a].run].files \cap Hashed) + 2]]
  /\ UNCHANGED <<dossier, gtmp, results, trials, card, cardlog, merit>>

(* Remove what an earlier writer has left, and begin again. *)
OpenTmp(a) ==
  /\ At(a, "open")
  /\ tmp' = [tmp EXCEPT ![op[a].run] = Empty]
  /\ Goto(a, "write")
  /\ UNCHANGED <<dossier, gtmp, results, trials, card, cardlog, merit>>

(* The next file; its directory is made again if it has disappeared.  The   *)
(* manifest comes last, with the hashes of the artifacts it finds.          *)
WriteFile(a) ==
  /\ At(a, "write")
  /\ LET t == tmp[op[a].run]
         f == Files[op[a].next]
     IN tmp' = [tmp EXCEPT ![op[a].run] =
          [there |-> TRUE, files |-> t.files \cup {f},
           hashed |-> IF f = "dossier_manifest" THEN t.files \cap Hashed ELSE t.hashed]]
  /\ op' = [op EXCEPT ![a] = [@ EXCEPT
       !.at = IF op[a].next = Len(Files) THEN "publish" ELSE "write",
       !.next = IF op[a].next = Len(Files) THEN 1 ELSE op[a].next + 1]]
  /\ UNCHANGED <<dossier, gtmp, results, trials, card, cardlog, merit>>

(* A directory can be renamed to one that is missing or empty. *)
Publish(a) ==
  LET r == op[a].run IN
  /\ At(a, "publish")
  /\ tmp[r].there
  /\ dossier[r].files = {}
  /\ dossier' = [dossier EXCEPT ![r] = tmp[r]]
  /\ tmp' = [tmp EXCEPT ![r] = Absent]
  /\ Goto(a, "components")
  /\ UNCHANGED <<gtmp, results, trials, card, cardlog, merit>>

PublishFails(a) ==
  LET r == op[a].run IN
  /\ At(a, "publish")
  /\ ~tmp[r].there \/ dossier[r].files # {}
  /\ tmp' = [tmp EXCEPT ![r] = Absent]
  /\ Return(a, "raised")
  /\ UNCHANGED <<dossier, gtmp, results, trials, card, cardlog, merit>>

(* The composer adds a file to the published dossier if it is not there.    *)
AddComponents(a) ==
  LET r == op[a].run IN
  /\ At(a, "components")
  /\ dossier' = IF r \in Composed
                THEN [dossier EXCEPT ![r].files = @ \cup {"components"}]
                ELSE dossier
  /\ Return(a, IF "dossier_manifest" \in dossier[r].files THEN "ok" ELSE "invalid")
  /\ UNCHANGED <<tmp, gtmp, results, trials, card, cardlog, merit>>

-----------------------------------------------------------------------------
(* Gate runner: run_once                                                   *)


ResultsThere(a) ==
  /\ At(a, "judge")
  /\ results[op[a].run] # "none"
  /\ Return(a, "noop")
  /\ UNCHANGED <<store, merit>>

DossierUnreadable(a) ==
  /\ At(a, "judge")
  /\ results[op[a].run] = "none"
  /\ ~({"dossier_manifest", "config_snapshot", "metrics"} \subseteq dossier[op[a].run].files)
  /\ Return(a, "raised")
  /\ UNCHANGED <<store, merit>>

(* Gates are deterministic; those that miss an artifact do not pass. *)
RunGates(a) ==
  LET r == op[a].run IN
  /\ At(a, "judge")
  /\ results[r] = "none"
  /\ {"dossier_manifest", "config_snapshot", "metrics"} \subseteq dossier[r].files
  /\ \E v \in IF Whole(r) THEN {merit[r]} ELSE {"fail", "invalid"} :
       op' = [op EXCEPT ![a] = [@ EXCEPT !.at = "gtmp", !.found = v]]
  /\ UNCHANGED <<store, merit>>

WriteResults(a) ==
  /\ At(a, "gtmp")
  /\ gtmp' = [gtmp EXCEPT ![op[a].run] = TRUE]
  /\ Goto(a, "gpublish")
  /\ UNCHANGED <<tmp, dossier, results, trials, card, cardlog, merit>>

(* Slip: an INVALID verdict is in the file as such. *)
PublishVerdict(a) ==
  LET r == op[a].run IN
  /\ At(a, "gpublish")
  /\ gtmp[r]
  /\ gtmp' = [gtmp EXCEPT ![r] = FALSE]
  /\ results' = [results EXCEPT ![r] = op[a].found]
  /\ Return(a, op[a].found)
  /\ UNCHANGED <<tmp, dossier, trials, card, cardlog, merit>>

(* An INVALID verdict is in the file as a failure. *)
PublishResults(a) ==
  LET r == op[a].run IN
  /\ At(a, "gpublish")
  /\ gtmp[r]
  /\ gtmp' = [gtmp EXCEPT ![r] = FALSE]
  /\ results' = [results EXCEPT ![r] = IF op[a].found = "pass" THEN "pass" ELSE "fail"]
  /\ Return(a, op[a].found)
  /\ UNCHANGED <<tmp, dossier, trials, card, cardlog, merit>>

(* Another gate runner has renamed the temporary file away. *)
ResultsGone(a) ==
  /\ At(a, "gpublish")
  /\ ~gtmp[op[a].run]
  /\ \E v \in {"invalid", "raised"} : Return(a, v)
  /\ UNCHANGED <<store, merit>>

-----------------------------------------------------------------------------
(* Registry: record_trial                                                  *)

RecordRefused(a) ==
  LET r == op[a].run IN
  /\ At(a, "look")
  /\ \/ ~({"dossier_manifest", "config_snapshot"} \subseteq dossier[r].files)
     \/ results[r] = "none"
  /\ Return(a, "refused")
  /\ UNCHANGED <<store, merit>>

(* Slip: the trial is recorded as the runner left it, judged or not. *)
FindTrialUnjudged(a) ==
  LET r == op[a].run IN
  /\ At(a, "look")
  /\ {"dossier_manifest", "config_snapshot"} \subseteq dossier[r].files
  /\ IF trials[r] # <<>>
     THEN Return(a, Head(trials[r]))
     ELSE op' = [op EXCEPT ![a] = [@ EXCEPT !.at = "append",
                   !.found = IF results[r] = "none" THEN "pass" ELSE results[r]]]
  /\ UNCHANGED <<store, merit>>

(* The first entry of the run is its trial. *)
FindTrial(a) ==
  LET r == op[a].run IN
  /\ At(a, "look")
  /\ {"dossier_manifest", "config_snapshot"} \subseteq dossier[r].files
  /\ results[r] # "none"
  /\ IF trials[r] # <<>>
     THEN Return(a, Head(trials[r]))
     ELSE op' = [op EXCEPT ![a] = [@ EXCEPT !.at = "append", !.found = results[r]]]
  /\ UNCHANGED <<store, merit>>

AppendTrial(a) ==
  LET r == op[a].run IN
  /\ At(a, "append")
  /\ trials' = [trials EXCEPT ![r] = Append(@, op[a].found)]
  /\ Return(a, op[a].found)
  /\ UNCHANGED <<tmp, dossier, gtmp, results, card, cardlog, merit>>

(* Two recorders check their entries in one .tmp_trial_event.json. *)
TrialCollides(a) ==
  /\ At(a, "append")
  /\ \E b \in Actors \ {a} : At(b, "append")
  /\ Return(a, "refused")
  /\ UNCHANGED <<store, merit>>

-----------------------------------------------------------------------------
(* Registry: create_card_from_run, promote_card                            *)

PassedTrial(r) == trials[r] # <<>> /\ Head(trials[r]) = "pass"

CardRefused(a) ==
  LET r == op[a].run IN
  /\ At(a, "trial")
  /\ ~PassedTrial(r) \/ (card[r] = "json" /\ ~op[a].noop)
  /\ Return(a, "refused")
  /\ UNCHANGED <<store, merit>>

FindCard(a) ==
  LET r == op[a].run IN
  /\ At(a, "trial")
  /\ PassedTrial(r)
  /\ card[r] = "json" => op[a].noop
  /\ IF card[r] = "json" THEN Return(a, "ok") ELSE Goto(a, "mkdir")
  /\ UNCHANGED <<store, merit>>

MakeCardDir(a) ==
  /\ At(a, "mkdir")
  /\ card[op[a].run] = "none"
  /\ card' = [card EXCEPT ![op[a].run] = "dir"]
  /\ Goto(a, "json")
  /\ UNCHANGED <<tmp, dossier, gtmp, results, trials, cardlog, merit>>

(* FileExistsError: another creator is at work, or one was killed here.     *)
CardDirThere(a) ==
  /\ At(a, "mkdir")
  /\ card[op[a].run] # "none"
  /\ Return(a, "raised")
  /\ UNCHANGED <<store, merit>>

WriteCard(a) ==
  /\ At(a, "json")
  /\ card' = [card EXCEPT ![op[a].run] = "json"]
  /\ Goto(a, "created")
  /\ UNCHANGED <<tmp, dossier, gtmp, results, trials, cardlog, merit>>

AppendCreated(a) ==
  /\ At(a, "created")
  /\ cardlog' = [cardlog EXCEPT ![op[a].run] = Append(@, "CREATED")]
  /\ Return(a, "ok")
  /\ UNCHANGED <<tmp, dossier, gtmp, results, trials, card, merit>>

(* _compute_effective_status: the last promotion counts. *)
Promotions(r) == {i \in DOMAIN cardlog[r] : cardlog[r][i] # "CREATED"}
EffectiveStatus(r) ==
  IF Promotions(r) = {} THEN "draft"
  ELSE cardlog[r][CHOOSE i \in Promotions(r) : \A k \in Promotions(r) : k <= i]

(* Slip: any later status will do. *)
MayPromoteAnywhere(r, s) == s # EffectiveStatus(r)

MayPromote(r, s) ==
  AllowSkip \/ (EffectiveStatus(r) \in DOMAIN TRANSITIONS /\ s = TRANSITIONS[EffectiveStatus(r)])

ReadStatus(a) ==
  LET r == op[a].run IN
  /\ At(a, "status")
  /\ IF card[r] = "json" /\ MayPromote(r, op[a].found)
     THEN Goto(a, "promote")
     ELSE Return(a, "refused")
  /\ UNCHANGED <<store, merit>>

AppendPromoted(a) ==
  /\ At(a, "promote")
  /\ cardlog' = [cardlog EXCEPT ![op[a].run] = Append(@, op[a].found)]
  /\ Return(a, "ok")
  /\ UNCHANGED <<tmp, dossier, gtmp, results, trials, card, merit>>

-----------------------------------------------------------------------------
runner(a) ==
  \/ RunInvalid(a) \/ RunRaises(a) \/ FindDossier(a) \/ OpenTmp(a) \/ WriteFile(a)
  \/ Publish(a) \/ PublishFails(a) \/ AddComponents(a)
gaterunner(a) ==
  \/ ResultsThere(a) \/ DossierUnreadable(a) \/ RunGates(a)
  \/ WriteResults(a) \/ PublishResults(a) \/ ResultsGone(a)
record_trial(a) ==
  RecordRefused(a) \/ FindTrial(a) \/ AppendTrial(a) \/ TrialCollides(a)
create_card_from_run(a) ==
  \/ CardRefused(a) \/ FindCard(a) \/ MakeCardDir(a) \/ CardDirThere(a)
  \/ WriteCard(a) \/ AppendCreated(a)
promote_card(a) == ReadStatus(a) \/ AppendPromoted(a)

Operation(a) ==
  runner(a) \/ gaterunner(a) \/ record_trial(a) \/ create_card_from_run(a) \/ promote_card(a)
=============================================================================
