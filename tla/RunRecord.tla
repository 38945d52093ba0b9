------------------------------ MODULE RunRecord ------------------------------
(***************************************************************************)
(* What the artifact store promises of a run, without files and processes: *)
(* evidence is published whole, judged once, recorded as it was judged; a  *)
(* run that passed may get a card, and a card moves from one status to the *)
(* next.                                                                   *)
(***************************************************************************)
EXTENDS Naturals

CONSTANT Runs

Status == {"draft", "challenger", "champion", "retired"}
TRANSITIONS == [draft |-> "challenger", challenger |-> "champion", champion |-> "retired"]

VARIABLES
  published,  \* runs whose dossier is there
  verdict,    \* what gate_results.json says of each run
  recorded,   \* what the trial log says of each run
  carded,     \* runs with an experience card
  status      \* of the card

vars == <<published, verdict, recorded, carded, status>>

Publish(r) ==
  /\ r \notin published
  /\ published' = published \cup {r}
  /\ UNCHANGED <<verdict, recorded, carded, status>>

Judge(r) ==
  /\ r \in published
  /\ verdict[r] = "none"
  /\ \E v \in {"pass", "fail"} : verdict' = [verdict EXCEPT ![r] = v]
  /\ UNCHANGED <<published, recorded, carded, status>>

Record(r) ==
  /\ verdict[r] # "none"
  /\ recorded' = [recorded EXCEPT ![r] = verdict[r]]
  /\ UNCHANGED <<published, verdict, carded, status>>

MakeCard(r) ==
  /\ recorded[r] = "pass"
  /\ carded' = carded \cup {r}
  /\ UNCHANGED <<published, verdict, recorded, status>>

Promote(r) ==
  /\ r \in carded
  /\ status[r] \in DOMAIN TRANSITIONS
  /\ status' = [status EXCEPT ![r] = TRANSITIONS[@]]
  /\ UNCHANGED <<published, verdict, recorded, carded>>

Init ==
  /\ published = {}
  /\ verdict = [r \in Runs |-> "none"]
  /\ recorded = [r \in Runs |-> "none"]
  /\ carded = {}
  /\ status = [r \in Runs |-> "draft"]

Next == \E r \in Runs : Publish(r) \/ Judge(r) \/ Record(r) \/ MakeCard(r) \/ Promote(r)
Spec == Init /\ [][Next]_vars
=============================================================================
