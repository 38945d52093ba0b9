--------------------------- MODULE ParamSweepProofs ---------------------------
(***************************************************************************)
(* Proofs about the parameter sweep, for every grid, every outcome of its  *)
(* points, all limits and any number of crashes.                           *)
(*                                                                         *)
(* What is inductive is that a process that stands at position i of the    *)
(* grid has all positions before i in the log (Place).  Together with the  *)
(* order of the log this makes the position of a new trial greater than    *)
(* that of every earlier one: a trial further on would have left the point *)
(* at i in the log, and the process would have skipped it.                 *)
(***************************************************************************)
EXTENDS ParamSweep, OrderingProofs, TLAPS

Places == {"idle", "next", "gates", "append", "stop", "rank", "index", "return"}
Metrics == Int \cup {NoMetric}
Process == [at : Places, i : Nat, tried : Nat, best : Metrics, streak : Nat, passed : BOOLEAN]

(* The part of TypeOK that the other parts need. *)
Types ==
  /\ outcome \in [Points -> Outcomes]
  /\ knobs \in Knobs
  /\ trials \in Seq(Trial)
  /\ proc \in Process

(* Where a process is in the grid, and what it knows there. *)
Place ==
  /\ proc.i >= 1
  /\ proc.tried = proc.i - 1
  /\ \A i \in 1..(proc.i - 1) : i \in DOMAIN Combos => Combos[i] \in Recorded
  /\ proc.at \in {"gates", "append"} =>
       /\ proc.i \in DOMAIN Combos
       /\ proc.tried < MaxTrials(knobs)
       /\ Point \notin Recorded
       /\ outcome[Point].run = "completed"
  /\ proc.at = "append" => Point \in judged /\ (proc.passed => outcome[Point].pass)

(* The k-th trial is at the k-th position or later, within the limits. *)
LogBound ==
  \A k \in DOMAIN trials :
    /\ trials[k].index \in DOMAIN Combos
    /\ k <= trials[k].index
    /\ trials[k].index <= MaxTrials(knobs)

(* Only a process that has nothing more to rank is there with a leaderboard. *)
Ranked == leaderboard.there => proc.at \in {"idle", "index", "return"}

Inv == Types /\ Place /\ GridOrder /\ LogBound /\ NoFalsePass /\ Ranked

-----------------------------------------------------------------------------
(* MaxTrials is a number, and no greater than a limit that is set. *)
LEMMA MaxTrialsBounds ==
  ASSUME NEW k \in Knobs
  PROVE  /\ MaxTrials(k) \in Nat
         /\ k.proposals > 0 => MaxTrials(k) <= k.proposals
         /\ k.trials > 0 => MaxTrials(k) <= k.trials
<1> DEFINE Limits == {Len(Combos), k.proposals, k.trials}
           Least(n) == /\ n > 0 \/ n = Len(Combos)
                       /\ \A o \in Limits : o > 0 => n <= o
<1>1. Len(Combos) \in Nat /\ k.proposals \in Nat /\ k.trials \in Nat
  BY GridAssumption, KnobsAssumption
<1>2. \E n \in Limits : Least(n)
  <2>1. CASE Len(Combos) = 0
    BY <2>1, <1>1
  <2>2. CASE Len(Combos) > 0
    <3> DEFINE p == IF k.proposals > 0 /\ k.proposals < Len(Combos) THEN k.proposals ELSE Len(Combos)
               t == IF k.trials > 0 /\ k.trials < p THEN k.trials ELSE p
    <3>1. Least(t) /\ t \in Limits
      BY <1>1, <2>2
    <3> QED BY <3>1
  <2> QED BY <1>1, <2>1, <2>2
<1>3. MaxTrials(k) = CHOOSE n \in Limits : Least(n)
  BY DEF MaxTrials
<1>4. MaxTrials(k) \in Limits /\ Least(MaxTrials(k))
  BY <1>2, <1>3
<1> QED BY <1>1, <1>4

(* A trial that is appended for a point the log does not have keeps the     *)
(* order of the log.                                                        *)
LEMMA AppendKeepsOrder ==
  ASSUME Types, Place, GridOrder, LogBound,
         proc.i \in DOMAIN Combos, proc.tried < MaxTrials(knobs), Point \notin Recorded,
         NEW t \in Trial, t.point = Point, t.index = proc.i,
         trials' = Append(trials, t), UNCHANGED knobs
  PROVE  /\ GridOrder' /\ LogBound'
         /\ Recorded' = Recorded \cup {Point}
<1> DEFINE n == Len(trials)
<1> USE GridAssumption
<1>1. /\ n \in Nat /\ DOMAIN trials = 1..n /\ DOMAIN trials' = 1..(n + 1)
      /\ \A k \in 1..n : trials'[k] = trials[k] /\ trials[k] \in Trial
      /\ trials'[n + 1] = t
  BY DEF Types
<1>2. /\ proc.i \in Nat /\ proc.tried \in Nat /\ DOMAIN Combos = 1..Len(Combos)
      /\ MaxTrials(knobs) \in Nat /\ Len(Combos) \in Nat
  BY MaxTrialsBounds DEF Types, Process
<1>3. \A k \in 1..n : trials[k].index < proc.i /\ trials[k].point # Point
  <2> SUFFICES ASSUME NEW k \in 1..n PROVE trials[k].index < proc.i /\ trials[k].point # Point
    OBVIOUS
  <2>1. trials[k].point # Point
    BY <1>1 DEF Recorded
  <2>2. trials[k].index \in Nat
    BY <1>1 DEF Trial
  <2>3. ~(proc.i <= trials[k].index)
    <3> SUFFICES ASSUME proc.i <= trials[k].index PROVE FALSE
      OBVIOUS
    <3>1. PICK l \in 1..k : trials[l].point = Combos[proc.i]
      BY <1>1, <1>2, <2>2 DEF GridOrder
    <3>2. l \in DOMAIN trials
      BY <1>1
    <3> QED BY <3>1, <3>2 DEF Recorded, Point
  <2> QED BY <1>2, <2>1, <2>2, <2>3
<1>4. GridOrder'
  <2> SUFFICES ASSUME NEW k \in 1..(n + 1)
               PROVE  /\ trials'[k].point = Combos[trials'[k].index]
                      /\ \A l \in 1..(k - 1) : trials'[l].index < trials'[k].index
                                                 /\ trials'[l].point # trials'[k].point
                      /\ \A i \in 1..trials'[k].index : \E l \in 1..k : trials'[l].point = Combos[i]
    BY <1>1 DEF GridOrder
  <2>1. CASE k \in 1..n
    <3>1. /\ trials[k].point = Combos[trials[k].index]
          /\ \A l \in 1..(k - 1) : trials[l].index < trials[k].index /\ trials[l].point # trials[k].point
          /\ \A i \in 1..trials[k].index : \E l \in 1..k : trials[l].point = Combos[i]
      BY <1>1, <2>1 DEF GridOrder
    <3>2. \A l \in 1..k : l \in 1..n
      BY <1>1, <2>1
    <3>3. \A l \in 1..(k - 1) : l \in 1..n
      BY <1>1, <2>1
    <3>4. \A l \in 1..k : trials'[l] = trials[l]
      BY <1>1, <3>2
    <3>5. \A i \in 1..trials'[k].index : \E l \in 1..k : trials'[l].point = Combos[i]
      BY <1>1, <2>1, <3>1, <3>4
    <3> QED BY <1>1, <2>1, <3>1, <3>3, <3>5
  <2>2. CASE k = n + 1
    <3>1. trials'[k].point = Combos[trials'[k].index]
      BY <1>1, <2>2 DEF Point
    <3>2. \A l \in 1..(k - 1) : trials'[l].index < trials'[k].index /\ trials'[l].point # trials'[k].point
      BY <1>1, <1>3, <2>2
    <3>3. ASSUME NEW i \in 1..proc.i PROVE \E l \in 1..k : trials'[l].point = Combos[i]
      <4>1. CASE i = proc.i
        BY <1>1, <2>2, <4>1 DEF Point
      <4>2. CASE i # proc.i
        <5>1. i \in 1..(proc.i - 1) /\ i \in DOMAIN Combos
          BY <1>2, <4>2
        <5>2. PICK l \in DOMAIN trials : trials[l].point = Combos[i]
          BY <5>1 DEF Place, Recorded
        <5> QED BY <1>1, <2>2, <5>2
      <4> QED BY <4>1, <4>2
    <3> QED BY <1>1, <2>2, <3>1, <3>2, <3>3
  <2> QED BY <1>1, <2>1, <2>2
<1>5. LogBound'
  <2>1. ASSUME NEW k \in 1..(n + 1)
        PROVE  /\ trials'[k].index \in DOMAIN Combos
               /\ k <= trials'[k].index /\ trials'[k].index <= MaxTrials(knobs)
    <3>1. CASE k \in 1..n
      BY <1>1, <3>1 DEF LogBound
    <3>2. CASE k = n + 1
      <4>1. n + 1 <= proc.i
        <5>1. CASE n = 0
          BY <5>1, <1>2 DEF Place
        <5>2. CASE n > 0
          <6>1. n \in 1..n
            BY <5>2, <1>1
          <6>2. n <= trials[n].index /\ trials[n].index < proc.i /\ trials[n].index \in Nat
            BY <6>1, <1>1, <1>3 DEF LogBound, Trial
          <6> QED BY <6>2, <1>1, <1>2
        <5> QED BY <5>1, <5>2, <1>1
      <4>2. proc.i <= MaxTrials(knobs)
        BY <1>2 DEF Place
      <4> QED BY <1>1, <3>2, <4>1, <4>2
    <3> QED BY <1>1, <3>1, <3>2
  <2> QED BY <1>1, <2>1 DEF LogBound
<1>6. Recorded' = Recorded \cup {Point}
  <2>1. ASSUME NEW p \in Recorded' PROVE p \in Recorded \cup {Point}
    <3>1. PICK k \in 1..(n + 1) : trials'[k].point = p
      BY <1>1, <2>1 DEF Recorded
    <3>2. CASE k \in 1..n
      BY <1>1, <3>1, <3>2 DEF Recorded
    <3>3. CASE k = n + 1
      BY <1>1, <3>1, <3>3
    <3> QED BY <1>1, <3>2, <3>3
  <2>2. ASSUME NEW p \in Recorded PROVE p \in Recorded'
    <3>1. PICK k \in 1..n : trials[k].point = p
      BY <1>1, <2>2 DEF Recorded
    <3>2. k \in 1..(n + 1) /\ trials'[k].point = p
      BY <1>1, <3>1
    <3> QED BY <1>1, <3>2 DEF Recorded
  <2>3. Point \in Recorded'
    <3>1. n + 1 \in DOMAIN trials' /\ trials'[n + 1].point = Point
      BY <1>1
    <3> QED BY <3>1 DEF Recorded
  <2> QED BY <2>1, <2>2, <2>3
<1> QED BY <1>4, <1>5, <1>6

-----------------------------------------------------------------------------
(* A process that has just been started is in its place. *)
LEMMA IdlePlace ==
  ASSUME proc' = Idle \/ proc' = [Idle EXCEPT !.at = "next"]
  PROVE  proc' \in Process /\ Place' /\ proc'.at \in {"idle", "next"}
<1>1. proc' \in Process /\ proc'.i = 1 /\ proc'.tried = 0 /\ proc'.at \in {"idle", "next"}
  <2>1. CASE proc' = Idle
    BY <2>1 DEF Idle, Process, Places, Metrics
  <2>2. CASE proc' = [Idle EXCEPT !.at = "next"]
    BY <2>2 DEF Idle, Process, Places, Metrics
  <2> QED BY <2>1, <2>2
<1>2. \A i \in 1..(proc'.i - 1) : FALSE
  BY <1>1
<1> QED BY <1>1, <1>2 DEF Place

(* The invariant holds before the first step. *)
LEMMA InitInv == Init => Inv
<1> SUFFICES ASSUME Init PROVE Inv
  OBVIOUS
<1>1. trials = <<>> /\ DOMAIN trials = {} /\ proc.at = "idle" /\ ~leaderboard.there
  BY DEF Init, Idle, NoLeaderboard
<1>2. Types
  BY <1>1 DEF Init, Types, Idle, Process, Places, Metrics
<1>3. Place
  <2>1. proc.i = 1 /\ proc.tried = 0
    BY DEF Init, Idle
  <2>2. \A i \in 1..(proc.i - 1) : FALSE
    BY <2>1
  <2> QED BY <1>1, <2>1, <2>2 DEF Place
<1> QED BY <1>1, <1>2, <1>3 DEF Inv, GridOrder, LogBound, NoFalsePass, Ranked

(* A process that leaves the log alone and does not move in the grid keeps  *)
(* the invariant, if what it knows at its new place is true.                *)
LEMMA StayInv ==
  ASSUME Inv, UNCHANGED <<outcome, knobs, trials>>, judged \subseteq judged',
         proc' \in Process, proc'.i = proc.i, proc'.tried = proc.tried,
         proc'.at \in {"gates", "append"} =>
           Room \/ proc.at \in {"gates", "append"},
         proc'.at \in {"gates", "append"} => Point \notin Recorded /\ outcome[Point].run = "completed",
         proc'.at = "append" => Point \in judged' /\ (proc'.passed => outcome[Point].pass),
         leaderboard'.there => proc'.at \in {"idle", "index", "return"}
  PROVE  Inv'
<1>1. Types'
  BY DEF Inv, Types
<1>2. Point' = Point /\ Recorded' = Recorded
  BY DEF Point, Recorded
<1>3. Place'
  <2>1. proc'.at \in {"gates", "append"} => proc.i \in DOMAIN Combos /\ proc.tried < MaxTrials(knobs)
    BY GridAssumption DEF Inv, Place, Room, Types, Process
  <2> QED BY <1>2, <2>1 DEF Place, Inv
<1>4. GridOrder' /\ LogBound' /\ NoFalsePass' /\ Ranked'
  BY DEF Inv, GridOrder, LogBound, NoFalsePass, Ranked
<1> QED BY <1>1, <1>3, <1>4 DEF Inv

(* So does one that records the point it is at and goes on to the next.     *)
LEMMA RecordInv ==
  ASSUME Inv, UNCHANGED <<outcome, knobs, judged, leaderboard>>, ~leaderboard.there,
         proc.i \in DOMAIN Combos, proc.tried < MaxTrials(knobs), Point \notin Recorded,
         NEW t \in Trial, t.point = Point, t.index = proc.i,
         t.pass => /\ Point \in judged
                   /\ outcome[Point].run = "completed" /\ outcome[Point].pass,
         trials' = Append(trials, t),
         proc' \in Process, proc'.i = proc.i + 1, proc'.tried = proc.tried + 1,
         proc'.at \in {"next", "stop"}
  PROVE  Inv'
<1>1. GridOrder' /\ LogBound' /\ Recorded' = Recorded \cup {Point}
  BY AppendKeepsOrder DEF Inv
<1>2. Types'
  BY DEF Inv, Types
<1>3. Place'
  <2>1. proc.i \in Nat /\ proc.tried \in Nat /\ proc.i >= 1 /\ proc.tried = proc.i - 1
    BY DEF Inv, Types, Place, Process
  <2>2. ASSUME NEW i \in 1..(proc'.i - 1), i \in DOMAIN Combos PROVE Combos[i] \in Recorded'
    <3>1. CASE i = proc.i
      BY <1>1, <3>1 DEF Point
    <3>2. CASE i # proc.i
      <4>1. i \in 1..(proc.i - 1)
        BY <2>1, <2>2, <3>2
      <4> QED BY <1>1, <2>2, <4>1 DEF Inv, Place
    <3> QED BY <3>1, <3>2
  <2> QED BY <2>1, <2>2 DEF Place
<1>4. NoFalsePass'
  <2> DEFINE n == Len(trials)
  <2>1. /\ n \in Nat /\ DOMAIN trials = 1..n /\ DOMAIN trials' = 1..(n + 1)
        /\ \A k \in 1..n : trials'[k] = trials[k]
        /\ trials'[n + 1] = t
    BY DEF Inv, Types
  <2> SUFFICES ASSUME NEW k \in 1..(n + 1), trials'[k].pass
               PROVE  /\ trials'[k].point \in judged
                      /\ outcome[trials'[k].point].run = "completed" /\ outcome[trials'[k].point].pass
    BY <2>1 DEF NoFalsePass
  <2>2. CASE k \in 1..n
    BY <2>1, <2>2 DEF Inv, NoFalsePass
  <2>3. CASE k = n + 1
    BY <2>1, <2>3
  <2> QED BY <2>1, <2>2, <2>3
<1>5. Ranked'
  BY DEF Ranked
<1> QED BY <1>1, <1>2, <1>3, <1>4, <1>5 DEF Inv

(* What a process is after it has gone on to the next position.             *)
LEMMA NextPosition ==
  ASSUME proc \in Process, NEW b \in Metrics, NEW n \in Nat, NEW place \in Places,
         proc' = [proc EXCEPT !.i = @ + 1, !.tried = @ + 1, !.best = b, !.streak = n, !.at = place]
  PROVE  /\ proc' \in Process
         /\ proc'.i = proc.i + 1 /\ proc'.tried = proc.tried + 1 /\ proc'.at = place
<1>1. proc.i \in Nat /\ proc.tried \in Nat
  BY DEF Process
<1>2. proc.i + 1 \in Nat /\ proc.tried + 1 \in Nat
  BY <1>1
<1> QED BY <1>2 DEF Process

(* Every step of the sweep, and a crash, keeps the invariant. *)
LEMMA StepInv == Inv /\ [Next]_vars => Inv'
<1> SUFFICES ASSUME Inv, [Next]_vars PROVE Inv'
  OBVIOUS
<1> USE DEF given, evidence
<1>1. ASSUME proc' = Idle \/ proc' = [Idle EXCEPT !.at = "next"],
             proc'.at = "next" => ~leaderboard.there,
             UNCHANGED <<given, evidence>>
      PROVE  Inv'
  <2>1. proc' \in Process /\ Place' /\ proc'.at \in {"idle", "next"}
    BY <1>1, IdlePlace
  <2>2. Ranked'
    BY <1>1, <2>1 DEF Ranked
  <2> QED BY <1>1, <2>1, <2>2 DEF Inv, Types, GridOrder, LogBound, NoFalsePass
<1>2. CASE Begin
  BY <1>1, <1>2 DEF Begin, Idle
<1>3. CASE Refuse
  BY <1>3, StayInv DEF Refuse, Inv, Types, Place, Ranked
<1>4. CASE Exhausted
  BY <1>4, StayInv DEF Exhausted, Goto, Inv, Types, Ranked, Process, Places
<1>5. CASE SkipDone
  <2>1. /\ proc.i \in Nat /\ proc.tried \in Nat /\ proc.i >= 1 /\ proc.tried = proc.i - 1
        /\ proc' \in Process /\ proc'.at = "next"
        /\ proc'.i = proc.i + 1 /\ proc'.tried = proc.tried + 1
    <3>1. proc' = [proc EXCEPT !.i = @ + 1, !.tried = @ + 1, !.best = proc.best,
                     !.streak = proc.streak, !.at = "next"]
      BY <1>5 DEF SkipDone, Room, Inv, Types, Process
    <3>2. proc.best \in Metrics /\ proc.streak \in Nat /\ proc \in Process
      BY DEF Inv, Types, Process
    <3> QED BY <3>1, <3>2, NextPosition DEF Inv, Types, Place, Process, Places
  <2>2. ASSUME NEW i \in 1..(proc'.i - 1), i \in DOMAIN Combos PROVE Combos[i] \in Recorded
    <3>1. CASE i = proc.i
      BY <1>5, <3>1 DEF SkipDone, Point
    <3>2. CASE i # proc.i
      BY <2>1, <2>2, <3>2 DEF Inv, Place
    <3> QED BY <3>1, <3>2
  <2>3. Recorded' = Recorded
    BY <1>5 DEF SkipDone, Recorded
  <2>4. Place'
    BY <2>1, <2>2, <2>3 DEF Place
  <2> QED BY <1>5, <2>1, <2>4 DEF SkipDone, Room, Inv, Types, GridOrder, LogBound, NoFalsePass, Ranked
<1>6. CASE SegmentRaises
  BY <1>1, <1>6 DEF SegmentRaises, Idle
<1>7. CASE WriteDossier
  BY <1>7, StayInv DEF WriteDossier, Room, Goto, Inv, Types, Ranked, Process, Places
<1>8. CASE Judge
  BY <1>8, StayInv DEF Judge, Inv, Types, Place, Ranked, Process, Places
<1>9. CASE Barren
  BY <1>9, StayInv DEF Barren, Goto, Inv, Types, Ranked, Process, Places
<1>10. CASE WriteLeaderboard
  BY <1>10, StayInv DEF WriteLeaderboard, Goto, Inv, Types, Process, Places
<1>11. CASE WriteIndex
  BY <1>11, StayInv DEF WriteIndex, Goto, Inv, Types, Process, Places
<1>12. CASE Proceed
  BY <1>1, <1>12 DEF Proceed, Idle
<1>13. CASE Crash
  BY <1>1, <1>13 DEF Crash, Idle
<1>14. CASE UNCHANGED vars
  BY <1>14, StayInv DEF vars, Inv, Types, Place, Ranked
<1>15. CASE RecordInvalid
  <2> DEFINE t == NewTrial(FALSE, "absent", NoMetric)
  <2>1. proc.i \in DOMAIN Combos /\ Point \in Points /\ proc.i \in Nat
    BY <1>15, GridAssumption DEF RecordInvalid, Room, Inv, Types, Place, Process, Point
  <2>2. t \in Trial /\ t.point = Point /\ t.index = proc.i /\ ~t.pass
    BY <2>1 DEF NewTrial, Trial
  <2>3. proc' \in Process /\ proc'.i = proc.i + 1 /\ proc'.tried = proc.tried + 1 /\ proc'.at = "next"
    <3>1. proc' = [proc EXCEPT !.i = @ + 1, !.tried = @ + 1, !.best = proc.best,
                     !.streak = proc.streak, !.at = "next"]
      BY <1>15 DEF RecordInvalid, Room, Inv, Types, Process
    <3>2. proc.best \in Metrics /\ proc.streak \in Nat /\ proc \in Process
      BY DEF Inv, Types, Process
    <3> QED BY <3>1, <3>2, NextPosition DEF Places
  <2>4. ~leaderboard.there
    BY <1>15 DEF RecordInvalid, Room, Inv, Ranked
  <2> HIDE DEF t
  <2> QED BY <1>15, <2>1, <2>2, <2>3, <2>4, RecordInv DEF RecordInvalid, Room, t
<1>16. CASE AppendTrial
  <2> DEFINE t == NewTrial(proc.passed, outcome[Point].holdout, outcome[Point].metric)
  <2>1. /\ proc.i \in DOMAIN Combos /\ proc.tried < MaxTrials(knobs) /\ Point \notin Recorded
        /\ Point \in judged /\ outcome[Point].run = "completed"
        /\ proc.passed => outcome[Point].pass
    BY <1>16 DEF AppendTrial, Inv, Place
  <2>2. Point \in Points /\ proc.i \in Nat /\ proc.tried \in Nat /\ proc.passed \in BOOLEAN
    BY <2>1, GridAssumption DEF Inv, Types, Process, Point
  <2>3. outcome[Point] \in Outcome
    BY <2>2, OutcomesAssumption DEF Inv, Types
  <2>4. t \in Trial /\ t.point = Point /\ t.index = proc.i /\ t.pass = proc.passed
        /\ t.metric \in Metrics
    BY <2>2, <2>3 DEF NewTrial, Trial, Outcome, Metrics
  <2> HIDE DEF t
  <2>5. Streak(t) \in Nat
    BY DEF Streak, Inv, Types, Process
  <2>6. proc' = [proc EXCEPT !.i = @ + 1, !.tried = @ + 1,
                   !.best = IF Improves(t) THEN t.metric ELSE @,
                   !.streak = Streak(t),
                   !.at = IF StopAfter(knobs) > 0 /\ Streak(t) >= StopAfter(knobs) THEN "stop" ELSE "next"]
        /\ trials' = Append(trials, t)
    BY <1>16 DEF AppendTrial, t
  <2>7. proc' \in Process /\ proc'.i = proc.i + 1 /\ proc'.tried = proc.tried + 1
        /\ proc'.at \in {"next", "stop"}
    <3> DEFINE b == IF Improves(t) THEN t.metric ELSE proc.best
               place == IF StopAfter(knobs) > 0 /\ Streak(t) >= StopAfter(knobs)
                        THEN "stop" ELSE "next"
    <3>1. proc' = [proc EXCEPT !.i = @ + 1, !.tried = @ + 1, !.best = b,
                     !.streak = Streak(t), !.at = place]
      BY <2>6 DEF Inv, Types, Process
    <3>2. proc.best \in Metrics /\ proc \in Process
      BY DEF Inv, Types, Process
    <3>3. b \in Metrics /\ place \in {"next", "stop"}
      BY <2>4, <3>2
    <3>4. place \in Places
      BY <3>3 DEF Places
    <3> HIDE DEF b, place
    <3> QED BY <2>5, <3>1, <3>2, <3>3, <3>4, NextPosition
  <2>8. ~leaderboard.there
    BY <1>16 DEF AppendTrial, Inv, Ranked
  <2> QED BY <1>16, <2>1, <2>4, <2>6, <2>7, <2>8, RecordInv DEF AppendTrial
<1> QED
  BY <1>2, <1>3, <1>4, <1>5, <1>6, <1>7, <1>8, <1>9, <1>10, <1>11, <1>12, <1>13, <1>14,
     <1>15, <1>16
  DEF Next, Sweep

(* The invariant is one: it holds in every state that can be reached.       *)
THEOREM Invariance == Spec => []Inv
<1>1. Init => Inv
  BY InitInv
<1>2. Inv /\ [Next]_vars => Inv'
  BY StepInv
<1> QED BY <1>1, <1>2, PTL DEF Spec

-----------------------------------------------------------------------------
(* However many processes die on the way, the log is the grid from its      *)
(* beginning with each point once: none is tried twice, none passed over    *)
(* (param_sweep.py 343-348, 428-431).                                       *)
THEOREM LogFollowsGrid == Spec => []GridOrder
<1>1. Inv => GridOrder
  BY DEF Inv
<1> QED BY <1>1, Invariance, PTL

(* A sweep, with all its restarts, records no more trials than the policy   *)
(* or its own limit allow (331-335, 429).                                   *)
THEOREM BudgetHolds == Spec => []WithinBudget
<1>1. Inv => WithinBudget
  <2> SUFFICES ASSUME Inv PROVE WithinBudget
    OBVIOUS
  <2>1. knobs \in Knobs /\ Len(trials) \in Nat /\ DOMAIN trials = 1..Len(trials)
        /\ knobs.proposals \in Nat /\ knobs.trials \in Nat
    BY KnobsAssumption DEF Inv, Types
  <2>2. /\ MaxTrials(knobs) \in Nat
        /\ knobs.proposals > 0 => MaxTrials(knobs) <= knobs.proposals
        /\ knobs.trials > 0 => MaxTrials(knobs) <= knobs.trials
    BY <2>1, MaxTrialsBounds
  <2>3. Len(trials) <= MaxTrials(knobs)
    <3>1. CASE Len(trials) = 0
      BY <2>2, <3>1
    <3>2. CASE Len(trials) > 0
      <4>1. Len(trials) \in DOMAIN trials
        BY <2>1, <3>2
      <4>2. trials[Len(trials)].index \in Nat
        <5>1. trials[Len(trials)] \in Trial
          BY <4>1 DEF Inv, Types
        <5> QED BY <5>1 DEF Trial
      <4> QED BY <2>1, <2>2, <4>1, <4>2 DEF Inv, LogBound
    <3> QED BY <2>1, <3>1, <3>2
  <2> QED BY <2>1, <2>2, <2>3 DEF WithinBudget
<1> QED BY <1>1, Invariance, PTL

(* A trial recorded as passing was judged so on evidence that is there      *)
(* (632-660), also when a process died between the verdict and the log.     *)
THEOREM PassesAreTrue == Spec => []NoFalsePass
<1>1. Inv => NoFalsePass
  BY DEF Inv
<1> QED BY <1>1, Invariance, PTL

(* A log only grows, and with a leaderboard neither changes any more        *)
(* (317-318): the children of a sweep are made from one ranking.            *)
THEOREM LeaderboardStays == Spec => LeaderboardIsFinal
<1> DEFINE Final == /\ IsPrefix(trials, trials')
                    /\ leaderboard.there => leaderboard' = leaderboard /\ trials' = trials
<1>1. Inv /\ [Next]_vars => [Final]_vars
  <2> SUFFICES ASSUME Inv, [Next]_vars PROVE Final
    OBVIOUS
  <2> USE DEF given, evidence
  <2>1. Len(trials) \in Nat /\ trials \in Seq(Trial)
    BY DEF Inv, Types
  <2>2. ASSUME trials' = trials PROVE IsPrefix(trials, trials')
    BY <2>1, <2>2 DEF IsPrefix
  <2>3. ASSUME NEW t, trials' = Append(trials, t) PROVE IsPrefix(trials, trials')
    BY <2>1, <2>3 DEF IsPrefix
  <2>4. CASE RecordInvalid
    BY <2>3, <2>4 DEF RecordInvalid, Room, Inv, Ranked
  <2>5. CASE AppendTrial
    BY <2>3, <2>5 DEF AppendTrial, Inv, Ranked
  <2>6. CASE WriteLeaderboard
    BY <2>2, <2>6 DEF WriteLeaderboard, Inv, Ranked
  <2>7. CASE \/ Begin \/ Refuse \/ Exhausted \/ SkipDone \/ SegmentRaises
             \/ WriteDossier \/ Judge \/ Barren \/ WriteIndex \/ Proceed \/ Crash \/ UNCHANGED vars
    BY <2>2, <2>7 DEF Begin, Refuse, Exhausted, SkipDone, SegmentRaises, WriteDossier, Judge,
       Barren, WriteIndex, Proceed, Crash, vars
  <2> QED BY <2>4, <2>5, <2>6, <2>7 DEF Next, Sweep
<1> QED BY <1>1, Invariance, PTL DEF Spec, LeaderboardIsFinal

-----------------------------------------------------------------------------
(* Two metrics are compared one way or the other, for either direction.     *)
LEMMA BetterOrders ==
  ASSUME NEW a \in Int, NEW b \in Int, NEW c \in Int
  PROVE  /\ ~Better(a, a)
         /\ Better(a, b) => ~Better(b, a) /\ a # b
         /\ Better(a, b) /\ Better(b, c) => Better(a, c)
         /\ a = b \/ Better(a, b) \/ Better(b, a)
         /\ Better(a, b) /\ ~Better(c, b) => Better(a, c)
BY DEF Better

(* The ranking has all eligible trials, each once, none before a better. *)
LEMMA RankingIs ==
  ASSUME Types
  PROVE  /\ Ranking \in Seq(DOMAIN trials) /\ Len(Ranking) \in Nat
         /\ \A r \in 1..Len(Ranking) : Eligible(trials[Ranking[r]])
         /\ \A k \in DOMAIN trials : Eligible(trials[k]) => \E r \in 1..Len(Ranking) : Ranking[r] = k
         /\ \A r, q \in 1..Len(Ranking) : r < q => Ahead(Ranking[r], Ranking[q])
<1> DEFINE E == {k \in DOMAIN trials : Eligible(trials[k])}
           R == {p \in E \X E : Ahead(p[1], p[2])}
<1>1. DOMAIN trials = 1..Len(trials) /\ Len(trials) \in Nat
      /\ \A k \in DOMAIN trials : trials[k] \in Trial
  BY DEF Types
<1>2. IsFiniteSet(E)
  <2>1. IsFiniteSet(1..Len(trials))
    BY <1>1, FS_Interval
  <2> QED BY <1>1, <2>1, FS_Subset
<1>3. \A k \in E : trials[k].metric \in Int /\ k \in Nat
  BY <1>1 DEF Trial, Eligible
<1>4. \A k, l \in E : <<k, l>> \in R <=> Ahead(k, l)
  OBVIOUS
<1>5. Orders(R, E)
  <2> HIDE DEF R, E
  <2>1. \A k \in E : ~Ahead(k, k)
    BY <1>3, BetterOrders DEF Ahead
  <2>2. ASSUME NEW k \in E, NEW l \in E, NEW m \in E, Ahead(k, l), Ahead(l, m) PROVE Ahead(k, m)
    BY <1>3, <2>2 DEF Ahead, Better
  <2>3. ASSUME NEW k \in E, NEW l \in E, k # l PROVE Ahead(k, l) \/ Ahead(l, k)
    BY <1>3, <2>3 DEF Ahead, Better
  <2> QED BY <1>4, <2>1, <2>2, <2>3 DEF Orders
<1>6. Ranking = InOrder(E, R)
  BY DEF Ranking, ByRank
<1>7. /\ Ranking \in Seq(E) /\ Len(Ranking) \in Nat
      /\ \A r, q \in 1..Len(Ranking) : r < q => <<Ranking[r], Ranking[q]>> \in R
      /\ \A k \in E : \E r \in 1..Len(Ranking) : Ranking[r] = k
  <2> HIDE DEF E, R
  <2> QED BY <1>2, <1>5, <1>6, InOrderSorts
<1>8. \A r \in 1..Len(Ranking) : Ranking[r] \in E
  <2> HIDE DEF E
  <2> QED BY <1>7
<1>9. Ranking \in Seq(DOMAIN trials)
  <2>1. E \subseteq DOMAIN trials
    OBVIOUS
  <2> HIDE DEF E
  <2> QED BY <1>7, <2>1
<1> QED BY <1>4, <1>7, <1>8, <1>9

-----------------------------------------------------------------------------
(* TypeOK with what makes it inductive: a dossier is judged after it has    *)
(* been written.                                                            *)
TypeInv == TypeOK /\ (proc.at = "gates" => Point \in dossiers)

LEMMA TypeInit == Init => TypeInv
<1> SUFFICES ASSUME Init PROVE TypeInv
  OBVIOUS
<1>1. proc = Idle /\ proc.at = "idle" /\ trials = <<>> /\ stopped = <<>>
  BY DEF Init, Idle
<1>2. proc \in Process
  BY <1>1 DEF Idle, Process, Places, Metrics
<1>3. leaderboard \in [there : BOOLEAN, top : Seq(Nat)]
  BY DEF Init, NoLeaderboard
<1>4. dossiers \subseteq Points /\ judged \subseteq dossiers
  BY EarlierAssumption DEF Init
<1>5. /\ outcome \in [Points -> Outcomes] /\ knobs \in Knobs /\ valid \in BOOLEAN
      /\ trials \in Seq(Trial) /\ stopped \in Seq({"max_trials", "stop_if_no_improvement_n"})
      /\ indexed \in BOOLEAN /\ job \in {"due", "past", "error"} /\ crashes \in Nat
  <2>1. outcome \in [Points -> Outcomes] /\ knobs \in Knobs /\ valid \in BOOLEAN
    BY DEF Init
  <2>2. indexed = FALSE /\ job = "due" /\ crashes = 0
    BY DEF Init
  <2>3. trials \in Seq(Trial) /\ stopped \in Seq({"max_trials", "stop_if_no_improvement_n"})
    BY <1>1
  <2> QED BY <2>1, <2>2, <2>3, Zenon
<1> QED BY <1>1, <1>2, <1>3, <1>4, <1>5 DEF TypeInv, TypeOK, Process, Places, Metrics

LEMMA TypeStep == Inv /\ TypeInv /\ [Next]_vars => TypeInv'
<1> SUFFICES ASSUME Inv, TypeInv, [Next]_vars PROVE TypeInv'
  OBVIOUS
<1> DEFINE Files == /\ dossiers \subseteq Points /\ judged \subseteq dossiers
                    /\ proc.at = "gates" => Point \in dossiers
           Rest == /\ valid \in BOOLEAN /\ indexed \in BOOLEAN /\ crashes \in Nat
                   /\ leaderboard \in [there : BOOLEAN, top : Seq(Nat)]
                   /\ stopped \in Seq({"max_trials", "stop_if_no_improvement_n"})
                   /\ job \in {"due", "past", "error"}
<1> USE DEF given, evidence
<1>1. Types'
  BY StepInv DEF Inv
<1>2. Files /\ Rest /\ Types
  BY DEF TypeInv, TypeOK, Inv
<1>3. ASSUME Files', Rest' PROVE TypeInv'
  BY <1>1, <1>3 DEF TypeInv, TypeOK, Types, Process, Places, Metrics
<1>4. ASSUME UNCHANGED <<dossiers, judged>>, proc'.at # "gates" PROVE Files'
  BY <1>2, <1>4
<1>5. CASE Begin
  BY <1>2, <1>3, <1>4, <1>5 DEF Begin, Idle
<1>6. CASE Refuse
  BY <1>2, <1>3, <1>6 DEF Refuse, Point
<1>7. CASE Exhausted
  BY <1>2, <1>3, <1>4, <1>7 DEF Exhausted, Goto, Types, Process
<1>8. CASE SkipDone
  BY <1>2, <1>3, <1>4, <1>8 DEF SkipDone, Room, Types, Process
<1>9. CASE RecordInvalid
  BY <1>2, <1>3, <1>4, <1>9 DEF RecordInvalid, Room, Types, Process
<1>10. CASE SegmentRaises
  BY <1>2, <1>3, <1>4, <1>10 DEF SegmentRaises, Idle
<1>11. CASE WriteDossier
  <2>1. Point \in Points /\ Point' = Point
    BY <1>2, <1>11, GridAssumption DEF WriteDossier, Room, Goto, Point, Types, Process, Inv, Place
  <2> QED BY <1>2, <1>3, <1>11, <2>1 DEF WriteDossier
<1>12. CASE Judge
  <2>1. proc'.at = "append"
    BY <1>2, <1>12 DEF Judge, Types, Process
  <2> QED BY <1>2, <1>3, <1>12, <2>1 DEF Judge
<1>13. CASE AppendTrial
  <2>1. proc'.at # "gates"
    BY <1>2, <1>13 DEF AppendTrial, Types, Process
  <2> QED BY <1>2, <1>3, <1>4, <1>13, <2>1 DEF AppendTrial
<1>14. CASE Barren
  BY <1>2, <1>3, <1>4, <1>14 DEF Barren, Goto, Types, Process
<1>15. CASE WriteLeaderboard
  <2> DEFINE m == IF Len(Ranking) < TopLength THEN Len(Ranking) ELSE TopLength
  <2>1. Ranking \in Seq(DOMAIN trials) /\ m \in 0..Len(Ranking)
    BY <1>2, RankingIs, GridAssumption
  <2>2. SubSeq(Ranking, 1, m) \in Seq(Nat)
    <3> HIDE DEF m
    <3>1. DOMAIN trials \subseteq Nat
      BY <1>2 DEF Types
    <3>2. Ranking \in Seq(Nat)
      BY <2>1, <3>1
    <3> QED BY <2>1, <3>2
  <2>3. Rest'
    <3>1. leaderboard' = [there |-> TRUE, top |-> SubSeq(Ranking, 1, m)]
      BY <1>15 DEF WriteLeaderboard
    <3>2. UNCHANGED <<valid, indexed, crashes, stopped, job>>
      BY <1>15 DEF WriteLeaderboard
    <3> HIDE DEF m
    <3> QED BY <1>2, <2>2, <3>1, <3>2
  <2> QED BY <1>2, <1>3, <1>4, <1>15, <2>3 DEF WriteLeaderboard, Goto, Types, Process
<1>16. CASE WriteIndex
  BY <1>2, <1>3, <1>4, <1>16 DEF WriteIndex, Goto, Types, Process
<1>17. CASE Proceed
  BY <1>2, <1>3, <1>4, <1>17 DEF Proceed, Idle
<1>18. CASE Crash
  BY <1>2, <1>3, <1>4, <1>18 DEF Crash, Idle
<1>19. CASE UNCHANGED vars
  BY <1>2, <1>3, <1>19 DEF vars, Point
<1> QED
  BY <1>5, <1>6, <1>7, <1>8, <1>9, <1>10, <1>11, <1>12, <1>13, <1>14, <1>15, <1>16, <1>17,
     <1>18, <1>19
  DEF Next, Sweep

(* Every variable keeps to its type: the sweep judges only dossiers it has  *)
(* written or found, and ranks only trials of its log (547-757).            *)
THEOREM TypesHold == Spec => []TypeOK
<1>1. Init => Inv /\ TypeInv
  BY InitInv, TypeInit
<1>2. Inv /\ TypeInv /\ [Next]_vars => (Inv /\ TypeInv)'
  BY StepInv, TypeStep
<1>3. TypeInv => TypeOK
  BY DEF TypeInv
<1> QED BY <1>1, <1>2, <1>3, PTL DEF Spec

-----------------------------------------------------------------------------
(* The first rows of the ranking are the leaderboard. *)
LEMMA TopIsBest ==
  ASSUME Types, WriteLeaderboard
  PROVE  BestIsBest'
<1> USE DEF given, evidence
<1> DEFINE m == IF Len(Ranking) < TopLength THEN Len(Ranking) ELSE TopLength
           top == SubSeq(Ranking, 1, m)
<1>1. /\ UNCHANGED <<trials, knobs>>
      /\ leaderboard' = [there |-> TRUE, top |-> top]
  BY DEF WriteLeaderboard
<1>2. m \in 0..Len(Ranking) /\ (Len(Ranking) > 0 => m > 0)
  BY RankingIs, GridAssumption
<1>3. DOMAIN top = 1..m /\ \A r \in 1..m : top[r] = Ranking[r]
  <2> HIDE DEF m
  <2> QED BY <1>2, RankingIs
<1> HIDE DEF m, top
<1>4. \A r \in 1..m : Eligible(trials[top[r]])
  BY <1>2, <1>3, RankingIs
<1>5. ASSUME NEW k \in DOMAIN trials, Eligible(trials[k])
      PROVE  /\ top # <<>>
             /\ ~Better(trials[k].metric, trials[top[1]].metric)
             /\ trials[k].metric = trials[top[1]].metric => top[1] <= k
  <2>1. PICK r \in 1..Len(Ranking) : Ranking[r] = k
    BY <1>5, RankingIs
  <2>2. 1 \in 1..m /\ 1 \in 1..Len(Ranking) /\ top[1] = Ranking[1] /\ top # <<>>
    BY <1>2, <1>3, <2>1, RankingIs
  <2>3. /\ Ranking[1] \in DOMAIN trials /\ k \in Nat /\ DOMAIN trials \subseteq Nat
        /\ trials[k].metric \in Int /\ trials[Ranking[1]].metric \in Int
    <3>1. \A l \in DOMAIN trials : Eligible(trials[l]) => trials[l].metric \in Int
      <4>1. \A l \in DOMAIN trials : trials[l] \in Trial
        BY DEF Types
      <4> QED BY <4>1 DEF Trial, Eligible
    <3>2. Ranking[1] \in DOMAIN trials /\ Eligible(trials[Ranking[1]])
      BY <2>2, RankingIs
    <3> QED BY <1>5, <3>1, <3>2 DEF Types
  <2>4. CASE r = 1
    BY <2>1, <2>2, <2>3, <2>4, BetterOrders
  <2>5. CASE r # 1
    <3>1. Ahead(Ranking[1], k)
      BY <2>1, <2>2, <2>5, RankingIs
    <3> QED BY <2>2, <2>3, <3>1, BetterOrders DEF Ahead
  <2> QED BY <2>4, <2>5
<1>6. \A r \in 1..m : trials[top[r]].pass /\ trials[top[r]].holdout # "fail"
  BY <1>4 DEF Eligible
<1> QED BY <1>1, <1>3, <1>5, <1>6 DEF BestIsBest, Better

(* A leaderboard that is there is left alone, with the log it ranks.        *)
LEMMA LogStep ==
  ASSUME Inv, [Next]_vars
  PROVE  /\ UNCHANGED <<outcome, knobs>>
         /\ trials' = trials \/ RecordInvalid \/ AppendTrial
         /\ leaderboard' = leaderboard \/ WriteLeaderboard
         /\ leaderboard.there => leaderboard' = leaderboard /\ trials' = trials
<1> USE DEF given, evidence
<1>1. CASE RecordInvalid
  BY <1>1 DEF RecordInvalid, Room, Inv, Ranked
<1>2. CASE AppendTrial
  BY <1>2 DEF AppendTrial, Inv, Ranked
<1>3. CASE WriteLeaderboard
  BY <1>3 DEF WriteLeaderboard, Inv, Ranked
<1>4. CASE \/ Begin \/ Refuse \/ Exhausted \/ SkipDone \/ SegmentRaises
           \/ WriteDossier \/ Judge \/ Barren \/ WriteIndex \/ Proceed \/ Crash \/ UNCHANGED vars
  BY <1>4 DEF Begin, Refuse, Exhausted, SkipDone, SegmentRaises, WriteDossier, Judge,
     Barren, WriteIndex, Proceed, Crash, vars
<1> QED BY <1>1, <1>2, <1>3, <1>4 DEF Next, Sweep

(* The first row of a leaderboard is the best trial of the whole log, that  *)
(* of the processes that died included, and what failed the holdout is not  *)
(* on it (698-753).                                                         *)
THEOREM LeaderIsBest == Spec => []BestIsBest
<1>1. Init => Inv /\ BestIsBest
  BY InitInv DEF Init, NoLeaderboard, BestIsBest
<1>2. Inv /\ BestIsBest /\ [Next]_vars => (Inv /\ BestIsBest)'
  <2> SUFFICES ASSUME Inv, BestIsBest, [Next]_vars PROVE BestIsBest'
    BY StepInv
  <2>1. CASE leaderboard.there
    BY <2>1, LogStep DEF BestIsBest, Better
  <2>2. CASE ~leaderboard.there /\ leaderboard' = leaderboard
    BY <2>2 DEF BestIsBest
  <2>3. CASE WriteLeaderboard
    BY <2>3, TopIsBest DEF Inv
  <2> QED BY <2>1, <2>2, <2>3, LogStep
<1> QED BY <1>1, <1>2, PTL DEF Spec

-----------------------------------------------------------------------------
(* The trials up to the k-th after which, until the k-th, nothing improves. *)
Since(k) ==
  {l \in 1..k : outcome[trials[l].point].run = "completed" /\ \A i \in l..k : ~Improvement(i)}

(* The streak the code counts, of eligible trials and others. *)
StreakBounded ==
  crashes = 0 /\ StopAfter(knobs) > 0 =>
    \A k \in DOMAIN trials : Cardinality(Since(k)) <= StopAfter(knobs)

(* What a process remembers is true of the whole log: no trial is better    *)
(* than the best, and no more of them than its streak have not improved.    *)
Remembers ==
  /\ \A k \in DOMAIN trials : Eligible(trials[k]) =>
       /\ proc.best # NoMetric
       /\ ~Better(trials[k].metric, proc.best)
  /\ Cardinality(Since(Len(trials))) <= proc.streak
  /\ StopAfter(knobs) > 0 => proc.streak < StopAfter(knobs)

(* The first point of the grid that is not in the log raises: every process *)
(* gets there, and no further.                                              *)
Stuck ==
  \E j \in DOMAIN Combos :
    /\ outcome[Combos[j]].run = "raises"
    /\ Combos[j] \notin Recorded
    /\ \A i \in 1..(j - 1) : Combos[i] \in Recorded
    /\ proc.i <= j

(* Without a crash a process forgets only at such a point, or with nothing  *)
(* more to record.                                                          *)
Memory ==
  /\ proc.at \in {"index", "return"} => leaderboard.there
  /\ crashes = 0 =>
       /\ proc.at = "idle" => trials = <<>> \/ Stuck \/ leaderboard.there
       /\ proc.at \in {"next", "gates", "append"} => Remembers \/ Stuck

LEMMA SinceFinite ==
  ASSUME NEW k \in Nat
  PROVE  /\ IsFiniteSet(Since(k)) /\ Cardinality(Since(k)) \in Nat
         /\ \A S \in SUBSET Since(k) : Cardinality(S) <= Cardinality(Since(k))
<1>1. Since(k) \in SUBSET (1..k)
  BY DEF Since
<1>2. IsFiniteSet(1..k)
  BY FS_Interval
<1>3. IsFiniteSet(Since(k))
  BY <1>1, <1>2, FS_Subset
<1> QED BY <1>3, FS_CardinalityType, FS_Subset

LEMMA StopAfterType ==
  ASSUME Types
  PROVE  StopAfter(knobs) \in Int
BY KnobsAssumption DEF Types, StopAfter

LEMMA SinceStays ==
  ASSUME UNCHANGED <<outcome, knobs, trials>>, NEW k
  PROVE  Since(k)' = Since(k)
BY DEF Since, Improvement, Better

(* A new trial leaves what is said of earlier ones as it is.               *)
LEMMA SinceGrows ==
  ASSUME Types, NEW t \in Trial, trials' = Append(trials, t), UNCHANGED <<outcome, knobs>>,
         NEW n \in Nat, Len(trials) = n
  PROVE  /\ \A k \in 1..n : Since(k)' = Since(k)
         /\ Since(n + 1)' \subseteq Since(n) \cup {n + 1}
         /\ outcome[t.point].run # "completed" => Since(n + 1)' \subseteq Since(n)
         /\ Eligible(t) /\ (\A l \in 1..n : Eligible(trials[l]) => Better(t.metric, trials[l].metric))
              => Since(n + 1)' = {}
<1>1. /\ n \in Nat /\ DOMAIN trials = 1..n /\ trials'[n + 1] = t
      /\ \A k \in 1..n : trials'[k] = trials[k]
  BY DEF Types
<1>2. ASSUME NEW k \in 1..n PROVE Improvement(k)' <=> Improvement(k)
  <2>1. \A l \in 1..(k - 1) : l \in 1..n /\ trials'[l] = trials[l]
    BY <1>1
  <2>2. trials'[k] = trials[k]
    BY <1>1
  <2> QED BY <2>1, <2>2 DEF Improvement, Better
<1>3. ASSUME NEW k \in 1..n PROVE Since(k)' = Since(k)
  <2>1. \A l \in 1..k : l \in 1..n /\ trials'[l] = trials[l]
    BY <1>1
  <2>2. \A l \in 1..k : \A i \in l..k : Improvement(i)' <=> Improvement(i)
    BY <1>1, <1>2
  <2> QED BY <2>1, <2>2 DEF Since
<1>4. ASSUME NEW l \in Since(n + 1)' PROVE l = n + 1 \/ l \in Since(n)
  <2>1. l \in 1..(n + 1) /\ outcome[trials'[l].point].run = "completed"
        /\ \A i \in l..(n + 1) : ~Improvement(i)'
    BY <1>4 DEF Since
  <2>2. CASE l # n + 1
    <3>1. l \in 1..n /\ trials'[l] = trials[l]
      BY <1>1, <2>1, <2>2
    <3>2. \A i \in l..n : i \in l..(n + 1) /\ i \in 1..n
      BY <1>1, <3>1
    <3>3. \A i \in l..n : ~Improvement(i)
      BY <1>2, <2>1, <3>2
    <3> QED BY <2>1, <3>1, <3>3 DEF Since
  <2> QED BY <2>2
<1>5. ASSUME outcome[t.point].run # "completed" PROVE n + 1 \notin Since(n + 1)'
  BY <1>1, <1>5 DEF Since
<1>6. ASSUME Eligible(t), \A l \in 1..n : Eligible(trials[l]) => Better(t.metric, trials[l].metric)
      PROVE  Since(n + 1)' = {}
  <2>1. Improvement(n + 1)'
    <3>1. \A l \in 1..((n + 1) - 1) : l \in 1..n /\ trials'[l] = trials[l]
      BY <1>1
    <3> QED BY <1>1, <1>6, <3>1 DEF Improvement, Better
  <2>2. ASSUME NEW l \in Since(n + 1)' PROVE FALSE
    <3>1. l \in 1..(n + 1) /\ \A i \in l..(n + 1) : ~Improvement(i)'
      BY <2>2 DEF Since
    <3>2. n + 1 \in l..(n + 1)
      BY <1>1, <3>1
    <3> QED BY <2>1, <3>1, <3>2
  <2> QED BY <2>2
<1> QED BY <1>3, <1>4, <1>5, <1>6

LEMMA StuckStays ==
  ASSUME Types, Stuck, UNCHANGED <<outcome, trials>>, proc'.i \in Nat, proc'.i <= proc.i
  PROVE  Stuck'
<1>1. PICK j \in DOMAIN Combos :
        /\ outcome[Combos[j]].run = "raises"
        /\ Combos[j] \notin Recorded
        /\ \A i \in 1..(j - 1) : Combos[i] \in Recorded
        /\ proc.i <= j
  BY DEF Stuck
<1>2. j \in Nat /\ proc.i \in Nat
  BY GridAssumption DEF Types, Process
<1>3. proc'.i <= j /\ Recorded' = Recorded
  BY <1>1, <1>2 DEF Recorded
<1> QED BY <1>1, <1>3 DEF Stuck

(* A sweep that is stuck stands at a point only to see it raise. *)
LEMMA StuckHere ==
  ASSUME Types, Place, Stuck, proc.i \in DOMAIN Combos, Point \notin Recorded
  PROVE  outcome[Point].run = "raises"
<1>1. PICK j \in DOMAIN Combos :
        /\ outcome[Combos[j]].run = "raises"
        /\ \A i \in 1..(j - 1) : Combos[i] \in Recorded
        /\ proc.i <= j
  BY DEF Stuck
<1>2. j \in Nat /\ proc.i \in Nat /\ proc.i >= 1
  BY GridAssumption DEF Types, Process, Place
<1>3. ~(proc.i \in 1..(j - 1))
  BY <1>1 DEF Point
<1>4. proc.i = j
  BY <1>1, <1>2, <1>3
<1> QED BY <1>1, <1>4 DEF Point

LEMMA RemembersStays ==
  ASSUME Types, Remembers, UNCHANGED <<outcome, knobs, trials>>,
         proc'.best = proc.best, proc'.streak = proc.streak
  PROVE  Remembers'
<1>1. Since(Len(trials))' = Since(Len(trials))
  BY DEF Since, Improvement, Better
<1> QED BY <1>1 DEF Remembers, Better, StopAfter, Eligible

LEMMA BarrenStays ==
  ASSUME StreakBounded, UNCHANGED <<outcome, knobs, trials>>, crashes' = 0 => crashes = 0
  PROVE  StreakBounded'
BY DEF StreakBounded, Since, StopAfter, Improvement, Better, Eligible

(* The trials since the last improvement are at most one more with each     *)
(* trial.                                                                   *)
LEMMA OneMore ==
  ASSUME NEW n \in Nat, NEW S, NEW m \in Nat, Cardinality(Since(n)) <= m,
         S \subseteq Since(n) \cup {n + 1}
  PROVE  Cardinality(S) \in Nat /\ Cardinality(S) <= m + 1
<1>1. IsFiniteSet(Since(n)) /\ Cardinality(Since(n)) \in Nat
  BY SinceFinite
<1> DEFINE T == Since(n)
<1> HIDE DEF T
<1>2. IsFiniteSet(T \cup {n + 1}) /\ Cardinality(T \cup {n + 1}) <= m + 1
  <2>1. IsFiniteSet(T) /\ Cardinality(T) \in Nat /\ Cardinality(T) <= m
    BY <1>1 DEF T
  <2>2. /\ IsFiniteSet(T \cup {n + 1})
        /\ \/ Cardinality(T \cup {n + 1}) = Cardinality(T)
           \/ Cardinality(T \cup {n + 1}) = Cardinality(T) + 1
    BY <2>1, FS_AddElement
  <2> QED BY <2>1, <2>2
<1>3. IsFiniteSet(S) /\ Cardinality(S) <= Cardinality(T \cup {n + 1})
  BY <1>2, FS_Subset DEF T
<1>4. Cardinality(T \cup {n + 1}) \in Nat /\ Cardinality(S) \in Nat
  BY <1>2, <1>3, FS_CardinalityType
<1> QED BY <1>2, <1>3, <1>4

(* A record of what a process remembers keeps the property.                 *)
LEMMA RecordBarren ==
  ASSUME Types, StreakBounded, crashes = 0 /\ StopAfter(knobs) > 0 => Remembers,
         NEW t \in Trial, trials' = Append(trials, t), UNCHANGED <<outcome, knobs, crashes>>
  PROVE  StreakBounded'
<1> SUFFICES ASSUME crashes = 0, StopAfter(knobs) > 0, NEW k \in DOMAIN trials'
             PROVE  Cardinality(Since(k)') <= StopAfter(knobs)
  BY DEF StreakBounded, Since, StopAfter
<1>1. PICK n \in Nat : Len(trials) = n
  BY DEF Types
<1>2. k \in 1..n \/ k = n + 1
  BY <1>1 DEF Types
<1>3. CASE k \in 1..n
  <2>1. Since(k)' = Since(k)
    BY <1>1, <1>3, SinceGrows
  <2>2. k \in DOMAIN trials
    BY <1>1, <1>3 DEF Types
  <2> QED BY <2>1, <2>2, StopAfterType DEF StreakBounded
<1>4. CASE k = n + 1
  <2>1. proc.streak \in Nat /\ StopAfter(knobs) \in Int
    BY StopAfterType DEF Types, Process
  <2>2. Cardinality(Since(n)) <= proc.streak /\ proc.streak < StopAfter(knobs)
    BY <1>1 DEF Remembers
  <2>3. Since(n + 1)' \subseteq Since(n) \cup {n + 1}
    BY <1>1, SinceGrows
  <2>4. Cardinality(Since(n + 1)') \in Nat /\ Cardinality(Since(n + 1)') <= proc.streak + 1
    BY <2>1, <2>2, <2>3, OneMore
  <2>5. Since(k)' = Since(n + 1)'
    BY <1>4 DEF Since
  <2> QED BY <2>1, <2>2, <2>4, <2>5
<1> QED BY <1>2, <1>3, <1>4

(* What a process remembers is true of the log after it has added a trial.  *)
LEMMA AppendRemembers ==
  ASSUME Types, Remembers, NEW t \in Trial, trials' = Append(trials, t),
         UNCHANGED <<outcome, knobs>>, proc' \in Process,
         \/ ~Eligible(t) /\ outcome[t.point].run # "completed"
            /\ proc'.best = proc.best /\ proc'.streak = proc.streak
         \/ Improves(t) /\ proc'.best = t.metric /\ proc'.streak = 0
         \/ ~Improves(t) /\ proc'.best = proc.best /\ proc'.streak = proc.streak + 1,
         StopAfter(knobs) > 0 => proc'.streak < StopAfter(knobs)
  PROVE  Remembers'
<1>1. PICK n \in Nat : Len(trials) = n
  BY DEF Types
<1>2. /\ DOMAIN trials = 1..n /\ DOMAIN trials' = 1..(n + 1) /\ Len(trials') = n + 1
      /\ \A k \in 1..n : trials'[k] = trials[k] /\ trials[k] \in Trial
      /\ trials'[n + 1] = t
  BY <1>1 DEF Types
<1>3. /\ proc.best \in Int \cup {NoMetric} /\ proc.streak \in Nat /\ t.metric \in Int \cup {NoMetric}
      /\ \A k \in 1..n : trials[k].metric \in Int \cup {NoMetric}
  BY <1>2 DEF Types, Process, Metrics, Trial
<1>4. \A k \in 1..n : Eligible(trials[k]) => proc.best # NoMetric /\ ~Better(trials[k].metric, proc.best)
  BY <1>2 DEF Remembers
<1>5. Cardinality(Since(n)) <= proc.streak /\ Cardinality(Since(n)) \in Nat
  BY <1>1, SinceFinite DEF Remembers
<1>6. /\ Since(n + 1)' \subseteq Since(n) \cup {n + 1}
      /\ outcome[t.point].run # "completed" => Since(n + 1)' \subseteq Since(n)
      /\ Eligible(t) /\ (\A l \in 1..n : Eligible(trials[l]) => Better(t.metric, trials[l].metric))
           => Since(n + 1)' = {}
  BY <1>1, SinceGrows
<1>7. ASSUME Improves(t), NEW k \in 1..n, Eligible(trials[k])
      PROVE  Better(t.metric, trials[k].metric)
  BY <1>3, <1>4, <1>7, MetricAssumption DEF Improves, Better, Eligible
<1>8. Cardinality(Since(n + 1)') <= proc'.streak
  <2>1. CASE outcome[t.point].run # "completed" /\ proc'.streak = proc.streak
    <3>1. Since(n + 1)' \in SUBSET Since(n)
      BY <1>6, <2>1
    <3>2. Cardinality(Since(n + 1)') <= Cardinality(Since(n)) /\ Cardinality(Since(n + 1)') \in Nat
      BY <3>1, SinceFinite, FS_Subset, FS_CardinalityType
    <3> QED BY <1>3, <1>5, <2>1, <3>2
  <2>2. CASE Improves(t) /\ proc'.streak = 0
    <3>1. Since(n + 1)' = {}
      BY <1>6, <1>7, <2>2 DEF Improves
    <3>2. Cardinality(Since(n + 1)') = 0
      BY <3>1, FS_EmptySet
    <3> QED BY <2>2, <3>2
  <2>3. CASE proc'.streak = proc.streak + 1
    BY <1>3, <1>5, <1>6, <2>3, OneMore
  <2> QED BY <2>1, <2>2, <2>3
<1>9. ASSUME NEW k \in 1..(n + 1), Eligible(trials'[k])
      PROVE  proc'.best # NoMetric /\ ~Better(trials'[k].metric, proc'.best)
  <2>1. k \in 1..n \/ k = n + 1
    OBVIOUS
  <2>2. CASE Improves(t) /\ proc'.best = t.metric
    <3>1. t.metric # NoMetric /\ ~Better(t.metric, t.metric)
      BY <1>3, <2>2 DEF Improves, Eligible, Better
    <3>2. CASE k \in 1..n
      BY <1>2, <1>3, <1>7, <1>9, <2>2, <3>1, <3>2, MetricAssumption DEF Better, Eligible
    <3> QED BY <1>2, <2>1, <2>2, <3>1, <3>2
  <2>3. CASE ~Improves(t) /\ proc'.best = proc.best
    <3>1. CASE k = n + 1
      BY <1>2, <1>9, <2>3, <3>1 DEF Improves
    <3>2. CASE k \in 1..n
      BY <1>2, <1>4, <1>9, <2>3, <3>2
    <3> QED BY <2>1, <3>1, <3>2
  <2> QED BY <2>2, <2>3 DEF Improves
<1>10. Since(Len(trials))' = Since(n + 1)'
  BY <1>2 DEF Since
<1> QED BY <1>2, <1>8, <1>9, <1>10 DEF Remembers, Better, StopAfter, Eligible

(* A new trial goes to the log with a process that remembers: a sweep that  *)
(* is stuck records nothing.                                                *)
LEMMA AppendBarren ==
  ASSUME Inv, crashes \in Nat, Memory, StreakBounded, AppendTrial
  PROVE  Memory' /\ StreakBounded'
<1> USE DEF given, evidence
<1> DEFINE t == NewTrial(proc.passed, outcome[Point].holdout, outcome[Point].metric)
<1>1. /\ proc.i \in DOMAIN Combos /\ Point \notin Recorded /\ Point \in Points
      /\ outcome[Point].run = "completed"
  BY GridAssumption DEF AppendTrial, Inv, Place, Types, Process, Point
<1>2. t \in Trial
  <2>1. outcome[Point] \in Outcome /\ proc.i \in Nat /\ proc.passed \in BOOLEAN
    BY <1>1, OutcomesAssumption DEF Inv, Types, Process
  <2> QED BY <1>1, <2>1 DEF NewTrial, Trial, Outcome
<1> HIDE DEF t
<1>3. /\ trials' = Append(trials, t)
      /\ proc' = [proc EXCEPT !.i = @ + 1, !.tried = @ + 1,
                   !.best = IF Improves(t) THEN t.metric ELSE @,
                   !.streak = Streak(t),
                   !.at = IF StopAfter(knobs) > 0 /\ Streak(t) >= StopAfter(knobs) THEN "stop" ELSE "next"]
      /\ UNCHANGED <<outcome, knobs, leaderboard, crashes>>
  BY DEF AppendTrial, t
<1>4. crashes = 0 => Remembers
  BY <1>1, StuckHere DEF Memory, AppendTrial, Inv
<1>5. StreakBounded'
  BY <1>2, <1>3, <1>4, RecordBarren DEF Inv
<1>6. proc \in Process /\ proc' \in Process
  BY <1>3, StepInv DEF Inv, Types, Next, Sweep
<1>7. /\ proc'.best = IF Improves(t) THEN t.metric ELSE proc.best
      /\ proc'.streak = Streak(t)
      /\ proc'.at = IF StopAfter(knobs) > 0 /\ Streak(t) >= StopAfter(knobs) THEN "stop" ELSE "next"
  BY <1>3, <1>6 DEF Process
<1>8. ASSUME crashes = 0, proc'.at = "next" PROVE Remembers'
  <2>1. proc'.streak \in Nat /\ StopAfter(knobs) \in Int
    BY <1>6, StopAfterType DEF Inv, Process
  <2>2. StopAfter(knobs) > 0 => proc'.streak < StopAfter(knobs)
    BY <1>7, <1>8, <2>1
  <2>3. \/ Improves(t) /\ proc'.best = t.metric /\ proc'.streak = 0
        \/ ~Improves(t) /\ proc'.best = proc.best /\ proc'.streak = proc.streak + 1
    BY <1>7 DEF Streak
  <2> QED BY <1>2, <1>3, <1>4, <1>6, <1>8, <2>2, <2>3, AppendRemembers DEF Inv
<1>9. proc'.at \in {"next", "stop"}
  BY <1>7
<1> QED BY <1>3, <1>5, <1>8, <1>9 DEF Memory

LEMMA InvalidBarren ==
  ASSUME Inv, crashes \in Nat, Memory, StreakBounded, RecordInvalid
  PROVE  Memory' /\ StreakBounded'
<1> USE DEF given, evidence
<1> DEFINE t == NewTrial(FALSE, "absent", NoMetric)
<1>1. /\ proc.i \in DOMAIN Combos /\ Point \notin Recorded /\ Point \in Points /\ proc.i \in Nat
      /\ outcome[Point].run = "invalid"
  BY GridAssumption DEF RecordInvalid, Room, Inv, Place, Types, Process, Point
<1>2. t \in Trial /\ ~Eligible(t) /\ t.point = Point
  BY <1>1 DEF NewTrial, Trial, Eligible
<1> HIDE DEF t
<1>3. /\ trials' = Append(trials, t)
      /\ proc' = [proc EXCEPT !.i = @ + 1, !.tried = @ + 1]
      /\ UNCHANGED <<outcome, knobs, leaderboard, crashes>>
  BY DEF RecordInvalid, t
<1>4. crashes = 0 => Remembers
  BY <1>1, StuckHere DEF Memory, RecordInvalid, Room, Inv
<1>5. StreakBounded'
  BY <1>2, <1>3, <1>4, RecordBarren DEF Inv
<1>6. proc \in Process /\ proc' \in Process
  BY StepInv DEF Inv, Types, Next, Sweep
<1>7. proc'.best = proc.best /\ proc'.streak = proc.streak /\ proc'.at = "next"
  BY <1>3, <1>6 DEF Process, RecordInvalid, Room
<1>8. crashes = 0 => Remembers'
  BY <1>1, <1>2, <1>3, <1>4, <1>6, <1>7, AppendRemembers DEF Inv, Remembers
<1> QED BY <1>3, <1>5, <1>7, <1>8 DEF Memory

(* Every other step leaves the log alone, and the process either keeps what *)
(* it remembers or has no more to do with it.                               *)
LEMMA BarrenStep ==
  ASSUME Inv, crashes \in Nat, Memory, StreakBounded, [Next]_vars
  PROVE  Memory' /\ StreakBounded'
<1> USE DEF given, evidence
<1>1. /\ proc \in Process /\ proc' \in Process /\ proc.i \in Nat /\ proc'.i \in Nat
      /\ proc.i >= 1 /\ Types
  BY StepInv DEF Inv, Types, Process, Place
<1>2. ASSUME UNCHANGED <<outcome, knobs, trials, leaderboard, crashes>>,
             proc'.best = proc.best, proc'.streak = proc.streak, proc'.i = proc.i,
             \/ proc'.at = proc.at
             \/ proc.at \in {"next", "gates", "append"} /\ proc'.at \in {"gates", "append"}
      PROVE  Memory' /\ StreakBounded'
  <2>1. StreakBounded'
    BY <1>2, BarrenStays
  <2>2. Remembers => Remembers'
    BY <1>1, <1>2, RemembersStays
  <2>3. Stuck => Stuck'
    BY <1>1, <1>2, StuckStays
  <2> QED BY <1>2, <2>1, <2>2, <2>3 DEF Memory
<1>3. ASSUME UNCHANGED <<outcome, knobs, trials, crashes>>,
             proc'.at \in {"rank", "index", "return", "idle"},
             proc'.at = "rank" \/ leaderboard'.there
      PROVE  Memory' /\ StreakBounded'
  BY <1>3, BarrenStays DEF Memory
<1>4. CASE Begin
  <2>1. StreakBounded'
    BY <1>4, BarrenStays DEF Begin
  <2>2. proc'.at = "next" /\ proc'.i = 1 /\ proc'.best = NoMetric /\ proc'.streak = 0
    BY <1>4 DEF Begin, Idle
  <2>3. ASSUME trials = <<>> PROVE Remembers'
    <3>1. trials' = <<>> /\ Len(trials') = 0 /\ DOMAIN trials' = {}
      BY <1>4, <2>3 DEF Begin
    <3>2. Since(Len(trials))' = {}
      BY <3>1 DEF Since
    <3>3. Cardinality(Since(Len(trials))') = 0
      BY <3>2, FS_EmptySet
    <3> QED BY <2>2, <3>1, <3>3 DEF Remembers
  <2>4. Stuck => Stuck'
    BY <1>1, <1>4, <2>2, StuckStays DEF Begin
  <2> QED BY <1>4, <2>1, <2>2, <2>3, <2>4 DEF Begin, Memory
<1>5. CASE Refuse
  BY <1>2, <1>5 DEF Refuse
<1>6. CASE Exhausted
  BY <1>3, <1>6 DEF Exhausted, Goto, Process
<1>7. CASE SkipDone
  <2>1. /\ proc'.i = proc.i + 1 /\ proc'.best = proc.best /\ proc'.streak = proc.streak
        /\ proc'.at = "next" /\ proc.at = "next" /\ Point \in Recorded
        /\ UNCHANGED <<outcome, knobs, trials, leaderboard, crashes>>
    BY <1>1, <1>7 DEF SkipDone, Room, Process
  <2>2. StreakBounded'
    BY <2>1, BarrenStays
  <2>3. Remembers => Remembers'
    BY <1>1, <2>1, RemembersStays
  <2>4. ASSUME Stuck PROVE Stuck'
    <3>1. PICK j \in DOMAIN Combos :
            /\ outcome[Combos[j]].run = "raises"
            /\ Combos[j] \notin Recorded
            /\ \A i \in 1..(j - 1) : Combos[i] \in Recorded
            /\ proc.i <= j
      BY <2>4 DEF Stuck
    <3>2. j # proc.i /\ j \in Nat
      BY <2>1, <3>1, GridAssumption DEF Point
    <3>3. proc'.i <= j /\ Recorded' = Recorded
      BY <1>1, <2>1, <3>1, <3>2 DEF Recorded
    <3> QED BY <2>1, <3>1, <3>3 DEF Stuck
  <2> QED BY <2>1, <2>2, <2>3, <2>4 DEF Memory
<1>8. CASE SegmentRaises
  <2>1. StreakBounded'
    BY <1>8, BarrenStays DEF SegmentRaises
  <2>2. /\ proc.i \in DOMAIN Combos /\ Point \notin Recorded /\ outcome[Point].run = "raises"
        /\ proc'.i = 1 /\ proc'.at = "idle"
    BY <1>1, <1>8, GridAssumption DEF SegmentRaises, Room, Idle
  <2>3. Stuck'
    <3>1. \A i \in 1..(proc.i - 1) : i \in DOMAIN Combos /\ Combos[i] \in Recorded
      BY <1>1, <2>2, GridAssumption DEF Inv, Place
    <3>2. Recorded' = Recorded /\ UNCHANGED outcome
      BY <1>8 DEF SegmentRaises, Recorded
    <3> QED BY <1>1, <2>2, <3>1, <3>2 DEF Stuck, Point
  <2> QED BY <2>1, <2>2, <2>3 DEF Memory
<1>9. CASE WriteDossier
  BY <1>1, <1>2, <1>9 DEF WriteDossier, Room, Goto, Process
<1>10. CASE Judge
  BY <1>1, <1>2, <1>10 DEF Judge, Process
<1>11. CASE Barren
  BY <1>1, <1>3, <1>11 DEF Barren, Goto, Process
<1>12. CASE WriteLeaderboard
  BY <1>1, <1>3, <1>12 DEF WriteLeaderboard, Goto, Process
<1>13. CASE WriteIndex
  BY <1>1, <1>3, <1>13 DEF WriteIndex, Goto, Process, Memory
<1>14. CASE Proceed
  BY <1>3, <1>14 DEF Proceed, Idle, Memory
<1>15. CASE Crash
  <2>1. crashes' \in Nat /\ crashes' # 0 /\ proc'.at = "idle"
    BY <1>15 DEF Crash, Idle
  <2> QED BY <2>1 DEF Memory, StreakBounded
<1>16. CASE UNCHANGED vars
  BY <1>2, <1>16 DEF vars
<1>17. CASE RecordInvalid
  BY <1>17, InvalidBarren
<1>18. CASE AppendTrial
  BY <1>18, AppendBarren
<1> QED
  BY <1>4, <1>5, <1>6, <1>7, <1>8, <1>9, <1>10, <1>11, <1>12, <1>13, <1>14, <1>15, <1>16,
     <1>17, <1>18
  DEF Next, Sweep

(* Eligible trials are among those that count, and what counts in the end   *)
(* is no more than any limit that is set - but for a sweep that asks for 0. *)
LEMMA StreakStops ==
  ASSUME Inv, StreakBounded
  PROVE  StopsWhenBarren
<1> SUFFICES ASSUME crashes = 0, knobs.user # 0, NEW n \in {knobs.stop, knobs.user}, n > 0,
                    NEW k \in DOMAIN trials
             PROVE  Cardinality({l \in 1..k : Eligible(trials[l])
                                   /\ \A i \in l..k : ~Improvement(i)}) <= n
  BY DEF StopsWhenBarren
<1> DEFINE S == {l \in 1..k : Eligible(trials[l]) /\ \A i \in l..k : ~Improvement(i)}
<1>1. n \in Int /\ StopAfter(knobs) \in Int /\ StopAfter(knobs) > 0 /\ StopAfter(knobs) <= n
  BY KnobsAssumption DEF Inv, Types, StopAfter
<1>2. k \in Nat /\ \A l \in 1..k : l \in DOMAIN trials
  BY DEF Inv, Types
<1>3. S \in SUBSET Since(k)
  BY <1>2 DEF Inv, NoFalsePass, Eligible, Since
<1> HIDE DEF S
<1>4. Cardinality(S) <= Cardinality(Since(k)) /\ Cardinality(Since(k)) <= StopAfter(knobs)
  BY <1>1, <1>2, <1>3, SinceFinite DEF StreakBounded
<1>5. Cardinality(S) \in Nat /\ Cardinality(Since(k)) \in Nat
  BY <1>2, <1>3, SinceFinite, FS_Subset, FS_CardinalityType
<1> QED BY <1>1, <1>4, <1>5 DEF S

(* A sweep that no crash interrupts stops in time: the failing segments,    *)
(* which end a process without a crash, leave it stuck where it is          *)
(* (666-696).                                                               *)
THEOREM StopsInTime == Spec => []StopsWhenBarren
<1>1. Init => Inv /\ TypeInv /\ Memory /\ StreakBounded
  <2>1. Init => Memory /\ StreakBounded
    BY DEF Init, Idle, Memory, StreakBounded
  <2> QED BY <2>1, InitInv, TypeInit
<1>2. Inv /\ TypeInv /\ Memory /\ StreakBounded /\ [Next]_vars
        => (Inv /\ TypeInv /\ Memory /\ StreakBounded)'
  <2>1. TypeInv => crashes \in Nat
    BY DEF TypeInv, TypeOK
  <2> QED BY <2>1, StepInv, TypeStep, BarrenStep
<1>3. Inv /\ StreakBounded => StopsWhenBarren
  BY StreakStops
<1> QED BY <1>1, <1>2, <1>3, PTL DEF Spec

-----------------------------------------------------------------------------
(* How many steps at most a process has before it that is not interrupted.  *)
Remaining ==
  IF job # "due" THEN 0
  ELSE CASE proc.at = "idle" -> 3 * Len(Combos) + 7
         [] proc.at = "next" -> 3 * (Len(Combos) + 1 - proc.i) + 5
         [] proc.at = "gates" -> 3 * (Len(Combos) + 1 - proc.i) + 4
         [] proc.at = "append" -> 3 * (Len(Combos) + 1 - proc.i) + 3
         [] proc.at = "stop" -> 4
         [] proc.at = "rank" -> 3
         [] proc.at = "index" -> 2
         [] proc.at = "return" -> 1

(* No process is beyond the grid, or sweeps for a job that has gone on.     *)
InGrid == proc.i <= Len(Combos) + 1 /\ (job # "due" => proc.at = "idle")

LEMMA InGridStep == Inv /\ InGrid /\ [Next]_vars => InGrid'
<1> SUFFICES ASSUME Inv, InGrid, [Next]_vars PROVE InGrid'
  OBVIOUS
<1>1. proc.i \in Nat /\ Len(Combos) \in Nat /\ proc \in Process
  BY GridAssumption DEF Inv, Types, Process
<1>2. CASE SkipDone \/ RecordInvalid
  <2>1. proc.i <= Len(Combos) /\ proc'.i = proc.i + 1
    BY <1>1, <1>2 DEF SkipDone, RecordInvalid, Room, Process
  <2>2. job = "due" /\ job' = job
    BY <1>2 DEF SkipDone, RecordInvalid, Room, InGrid
  <2> QED BY <1>1, <2>1, <2>2 DEF InGrid
<1>3. CASE AppendTrial
  <2>1. proc.i \in DOMAIN Combos /\ proc'.i = proc.i + 1
    BY <1>1, <1>3 DEF AppendTrial, Inv, Place, Process
  <2>2. job = "due" /\ job' = job
    BY <1>3 DEF AppendTrial, InGrid
  <2> QED BY <1>1, <2>1, <2>2, GridAssumption DEF InGrid
<1>4. CASE Begin \/ SegmentRaises \/ Proceed \/ Crash
  <2>1. proc'.i = 1 /\ (proc'.at = "idle" \/ (job = "due" /\ job' = job))
    BY <1>4 DEF Begin, SegmentRaises, Proceed, Crash, Idle
  <2> QED BY <1>1, <2>1 DEF InGrid
<1>5. CASE Exhausted \/ WriteDossier \/ Judge \/ Barren \/ WriteLeaderboard \/ WriteIndex
  <2>1. proc'.i = proc.i
    BY <1>1, <1>5 DEF Exhausted, WriteDossier, Judge, Barren, WriteLeaderboard, WriteIndex, Goto, Process
  <2>2. job = "due" /\ job' = job
    BY <1>5 DEF Exhausted, WriteDossier, Room, Judge, Barren, WriteLeaderboard, WriteIndex, InGrid
  <2> QED BY <2>1, <2>2 DEF InGrid
<1>6. CASE Refuse \/ UNCHANGED vars
  BY <1>6 DEF Refuse, vars, InGrid
<1> QED BY <1>2, <1>3, <1>4, <1>5, <1>6 DEF Next, Sweep

(* The number of steps, place by place. *)
LEMMA RemainingAt ==
  ASSUME Inv, InGrid, TypeOK
  PROVE  LET n == Len(Combos)
             left == n + 1 - proc.i
         IN  /\ n \in Nat /\ left \in Nat /\ left <= n /\ proc.i \in Nat
             /\ job # "due" => Remaining = 0
             /\ job = "due" =>
                  /\ proc.at = "idle" => Remaining = 3 * n + 7
                  /\ proc.at = "next" => Remaining = 3 * left + 5
                  /\ proc.at = "gates" => Remaining = 3 * left + 4
                  /\ proc.at = "append" => Remaining = 3 * left + 3
                  /\ proc.at = "stop" => Remaining = 4
                  /\ proc.at = "rank" => Remaining = 3
                  /\ proc.at = "index" => Remaining = 2
                  /\ proc.at = "return" => Remaining = 1
             /\ proc.at \in Places
<1>1. /\ Len(Combos) \in Nat /\ proc.i \in Nat /\ proc.i >= 1 /\ proc.i <= Len(Combos) + 1
      /\ proc.at \in Places
  BY GridAssumption DEF Inv, InGrid, Types, Place, Process
<1>2. Len(Combos) + 1 - proc.i \in Nat /\ Len(Combos) + 1 - proc.i <= Len(Combos)
  BY <1>1
<1>3. ASSUME job = "due" PROVE proc.at = "idle" => Remaining = 3 * Len(Combos) + 7
  BY <1>3 DEF Remaining
<1>4. ASSUME job = "due" PROVE proc.at = "next" => Remaining = 3 * (Len(Combos) + 1 - proc.i) + 5
  BY <1>4 DEF Remaining
<1>5. ASSUME job = "due" PROVE proc.at = "gates" => Remaining = 3 * (Len(Combos) + 1 - proc.i) + 4
  BY <1>5 DEF Remaining
<1>6. ASSUME job = "due" PROVE proc.at = "append" => Remaining = 3 * (Len(Combos) + 1 - proc.i) + 3
  BY <1>6 DEF Remaining
<1>7. ASSUME job = "due"
      PROVE  /\ proc.at = "stop" => Remaining = 4
             /\ proc.at = "rank" => Remaining = 3
             /\ proc.at = "index" => Remaining = 2
             /\ proc.at = "return" => Remaining = 1
  BY <1>7 DEF Remaining
<1>8. job # "due" => Remaining = 0
  BY DEF Remaining
<1> QED BY <1>1, <1>2, <1>3, <1>4, <1>5, <1>6, <1>7, <1>8

LEMMA NextLeft ==
  ASSUME NEW n \in Nat, NEW left \in Nat, NEW i \in Nat, left = n + 1 - i
  PROVE  n + 1 - (i + 1) = left - 1
OBVIOUS

LEMMA AdvanceStep ==
  ASSUME Inv, InGrid, TypeOK, Sweep, ~SegmentRaises
  PROVE  Remaining' < Remaining
<1>1. PICK n \in Nat, left \in Nat :
        /\ n = Len(Combos) /\ left = Len(Combos) + 1 - proc.i
        /\ left <= n /\ proc.i \in Nat /\ proc.at \in Places /\ proc \in Process
  <2> DEFINE m == Len(Combos) + 1 - proc.i
  <2>1. /\ Len(Combos) \in Nat /\ m \in Nat /\ m <= Len(Combos) /\ proc.i \in Nat
        /\ proc.at \in Places /\ proc \in Process
    BY RemainingAt DEF Inv, Types
  <2>2. m = Len(Combos) + 1 - proc.i
    OBVIOUS
  <2> HIDE DEF m
  <2> QED BY <2>1, <2>2, Zenon
<1>0. n \in Nat /\ left \in Nat /\ left <= n
  BY <1>1
<1>2. CASE Begin
  <2>1. Remaining = 3 * n + 7
    BY <1>1, <1>2, RemainingAt DEF Begin
  <2>2. job' = "due" /\ proc'.at = "next" /\ proc'.i = 1
    BY <1>2 DEF Begin, Idle
  <2>3. Remaining' = 3 * n + 5
    BY <1>1, <2>2 DEF Remaining
  <2> QED BY <1>0, <2>1, <2>3
<1>3. CASE Refuse \/ Proceed
  <2>1. Remaining > 0
    <3>1. proc.at \in {"idle", "return"} /\ job = "due"
      BY <1>3 DEF Refuse, Proceed
    <3>2. CASE proc.at = "idle"
      <4>1. Remaining = 3 * n + 7
        BY <1>1, <3>1, <3>2, RemainingAt
      <4> QED BY <1>0, <4>1
    <3>3. CASE proc.at = "return"
      <4>1. Remaining = 1
        BY <3>1, <3>3, RemainingAt
      <4> QED BY <4>1
    <3> QED BY <3>1, <3>2, <3>3
  <2>2. Remaining' = 0
    BY <1>3 DEF Refuse, Proceed, Remaining
  <2> QED BY <2>1, <2>2
<1>4. ASSUME job = "due" PROVE Remaining' < Remaining
  <2>1. CASE Exhausted
    <3>1. job' = job /\ proc'.at = "rank" /\ proc.at = "next"
      BY <1>1, <2>1 DEF Exhausted, Goto, Process
    <3>2. Remaining' = 3
      BY <1>1, <1>4, <3>1 DEF Remaining
    <3>3. Remaining = 3 * left + 5
      BY <1>1, <1>4, <3>1, RemainingAt
    <3> QED BY <1>0, <3>2, <3>3
  <2>2. CASE SkipDone \/ RecordInvalid
    <3>1. job' = job /\ proc'.at = "next" /\ proc.at = "next" /\ proc'.i = proc.i + 1
      BY <1>1, <2>2 DEF SkipDone, RecordInvalid, Room, Process
    <3>2. Remaining' = 3 * (left - 1) + 5
      <4>1. Len(Combos) + 1 - proc'.i = left - 1
        BY <1>1, <3>1, NextLeft
      <4>2. Remaining' = 3 * (Len(Combos) + 1 - proc'.i) + 5
        BY <1>4, <3>1 DEF Remaining
      <4> QED BY <4>1, <4>2
    <3>3. Remaining = 3 * left + 5
      BY <1>1, <1>4, <3>1, RemainingAt
    <3> QED BY <1>0, <3>2, <3>3
  <2>3. CASE WriteDossier
    <3>1. job' = job /\ proc'.at = "gates" /\ proc.at = "next" /\ proc'.i = proc.i
      BY <1>1, <2>3 DEF WriteDossier, Room, Goto, Process
    <3>2. Remaining' = 3 * left + 4
      BY <1>1, <1>4, <3>1 DEF Remaining
    <3>3. Remaining = 3 * left + 5
      BY <1>1, <1>4, <3>1, RemainingAt
    <3> QED BY <1>0, <3>2, <3>3
  <2>4. CASE Judge
    <3>1. job' = job /\ proc'.at = "append" /\ proc.at = "gates" /\ proc'.i = proc.i
      BY <1>1, <2>4 DEF Judge, Process
    <3>2. Remaining' = 3 * left + 3
      BY <1>1, <1>4, <3>1 DEF Remaining
    <3>3. Remaining = 3 * left + 4
      BY <1>1, <1>4, <3>1, RemainingAt
    <3> QED BY <1>0, <3>2, <3>3
  <2>5. CASE AppendTrial
    <3>1. /\ job' = job /\ proc.at = "append" /\ proc'.i = proc.i + 1
          /\ proc'.at \in {"stop", "next"} /\ proc.i \in DOMAIN Combos
      BY <1>1, <2>5 DEF AppendTrial, Process, Inv, Place
    <3>2. Remaining' = 4 \/ Remaining' = 3 * (left - 1) + 5
      <4>1. Len(Combos) + 1 - proc'.i = left - 1
        BY <1>1, <3>1, NextLeft
      <4>2. Remaining' = 4 \/ Remaining' = 3 * (Len(Combos) + 1 - proc'.i) + 5
        BY <1>4, <3>1 DEF Remaining
      <4> QED BY <4>1, <4>2
    <3>3. Remaining = 3 * left + 3
      BY <1>1, <1>4, <3>1, RemainingAt
    <3>4. left >= 1
      BY <1>1, <3>1, GridAssumption
    <3> QED BY <1>0, <3>2, <3>3, <3>4
  <2>6. CASE Barren
    <3>1. job' = job /\ proc'.at = "rank" /\ proc.at = "stop"
      BY <1>1, <2>6 DEF Barren, Goto, Process
    <3>2. Remaining' = 3 /\ Remaining = 4
      BY <1>4, <3>1, RemainingAt DEF Remaining
    <3> QED BY <3>2
  <2>7. CASE WriteLeaderboard
    <3>1. job' = job /\ proc'.at = "index" /\ proc.at \in {"rank", "next"}
      BY <1>1, <2>7 DEF WriteLeaderboard, Goto, Process
    <3>2. Remaining' = 2
      BY <1>4, <3>1 DEF Remaining
    <3>3. Remaining = 3 \/ Remaining = 3 * left + 5
      BY <1>1, <1>4, <3>1, RemainingAt
    <3> QED BY <1>0, <3>2, <3>3
  <2>8. CASE WriteIndex
    <3>1. job' = job /\ proc'.at = "return" /\ proc.at = "index"
      BY <1>1, <2>8 DEF WriteIndex, Goto, Process
    <3>2. Remaining' = 1 /\ Remaining = 2
      BY <1>4, <3>1, RemainingAt DEF Remaining
    <3> QED BY <3>2
  <2> QED
    BY <1>2, <1>3, <2>1, <2>2, <2>3, <2>4, <2>5, <2>6, <2>7, <2>8 DEF Sweep
<1>5. ASSUME job # "due" PROVE Begin \/ Refuse \/ Proceed
  <2>1. proc.at = "idle"
    BY <1>5 DEF InGrid
  <2> QED
    BY <2>1 DEF Sweep, Exhausted, SkipDone, RecordInvalid, WriteDossier, Room, Judge, AppendTrial,
       Barren, WriteLeaderboard, WriteIndex
<1> QED BY <1>2, <1>3, <1>4, <1>5

LEMMA WithinBound ==
  ASSUME NEW n \in Nat, NEW left \in Nat, left <= n, NEW r,
         \/ r \in 0..4 \/ r = 3 * n + 7
         \/ r = 3 * left + 5 \/ r = 3 * left + 4 \/ r = 3 * left + 3
  PROVE  r \in 0..(3 * n + 7)
<1>1. /\ 4 <= 3 * n + 7 /\ 3 * left + 5 <= 3 * n + 7
      /\ 3 * left + 4 <= 3 * n + 7 /\ 3 * left + 3 <= 3 * n + 7
  OBVIOUS
<1>2. r \in Int /\ 0 <= r /\ r <= 3 * n + 7
  BY <1>1
<1> QED BY <1>2

(* Every step of the sweep brings its process nearer to its end, but for    *)
(* the back test that raises, which starts it again: so a process takes at  *)
(* most 3 n + 7 steps on a grid of n (413-767).                             *)
THEOREM SweepAdvances ==
  Spec => [][/\ Remaining \in 0..(3 * Len(Combos) + 7)
             /\ Sweep /\ ~SegmentRaises => Remaining' < Remaining]_vars
<1>1. Init => Inv /\ InGrid
  BY InitInv, GridAssumption DEF Init, Idle, InGrid
<1>2. Inv /\ InGrid /\ [Next]_vars => (Inv /\ InGrid)'
  BY StepInv, InGridStep
<1>3. Inv /\ InGrid /\ TypeOK =>
        /\ Remaining \in 0..(3 * Len(Combos) + 7)
        /\ Sweep /\ ~SegmentRaises => Remaining' < Remaining
  <2> SUFFICES ASSUME Inv, InGrid, TypeOK PROVE Remaining \in 0..(3 * Len(Combos) + 7)
    BY AdvanceStep
  <2> DEFINE n == Len(Combos)
             left == n + 1 - proc.i
  <2>1. n \in Nat /\ left \in Nat /\ left <= n
    BY RemainingAt
  <2>2. \/ Remaining \in 0..4 \/ Remaining = 3 * n + 7
        \/ Remaining = 3 * left + 5 \/ Remaining = 3 * left + 4 \/ Remaining = 3 * left + 3
    <3>1. proc.at \in Places
      BY RemainingAt
    <3>2. CASE job = "due"
      BY <3>1, <3>2, RemainingAt DEF Places
    <3>3. CASE job # "due"
      BY <3>3, RemainingAt
    <3> QED BY <3>2, <3>3
  <2> HIDE DEF n, left
  <2> QED BY <2>1, <2>2, WithinBound DEF n
<1> QED BY <1>1, <1>2, <1>3, TypesHold, PTL DEF Spec
===============================================================================
