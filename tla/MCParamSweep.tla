---------------------------- MODULE MCParamSweep ----------------------------
(* Small instances of ParamSweep for TLC. *)
EXTENDS ParamSweep, TLC

CONSTANTS p1, p2, p3

ThreePoints == {p1, p2, p3}
(* p2 is in the grid twice. *)
GridWithRepeat == <<p1, p2, p2, p3>>
OnePoint == {p1}

Result(run, pass, holdout, metric) ==
  [run |-> run, pass |-> pass, holdout |-> holdout, metric |-> metric]

SomeOutcomes ==
  {Result("invalid", FALSE, "absent", NoMetric), Result("raises", FALSE, "absent", NoMetric),
   Result("completed", TRUE, "absent", 1), Result("completed", TRUE, "pass", 2),
   Result("completed", TRUE, "fail", 2), Result("completed", FALSE, "absent", 2),
   Result("completed", TRUE, "pass", NoMetric)}

(* No limit on trials; the sweep's below, above and without the policy's.   *)
TrialLimits == {<<0, 0>>, <<2, 1>>, <<2, 4>>, <<0, 3>>}

(* The same for the stop, with a sweep that says nothing and one that says 0. *)
StopLimits == {<<0, -1>>, <<1, -1>>, <<2, 1>>, <<1, 2>>, <<0, 1>>, <<1, 0>>}

SomeKnobs ==
  {[proposals |-> l[1], trials |-> l[2], stop |-> s[1], user |-> s[2], higher |-> h] :
     l \in TrialLimits, s \in StopLimits, h \in BOOLEAN}
=============================================================================
