----------------------------- MODULE AgentOutputs -----------------------------
(***************************************************************************)
(* The files each agent leaves in its output directory (agents/harness.py, *)
(* run_agent, one branch per agent), in the order in which the branch      *)
(* writes them.  The response bundle of the agent has a member for each.   *)
(***************************************************************************)
EXTENDS Sequences

intent_agent        == <<"blueprint_draft">>
strategy_spec_agent == <<"blueprint_final", "signal_dsl",
                         "variable_dictionary", "calc_trace_plan">>
spec_qa_agent       == <<"spec_qa_report", "spec_qa_report_md">>
demo_agent          == <<"demo_plan">>
backtest_agent      == <<"backtest_plan">>
report_agent        == <<"report_md", "report_summary">>
diagnostics_agent   == <<"diagnostics_plan">>
registry_curator    == <<"registry_curator_summary">>
composer_agent      == <<"composer_agent_plan">>
improvement_agent   == <<"improvement_proposals">>

AgentId == {"intent", "strategy_spec", "spec_qa", "demo", "backtest", "report",
            "diagnostics", "curator", "composer", "improvement"}

(* A name that is none of these is refused by run_agent. *)
OutputFiles ==
  [a \in AgentId |->
     CASE a = "intent"        -> intent_agent
       [] a = "strategy_spec" -> strategy_spec_agent
       [] a = "spec_qa"       -> spec_qa_agent
       [] a = "demo"          -> demo_agent
       [] a = "backtest"      -> backtest_agent
       [] a = "report"        -> report_agent
       [] a = "diagnostics"   -> diagnostics_agent
       [] a = "curator"       -> registry_curator
       [] a = "composer"      -> composer_agent
       [] a = "improvement"   -> improvement_agent]
=============================================================================
