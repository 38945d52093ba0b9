---------------------------- MODULE MCLlmBudget ----------------------------
(* Small instances of LlmBudget for TLC. *)
EXTENDS LlmBudget

CONSTANTS j1, worker, t1

OneJob == {j1}
OneThread == {t1}

ThreeAgents == <<"strategy_spec", "backtest", "demo">>
RerunBacktest == {"backtest"}
SmallAndLarge == {1, 2}
=============================================================================
