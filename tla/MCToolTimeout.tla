---- MODULE MCToolTimeout ----
(* Budgets on both sides of the grace period for TLC. *)
EXTENDS ToolTimeout
MCBudgets == {0, 1, 2, 3, 5}
====
