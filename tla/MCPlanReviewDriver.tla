------------------------- MODULE MCPlanReviewDriver -------------------------
(* The plan-and-review driver on small instances, for TLC. *)
EXTENDS PlanReviewDriver
=============================================================================
