---------------------------- MODULE MCActionPlan ----------------------------
(* ActionPlan for TLC: requests, steps and files are alike. *)
EXTENDS ActionPlanProperties, TLC

Alike == Permutations(Requests) \cup Permutations(StepIds) \cup Permutations(Files)

=============================================================================
