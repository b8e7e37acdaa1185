------------------------ MODULE ActionPlanProperties ------------------------
(***************************************************************************)
(* What ActionPlan is checked for.                                         *)
(***************************************************************************)
EXTENDS ActionPlan

\* Whatever the edits and reopenings meanwhile, a COMPLETED plan had all its steps
\* COMPLETED at some moment: the list a completion checks is never empty, nor
\* assembled from different moments.
CompletedPlanWasFinished == plan = "COMPLETED" => finished

\* An edit made on a form that is out of date leaves the plan with steps: a plan
\* without any can never be completed, nor its risk submitted.
PlanKeepsSteps == Rows(steps) # {}

\* A plan becomes COMPLETED only while completion evidence exists, although the
\* evidence found by the pre-check may be deleted before the write.
CompletedWithEvidence ==
    [][plan' = "COMPLETED" /\ plan # "COMPLETED" => CompletionFiles # {}]_vars

\* A step that stays on the plan changes status only while the risk is remediated:
\* no edit reopens a step it did not name, and no step is ticked off under an
\* approver.
ProgressOnlyUnderRemediation ==
    [][\A s \in Rows(steps) :
          steps'[s] \notin { steps[s], "GONE" } => Remediating]_vars

=============================================================================
