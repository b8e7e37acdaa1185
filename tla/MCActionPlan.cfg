SPECIFICATION Spec
CONSTANTS
    Requests = {r1, r2}
    StepIds = {s1, s2, s3}
    Files = {f1}
    EscalationIds = {e1}
SYMMETRY Alike
INVARIANTS
    CompletedPlanWasFinished
    PlanKeepsSteps
PROPERTIES
    CompletedWithEvidence
    ProgressOnlyUnderRemediation
