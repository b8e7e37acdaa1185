SPECIFICATION Spec
CONSTANTS
    Requests = {r1, r2}
    EscalationIds = {e1, e2}
    Operations = {"OwnerApprove", "ManagementApprove", "Approve", "Reject", "Complete", "Resubmit", "Cancel", "Close", "Update", "CompletePlan", "Escalate", "Comment"}
SYMMETRY Alike
INVARIANTS
    RevisionCarriesItsStage
    OwnerStampPrecedesProgress
    SignOffsInOrder
    NoMoveIsRefused
    EscalatedHasOpenRow
PROPERTIES
    GrossChangesOnlyBeforeReview
    ImplementsLifecycle
CHECK_DEADLOCK FALSE
