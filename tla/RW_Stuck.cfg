SPECIFICATION Spec
CONSTANTS
    Requests = {r1, r2, r3}
    EscalationIds = {e1}
    Operations = {"OwnerApprove", "Approve", "CompletePlan", "Complete", "Reject", "Resubmit", "Escalate"}
SYMMETRY Alike
INVARIANT NeverStuckEscalated
CHECK_DEADLOCK FALSE
