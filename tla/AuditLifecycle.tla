--------------------------- MODULE AuditLifecycle ---------------------------
(***************************************************************************)
(* What the audit module promises of a control and of its audit: the       *)
(* control moves only along the workflow, or backward by rank when an      *)
(* administrator overrides it; its requirement type changes only at the    *)
(* start of the workflow; and whatever changes the set of controls or      *)
(* their statuses also recomputes the status of the audit.  Every          *)
(* operation is one step here; AuditControl takes them apart.              *)
(***************************************************************************)
EXTENDS AuditStatuses

VARIABLES
    audit,      \* audit.status
    othersDone, \* every other control of the audit is COMPLETE
    type,       \* audit_control.requirement_type
    status      \* audit_control.status

lifecycle == <<audit, othersDone, type, status>>

LifecycleTypeOK ==
    /\ audit \in AuditStatusSet
    /\ othersDone \in BOOLEAN
    /\ type \in RequirementTypes
    /\ status \in RowStatuses

Done(row) == row \in { "COMPLETE", "ABSENT", "DELETED" }

\* recomputeAuditStatus: ARCHIVED and REMOVED are sticky.
Recomputed(others, row) ==
    IF audit \in { "ARCHIVED", "REMOVED" } THEN audit
    ELSE IF others /\ Done(row) THEN "COMPLETED" ELSE "ACTIVE"

FirstStatus(t) == IF t = "OE" THEN "POPULATION_PENDING" ELSE "EVIDENCE_PENDING"

LifecycleInit == LifecycleTypeOK

MoveTo(new) ==
    /\ status' = new
    /\ audit' = Recomputed(othersDone, new)
    /\ UNCHANGED <<othersDone, type>>

\* The workflow; a move to the status it has recomputes the audit all the same.
Move(new) ==
    /\ status \in ControlStatuses
    /\ ValidControlTransition(status, new)
    /\ MoveTo(new)

\* The type's floor is not promised: see StaysAboveFloor in AuditControlProperties.
Override(new) ==
    /\ status \in ControlStatuses
    /\ Backward(status, new)
    /\ MoveTo(new)

Create(t) ==
    /\ status = "ABSENT"
    /\ type' = t
    /\ status' = FirstStatus(t)
    /\ audit' = Recomputed(othersDone, status')
    /\ UNCHANGED othersDone

SwitchType(t) ==
    /\ audit # "REMOVED"
    /\ type # t
    /\ status = FirstStatus(type)
    /\ type' = t
    /\ status' = FirstStatus(t)
    /\ audit' = Recomputed(othersDone, status')
    /\ UNCHANGED othersDone

Delete == status \in ControlStatuses /\ MoveTo("DELETED")

\* The other controls of the audit move, and with them the audit.
OthersMove ==
    /\ othersDone' \in BOOLEAN
    /\ audit' = Recomputed(othersDone', status)
    /\ UNCHANGED <<type, status>>

\* An administrator sets the status of the audit, or removes it.
SetAudit(new) ==
    /\ audit' = new
    /\ UNCHANGED <<othersDone, type, status>>

LifecycleNext ==
    \/ \E new \in ControlStatuses : Move(new) \/ Override(new)
    \/ \E t \in RequirementTypes : Create(t) \/ SwitchType(t)
    \/ Delete
    \/ OthersMove
    \/ \E new \in AuditStatusSet : SetAudit(new)

LifecycleSpec == LifecycleInit /\ [][LifecycleNext]_lifecycle

=============================================================================
