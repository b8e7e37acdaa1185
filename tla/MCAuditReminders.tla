-------------------------- MODULE MCAuditReminders --------------------------
(* AuditReminders for TLC. *)
EXTENDS AuditRemindersProperties, TLC

CONSTANT Owners

Alike == Permutations(Servers)

OneAudit == [ c \in Controls |-> "audit" ]

Row(status, owner, due, popDue) ==
    [ status |-> status, owner |-> owner, auditor |-> owner, due |-> due,
      hasPopulation |-> TRUE, popOwner |-> owner, popDue |-> popDue ]

\* Overdue on day 2, waiting on one person; and due in five days on day 0 by the
\* population's date, with nobody assigned, so that it waits on all admins.  A
\* sweep of day 0 may still be at work on day 2.
FewShapes ==
    { Row("EVIDENCE_PENDING", p, 1, NoDate) : p \in Owners }
    \cup { Row("POPULATION_PENDING", Nobody, 1, 5) }

=============================================================================
