---------------------- MODULE AuditRemindersProperties ----------------------
(* The properties of AuditReminders. *)
EXTENDS AuditReminders

Held(k) == \E s \in Servers : k \in Pending(s)

Entry(k) ==
    IF k \in lost THEN "lost"
    ELSE IF Held(k) THEN "held"
    ELSE IF told[k] > 0 THEN "told" ELSE "free"

Ledger == INSTANCE ReminderLedger WITH entry <- [ k \in Reminders |-> Entry(k) ]

\* Every reminder is claimed, told, given back or lost the way the ledger says,
\* whatever sweeps run at the same time: a digest that was told is never given
\* back, not even by a panic in a later digest.
ImplementsLedger == Ledger!Spec

\* Every variable has its type, nobody gets the same reminder in two digests, be
\* it two sweeps or the own digest and the escalation of one, and a reminder's row
\* means that it was told, or is pending in the sweep of the server that inserted
\* it, or was lost by a fault: neither a failed digest nor a panic leaves a claim
\* behind with nobody told.
ClaimsAreAccountedFor ==
    /\ AuditRemindersTypeOK
    /\ \A k \in Reminders :
          /\ told[k] <= 1
          /\ holder[k] # NoServer =>
                told[k] > 0 \/ k \in lost \/ k \in Pending(holder[k])

=============================================================================
