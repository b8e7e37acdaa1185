----------------------- MODULE RiskRemindersProperties ----------------------
(* The properties of RiskReminders. *)
EXTENDS RiskReminders

Held(k) == \E s \in Servers : k \in sweeps[s].held

Entry(k) ==
    IF k \in lost THEN "lost"
    ELSE IF Held(k) THEN "held"
    ELSE IF told[k] > 0 THEN "told" ELSE "free"

Ledger == INSTANCE ReminderLedger WITH entry <- [ k \in Reminders |-> Entry(k) ]

\* Every reminder is claimed, told, given back or lost the way the ledger says,
\* whatever the servers' sweeps do at the same time, however often a sweep is
\* run on a day: one that was told is never claimed again.
ImplementsLedger == Ledger!Spec

\* Every variable has its type, no reminder (risk, tier and date being the same)
\* is reported as sent twice, and a row of risk_reminder stands for one that was
\* told, or that the sweep of the server that inserted it is about to tell, or
\* that a fault has lost: no path of the sweep leaves a claim behind, with nobody
\* told.
ClaimsAreAccountedFor ==
    /\ RemindersTypeOK
    /\ \A k \in Reminders :
          /\ told[k] <= 1
          /\ holder[k] # NoServer =>
                told[k] > 0 \/ k \in lost \/ k \in sweeps[holder[k]].held

\* A sweep that reads its list to the end, while no risk leaves the list or comes to it
\* between a count and its page, has come to every reminder that fell on its day: the
\* pages and the horizon leave no risk out whose date, level and status stay what they
\* are, unless two of one second were on different pages.
SteadyListIsCovered ==
    [][\A s \in Servers :
          Completes(s) /\ sweeps[s].steady =>
              \A k \in sweeps[s].watched :
                  MayBeOverlooked(Approaching(sweeps[s].day), created, PageLimit, k.risk)]_vars

=============================================================================
