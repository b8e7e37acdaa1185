---------------------------- MODULE AuditReminders --------------------------
(***************************************************************************)
(* The sweep that reminds of the controls of ongoing audits.  Every backend *)
(* server runs it once a day and when an administrator triggers it.  A sweep *)
(* lists all controls, computes from each one's status whom it is waiting on *)
(* and the date that counts, and claims one reminder after the other for its *)
(* recipient and, when it is overdue, for the compliance admins.  Only then  *)
(* does it send: one digest per recipient, after these one per admin and      *)
(* audit.  A digest that was not sent gives its claims back, and so does a    *)
(* sweep that panics with all it still holds.                                *)
(*                                                                         *)
(* A control has at most one population.  A call that fails, times out or is  *)
(* cancelled is one that fails, and so is one whose answer is lost.          *)
(***************************************************************************)
EXTENDS Integers, FiniteSets

CONSTANTS
    Servers,     \* the backend replicas
    NoServer,    \* the holder of a reminder nobody claimed
    People,
    Nobody,      \* the owner or auditor of a control that has none
    Admins,      \* those who hold ManageControls
    Controls,    \* numbers, in the order of the list
    AuditOf,     \* of each control
    Shapes,      \* the rows a control can take in the checked instance
    Days,        \* the days on which anything happens
    NoDate,
    MaxEdits,    \* bound: changes of a control or an audit
    MaxFaults    \* bound: crashes, panics and calls that leave a claim behind

ASSUME AuditRemindersAssumption ==
    /\ IsFiniteSet(Servers) /\ NoServer \notin Servers
    /\ Controls \subseteq Int /\ Nobody \notin People /\ Admins \subseteq People
    /\ Days \subseteq Int /\ Days # {} /\ NoDate \notin Int
    /\ MaxEdits \in Nat /\ MaxFaults \in Nat

VARIABLES
    today,
    control,     \* the row of each control, with its population's owner and date
    closed,      \* the audits that are completed or removed
    holder,      \* the reminder rows of audit_notification: who inserted each
    sweeps,      \* what each server's sweep is doing
    told,        \* history: in how many digests reported as sent each one was
    lost,        \* history: reminders whose claim nobody will ever release
    edits, faults

sweepVars == <<today, control, closed, holder, sweeps, told, lost, edits, faults>>

Audits == { AuditOf[c] : c \in Controls }

Route(who, pop) == [ waitsOn |-> who, population |-> pop ]

\* Whom a control of each status is waiting on, and whether the population's
\* date counts; a control that is COMPLETE is waiting on nobody.
StatusRoutes ==
    [ POPULATION_PENDING            |-> Route("owner", TRUE),
      POPULATION_NEED_CLARIFICATION |-> Route("owner", TRUE),
      POPULATION_INTERNAL_REVIEW    |-> Route("admins", TRUE),
      POPULATION_UNDER_VALIDATION   |-> Route("auditor", TRUE),
      POPULATION_COMPLETE           |-> Route("auditor", FALSE),
      AWAITING_SAMPLE               |-> Route("auditor", FALSE),
      SUBMITTED_SAMPLE              |-> Route("owner", FALSE),
      EVIDENCE_PENDING              |-> Route("owner", FALSE),
      EVIDENCE_NEED_CLARIFICATION   |-> Route("owner", FALSE),
      EVIDENCE_INTERNAL_REVIEW      |-> Route("admins", FALSE),
      EVIDENCE_UNDER_VALIDATION     |-> Route("auditor", FALSE) ]

Routed == DOMAIN StatusRoutes

Control ==
    [ status : Routed \cup { "COMPLETE" }, owner : People \cup { Nobody },
      auditor : People \cup { Nobody }, due : Int \cup { NoDate },
      hasPopulation : BOOLEAN, popOwner : People \cup { Nobody }, popDue : Int \cup { NoDate } ]

ASSUME ShapesAssumption == Shapes \subseteq Control

Tiers == { "REMINDER_DUE_10", "REMINDER_DUE_5", "REMINDER_DUE_TODAY", "REMINDER_OVERDUE" }

\* An item is a control or its population.
Items == [ kind : { "control", "population" }, of : Controls ]

ReminderTier(due, day) ==
    CASE due < day       -> "REMINDER_OVERDUE"
      [] due = day       -> "REMINDER_DUE_TODAY"
      [] due = day + 5   -> "REMINDER_DUE_5"
      [] due = day + 10  -> "REMINDER_DUE_10"
      [] OTHER             -> "none"

-----------------------------------------------------------------------------
(* Which reminders a sweep of a day wants. *)

Assignee(row) ==
    LET route == StatusRoutes[row.status]
    IN  CASE route.waitsOn = "owner" -> IF route.population THEN row.popOwner ELSE row.owner
          [] route.waitsOn = "auditor" -> row.auditor
          [] route.waitsOn = "admins" -> Nobody

PopulationPhase(row) == StatusRoutes[row.status].population /\ row.hasPopulation

DueDate(row) ==
    IF PopulationPhase(row) /\ row.popDue # NoDate THEN row.popDue ELSE row.due

Counts(row, day) ==
    /\ row.status \in Routed /\ DueDate(row) # NoDate
    /\ ReminderTier(DueDate(row), day) # "none"

Overdue(row, day) == DueDate(row) < day

\* The key of its row: the date is the due date, or for an overdue item the day
\* of the sweep.
ReminderTo(p, c, row, day) ==
    [ to   |-> p,
      tier |-> ReminderTier(DueDate(row), day),
      item |-> [ kind |-> IF PopulationPhase(row) THEN "population" ELSE "control",
                 of |-> c ],
      date |-> IF Overdue(row, day) THEN day ELSE DueDate(row) ]

\* All the reminders there can be.
Reminders ==
    UNION { { ReminderTo(p, c, x[1], x[2]) : p \in People, c \in Controls } :
            x \in { y \in Shapes \X Days : Counts(y[1], y[2]) } }

Attempt(p, c, day, digest) ==
    [ reminder |-> ReminderTo(p, c, control[c], day), digest |-> digest ]

\* The person it is waiting on, or else the admins, in their own digest; but
\* never both kinds of digest for an overdue item that waits on no person.
OwnDigests(c, day, admins) ==
    LET actor == Assignee(control[c])
    IN  IF actor # Nobody THEN { Attempt(actor, c, day, "own") }
        ELSE IF Overdue(control[c], day) THEN {}
        ELSE { Attempt(p, c, day, "own") : p \in admins }

\* An overdue item goes to all admins but the one it is waiting on.
Escalations(c, day, admins) ==
    IF Overdue(control[c], day)
    THEN { Attempt(p, c, day, "admin") : p \in admins \ { Assignee(control[c]) } }
    ELSE {}

Attempts(day, admins) ==
    UNION { OwnDigests(c, day, admins) \cup Escalations(c, day, admins) :
            c \in { d \in Controls : AuditOf[d] \notin closed /\ Counts(control[d], day) } }

-----------------------------------------------------------------------------

\* todo: the claims it is still to make.  own, admin: what it has claimed and
\* not told, the maps byRecipient and byAdmin.
Sweep == [ pc : { "idle", "claim", "own", "admin" }, day : Days,
           todo : SUBSET [ reminder : Reminders, digest : { "own", "admin" } ],
           own : SUBSET Reminders, admin : SUBSET Reminders ]

Idle == [ pc |-> "idle", day |-> CHOOSE d \in Days : TRUE,
          todo |-> {}, own |-> {}, admin |-> {} ]

AuditRemindersTypeOK ==
    /\ today \in Days
    /\ control \in [ Controls -> Control ]
    /\ closed \subseteq Audits
    /\ holder \in [ Reminders -> Servers \cup { NoServer } ]
    /\ sweeps \in [ Servers -> Sweep ]
    /\ \A s \in Servers :
          /\ sweeps[s].todo # {} => sweeps[s].pc = "claim"
          /\ sweeps[s].own # {} => sweeps[s].pc \in { "claim", "own" }
          /\ sweeps[s].admin # {} => sweeps[s].pc # "idle"
    /\ told \in [ Reminders -> Nat ]
    /\ lost \subseteq Reminders
    /\ edits \in 0..MaxEdits /\ faults \in 0..MaxFaults

SweepInit ==
    /\ today \in { d \in Days : \A e \in Days : d <= e }
    /\ control \in [ Controls -> Shapes ]
    /\ closed = {}
    /\ holder = [ k \in Reminders |-> NoServer ]
    /\ sweeps = [ s \in Servers |-> Idle ]
    /\ told = [ k \in Reminders |-> 0 ]
    /\ lost = {}
    /\ edits = 0 /\ faults = 0

NextDay ==
    /\ \E d \in Days :
          /\ d > today /\ \A e \in Days : e > today => d <= e
          /\ today' = d
    /\ UNCHANGED <<control, closed, holder, sweeps, told, lost, edits, faults>>

Edit == edits < MaxEdits /\ edits' = edits + 1

\* A transition, an assignment or another date.
ControlChanges(c, row) ==
    /\ Edit /\ row # control[c]
    /\ control' = [ control EXCEPT ![c] = row ]
    /\ UNCHANGED <<today, closed, holder, sweeps, told, lost, faults>>

\* An audit is completed or removed; an archived one is still ongoing.
AuditCloses(a) ==
    /\ Edit /\ a \notin closed
    /\ closed' = closed \cup { a }
    /\ UNCHANGED <<today, control, holder, sweeps, told, lost, faults>>

-----------------------------------------------------------------------------
(* The sweep. *)

Set(s, sweep) == sweeps' = [ sweeps EXCEPT ![s] = sweep ]

Fault == faults < MaxFaults /\ faults' = faults + 1

OnlySweeps == UNCHANGED <<today, control, closed, edits>>

\* Refused while one runs.  A failed look-up of the admins means none of them;
\* a failed list of audits or controls ends the sweep before it began.
RunOnce(s) ==
    /\ sweeps[s].pc = "idle"
    /\ \E admins \in { Admins, {} } :
          Set(s, [ Idle EXCEPT !.pc = "claim", !.day = today,
                               !.todo = Attempts(today, admins) ])
    /\ UNCHANGED <<holder, told, lost, faults>> /\ OnlySweeps

\* The claims it makes next: control by control, its recipient's before the
\* admins'.
NextAttempts(s) ==
    { a \in sweeps[s].todo :
        \A b \in sweeps[s].todo :
            \/ a.reminder.item.of < b.reminder.item.of
            \/ a.reminder.item.of = b.reminder.item.of /\ (b.digest = "own" => a.digest = "own") }

\* uq_notif_reminder_dedup: one row per recipient, tier, item and date.
Unclaimed(k) == holder[k] = NoServer

\* Its claim is made: what is left to claim, and the digest it goes into.
Queued(s, a) ==
    IF a.digest = "own"
    THEN [ sweeps[s] EXCEPT !.todo = @ \ { a }, !.own = @ \cup { a.reminder } ]
    ELSE [ sweeps[s] EXCEPT !.todo = @ \ { a }, !.admin = @ \cup { a.reminder } ]

Claim(s, a) ==
    /\ sweeps[s].pc = "claim" /\ a \in NextAttempts(s)
    /\ Unclaimed(a.reminder)
    /\ holder' = [ holder EXCEPT ![a.reminder] = s ]
    /\ Set(s, Queued(s, a))
    /\ UNCHANGED <<told, lost, faults>> /\ OnlySweeps

Skipped(s, a) == [ sweeps[s] EXCEPT !.todo = @ \ { a } ]

ClaimedBefore(s, a) ==
    /\ sweeps[s].pc = "claim" /\ a \in NextAttempts(s)
    /\ ~Unclaimed(a.reminder)
    /\ Set(s, Skipped(s, a))
    /\ UNCHANGED <<holder, told, lost, faults>> /\ OnlySweeps

\* The claim fails and is skipped (fail closed).  The row may be there all the
\* same: the insert is followed by a read of what it inserted, which can fail.
ClaimFails(s, a) ==
    /\ sweeps[s].pc = "claim" /\ a \in NextAttempts(s)
    /\ Set(s, Skipped(s, a))
    /\ \/ UNCHANGED <<holder, lost, faults>>
       \/ /\ Fault /\ Unclaimed(a.reminder)
          /\ holder' = [ holder EXCEPT ![a.reminder] = s ]
          /\ lost' = lost \cup { a.reminder }
    /\ UNCHANGED told /\ OnlySweeps

StartSending(s) ==
    /\ sweeps[s].pc = "claim" /\ sweeps[s].todo = {}
    /\ Set(s, [ sweeps[s] EXCEPT !.pc = "own" ])
    /\ UNCHANGED <<holder, told, lost, faults>> /\ OnlySweeps

\* A digest: all a recipient is told at once.
OwnDigest(s, p) == { k \in sweeps[s].own : k.to = p }

\* ... and all an admin is told of one audit.
AdminDigest(s, p, a) ==
    { k \in sweeps[s].admin : k.to = p /\ AuditOf[k.item.of] = a }

Digests(s) ==
    IF sweeps[s].pc = "own" THEN { OwnDigest(s, p) : p \in People } \ { {} }
    ELSE IF sweeps[s].pc = "admin"
         THEN { AdminDigest(s, p, a) : p \in People, a \in Audits } \ { {} }
         ELSE {}

\* Mutant: a digest stays pending when it is resolved.
StillPending(s, digest) == sweeps[s]

\* The digest is deleted from its map.
Resolved(s, digest) ==
    [ sweeps[s] EXCEPT !.own = @ \ digest, !.admin = @ \ digest ]

\* It went out, or there was nobody active to send it to.  The mail to an
\* owner's lead comes after this and touches no claim.
DigestSent(s, digest) ==
    /\ digest \in Digests(s)
    /\ told' = [ k \in Reminders |-> IF k \in digest THEN told[k] + 1 ELSE told[k] ]
    /\ Set(s, Resolved(s, digest))
    /\ UNCHANGED <<holder, lost, faults>> /\ OnlySweeps

\* The claims of a set of reminders are released.
Released(rows, digest) ==
    [ k \in Reminders |-> IF k \in digest THEN NoServer ELSE rows[k] ]

\* Some of these releases may fail.
GivesBack(digest) ==
    \/ holder' = Released(holder, digest) /\ UNCHANGED <<lost, faults>>
    \/ /\ Fault
       /\ \E kept \in SUBSET digest \ { {} } :
             /\ holder' = Released(holder, digest \ kept)
             /\ lost' = lost \cup kept

DigestFails(s, digest) ==
    /\ digest \in Digests(s)
    /\ GivesBack(digest)
    /\ Set(s, Resolved(s, digest))
    /\ UNCHANGED told /\ OnlySweeps

OwnDone(s) ==
    /\ sweeps[s].pc = "own" /\ Digests(s) = {}
    /\ Set(s, [ sweeps[s] EXCEPT !.pc = "admin" ])
    /\ UNCHANGED <<holder, told, lost, faults>> /\ OnlySweeps

Completes(s) ==
    /\ sweeps[s].pc = "admin" /\ Digests(s) = {}
    /\ Set(s, Idle)
    /\ UNCHANGED <<holder, told, lost, faults>> /\ OnlySweeps

Pending(s) == sweeps[s].own \cup sweeps[s].admin

\* Mutant: the panic ends the sweep, and nothing is released.
PanicEnds(s) ==
    /\ sweeps[s].pc # "idle" /\ Fault
    /\ Set(s, Idle)
    /\ UNCHANGED <<holder, told, lost>> /\ OnlySweeps

\* A panic anywhere in the sweep: the deferred function releases what is in the
\* two maps, and a release may fail here as well.
Panic(s) ==
    /\ sweeps[s].pc # "idle" /\ Fault
    /\ \E kept \in SUBSET Pending(s) :
          /\ holder' = Released(holder, Pending(s) \ kept)
          /\ lost' = lost \cup kept
    /\ Set(s, Idle)
    /\ UNCHANGED told /\ OnlySweeps

\* The server stops: nobody releases what it held.
Crash(s) ==
    /\ sweeps[s].pc # "idle" /\ Fault
    /\ lost' = lost \cup Pending(s)
    /\ Set(s, Idle)
    /\ UNCHANGED <<holder, told>> /\ OnlySweeps

SweepStep(s) ==
    \/ RunOnce(s) \/ StartSending(s) \/ OwnDone(s) \/ Completes(s)
    \/ \E a \in NextAttempts(s) : Claim(s, a) \/ ClaimedBefore(s, a) \/ ClaimFails(s, a)
    \/ \E digest \in Digests(s) : DigestSent(s, digest) \/ DigestFails(s, digest)
    \/ Panic(s) \/ Crash(s)

SweepNext ==
    \/ NextDay
    \/ \E c \in Controls, row \in Shapes : ControlChanges(c, row)
    \/ \E a \in Audits : AuditCloses(a)
    \/ \E s \in Servers : SweepStep(s)

SweepSpec == SweepInit /\ [][SweepNext]_sweepVars

=============================================================================
