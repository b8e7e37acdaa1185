---------------------------- MODULE RiskReminders ---------------------------
(***************************************************************************)
(* The sweep that reminds of risks whose implementation date approaches.    *)
(* Every backend server runs it once a day and when an administrator         *)
(* triggers it.  A sweep pages forward through the risks under remediation   *)
(* that are due within the horizon, newest first; for each it computes the   *)
(* tier that falls on the day it began, claims the reminder by inserting its *)
(* row, sends it, and deletes the row again when the send failed.            *)
(*                                                                         *)
(* Risks are listed by the second of their creation, in which several may    *)
(* have been created.  A call that fails, times out or is cancelled (the 30   *)
(* minutes of the sweep included) is one that fails; a call that was carried  *)
(* out although its answer was lost is one that fails, too.                  *)
(***************************************************************************)
EXTENDS Naturals, FiniteSets, SearchPages

CONSTANTS
    Servers,     \* the backend replicas
    NoServer,    \* the holder of a reminder nobody claimed
    Risks,       \* numbered in the order of their creation
    Days,        \* the days on which anything happens
    Dues,        \* the implementation dates in use
    Seconds,     \* the times of creation in use
    PageLimit,   \* risks on one page of the search
    MaxEdits,    \* bound: changes of a risk's status, level or date
    MaxFaults    \* bound: crashes, panics and calls that leave a claim behind

ASSUME RemindersAssumption ==
    /\ NoServer \notin Servers
    /\ IsFiniteSet(Servers) /\ IsFiniteSet(Risks)
    /\ Risks \subseteq Nat /\ Days \subseteq Nat /\ Dues \subseteq Nat
    /\ Seconds \subseteq Nat
    /\ Days # {} /\ PageLimit \in Nat \ { 0 }
    /\ MaxEdits \in Nat /\ MaxFaults \in Nat

VARIABLES
    today,
    created,    \* of each risk: created_at, in seconds since the first was created
    risk,       \* of each risk: whether it is under remediation, its level, its date
    holder,     \* the rows of risk_reminder: the server whose sweep inserted each
    sweeps,     \* what each server's sweep is doing
    told,       \* history: how often each reminder was reported as sent
    lost,       \* history: reminders whose claim nobody will ever release
    edits, faults

vars == <<today, created, risk, holder, sweeps, told, lost, edits, faults>>

Levels == { "HIGH", "MEDIUM", "LOW" }
Tiers  == { "DUE_IN_15_DAYS", "DUE_IN_5_DAYS", "DUE_TODAY" }

NoTier   == "none"

Lead == [ DUE_IN_15_DAYS |-> 15, DUE_IN_5_DAYS |-> 5, DUE_TODAY |-> 0 ]

MaxReminderLeadDays == 15

TiersOf ==
    [ HIGH   |-> Tiers,
      MEDIUM |-> { "DUE_IN_5_DAYS", "DUE_TODAY" },
      LOW    |-> { "DUE_TODAY" } ]

Reminders == [ risk : Risks, tier : Tiers, due : Dues ]

Item == [ open : BOOLEAN, level : Levels, due : Dues ]

\* The tier of a risk of that level on that day, if one falls on it.
ReminderTierFor(level, due, day) ==
    LET falling == { t \in TiersOf[level] : day + Lead[t] = due }
    IN  IF falling = {} THEN NoTier ELSE CHOOSE t \in falling : TRUE

\* What the search of the sweep of that day finds: under remediation, due within
\* the horizon.
Matches(item, day) ==
    item.open /\ item.due \in day..(day + MaxReminderLeadDays)

Approaching(day) == { r \in Risks : Matches(risk[r], day) }

\* The reminders that fall on that day.
Falling(day) ==
    { k \in Reminders :
        /\ k.risk \in Approaching(day) /\ k.due = risk[k.risk].due
        /\ k.tier = ReminderTierFor(risk[k.risk].level, k.due, day) }

\* page: the items read and not yet worked on; total: the count that came with them.
\* held: the reminder claimed and not yet told or given back.
\* watched, steady: history, the reminders that fell on the day when the sweep
\* began, whose risks have not changed and which it has not come to; and
\* whether no risk has left the list since, or come to it between a count and its page.
Sweep == [ pc : { "idle", "list", "select", "page", "notify" }, day : Days, offset : Nat,
           page : SUBSET (Risks \X Item), total : Nat, held : SUBSET Reminders,
           watched : SUBSET Reminders, steady : BOOLEAN ]

Idle == [ pc |-> "idle", day |-> CHOOSE d \in Days : TRUE, offset |-> 0,
          page |-> {}, total |-> 0, held |-> {}, watched |-> {}, steady |-> TRUE ]

RemindersTypeOK ==
    /\ today \in Days
    /\ created \in [ Risks -> Nat ]
    /\ risk \in [ Risks -> Item ]
    /\ holder \in [ Reminders -> Servers \cup { NoServer } ]
    /\ sweeps \in [ Servers -> Sweep ]
    /\ \A s \in Servers : Cardinality(sweeps[s].held) <= 1
    /\ told \in [ Reminders -> Nat ]
    /\ lost \subseteq Reminders
    /\ edits \in 0..MaxEdits /\ faults \in 0..MaxFaults

Init ==
    /\ today \in { d \in Days : \A e \in Days : d <= e }
    /\ created \in [ Risks -> Seconds ]
    /\ \A r, q \in Risks : r < q => created[r] <= created[q]
    /\ \A r \in Risks : (\A q \in Risks : r <= q) => created[r] = 0
    /\ risk \in [ Risks -> Item ]
    /\ holder = [ k \in Reminders |-> NoServer ]
    /\ sweeps = [ s \in Servers |-> Idle ]
    /\ told = [ k \in Reminders |-> 0 ]
    /\ lost = {}
    /\ edits = 0 /\ faults = 0

-----------------------------------------------------------------------------
(* The days, and the risks as everyone else changes them. *)

NextDay ==
    /\ \E d \in Days :
          /\ d > today /\ \A e \in Days : e > today => d <= e
          /\ today' = d
    /\ UNCHANGED <<created, risk, holder, sweeps, told, lost, edits, faults>>

Seeing(w, r, item) ==
    IF w.pc = "idle" THEN w
    ELSE [ w EXCEPT !.watched = { k \in @ : k.risk # r },
                    !.steady = /\ @
                               /\ Matches(risk[r], w.day) => Matches(item, w.day)
                               /\ (w.pc = "select" /\ Matches(item, w.day)) => Matches(risk[r], w.day) ]

\* An approval, a submission, an escalation, a reassessment, an amendment: the
\* risk enters or leaves remediation, or gets another level or date.
RiskChanges(r, item) ==
    /\ edits < MaxEdits /\ edits' = edits + 1
    /\ item # risk[r]
    /\ risk' = [ risk EXCEPT ![r] = item ]
    /\ sweeps' = [ s \in Servers |-> Seeing(sweeps[s], r, item) ]
    /\ UNCHANGED <<today, created, holder, told, lost, faults>>

-----------------------------------------------------------------------------
(* The sweep. *)

Set(s, sweep) == sweeps' = [ sweeps EXCEPT ![s] = sweep ]

Fault == faults < MaxFaults /\ faults' = faults + 1

\* RunOnce, from the daily timer or the trigger; refused while one runs.
RunOnce(s) ==
    /\ sweeps[s].pc = "idle"
    /\ Set(s, [ Idle EXCEPT !.pc = "list", !.day = today, !.watched = Falling(today) ])
    /\ UNCHANGED <<today, created, risk, holder, told, lost, edits, faults>>

\* The search: the count of what there is ...
Count(s) ==
    /\ sweeps[s].pc = "list"
    /\ Set(s, [ sweeps[s] EXCEPT !.pc = "select", !.total = Cardinality(Approaching(sweeps[s].day)) ])
    /\ UNCHANGED <<today, created, risk, holder, told, lost, edits, faults>>

Pages(s) == PagesOf(Approaching(sweeps[s].day), created, sweeps[s].offset, PageLimit)

\* ... and, outside any transaction, the next page, its risks as they are now.
Select(s) ==
    /\ sweeps[s].pc = "select"
    /\ \E page \in Pages(s) \ { {} } :
          Set(s, [ sweeps[s] EXCEPT !.pc = "page", !.offset = @ + Cardinality(page),
                                    !.page = { <<r, risk[r]>> : r \in page } ])
    /\ UNCHANGED <<today, created, risk, holder, told, lost, edits, faults>>

\* There is none: the sweep is complete.
EmptyPage(s) ==
    /\ sweeps[s].pc = "select"
    /\ {} \in Pages(s)
    /\ Set(s, Idle)
    /\ UNCHANGED <<today, created, risk, holder, told, lost, edits, faults>>

ListFails(s) ==
    /\ sweeps[s].pc \in { "list", "select" }
    /\ Set(s, Idle)
    /\ UNCHANGED <<today, created, risk, holder, told, lost, edits, faults>>

\* The next item of the page; in which order it has those of one second is no matter.
Current(s) ==
    CHOOSE i \in sweeps[s].page : \A j \in sweeps[s].page : j[1] <= i[1]

ReminderOf(s) ==
    LET i == Current(s)
    IN  [ risk |-> i[1], due |-> i[2].due,
          tier |-> ReminderTierFor(i[2].level, i[2].due, sweeps[s].day) ]

Working(s) == sweeps[s].pc = "page" /\ sweeps[s].page # {}

\* The rest of the page, the reminder in hand being done with.
Passed(s) ==
    [ sweeps[s] EXCEPT !.pc = "page", !.held = {},
                       !.page = @ \ { Current(s) },
                       !.watched = @ \ { ReminderOf(s) } ]

NoTierToday(s) ==
    /\ Working(s) /\ ReminderOf(s).tier = NoTier
    /\ Set(s, Passed(s))
    /\ UNCHANGED <<today, created, risk, holder, told, lost, edits, faults>>

Due(s) == Working(s) /\ ReminderOf(s).tier # NoTier

\* Mutant: no unique key, so that the same reminder is inserted again.
NoUniqueKey(k) == TRUE

\* uq_risk_reminder: one row per risk, tier and date.
Unclaimed(k) == holder[k] = NoServer

Claimed(s, k) == holder' = [ holder EXCEPT ![k] = s ]

Claim(s) ==
    LET k == ReminderOf(s)
    IN  /\ Due(s) /\ Unclaimed(k)
        /\ Claimed(s, k)
        /\ Set(s, [ sweeps[s] EXCEPT !.pc = "notify", !.held = @ \cup { k } ])
        /\ UNCHANGED <<today, created, risk, told, lost, edits, faults>>

ClaimedByAnother(s) ==
    /\ Due(s) /\ ~Unclaimed(ReminderOf(s))
    /\ Set(s, Passed(s))
    /\ UNCHANGED <<today, created, risk, holder, told, lost, edits, faults>>

\* The claim fails: the sweep goes on without it (fails closed).  When the
\* insert had committed all the same, the claim is nobody's.
ClaimFails(s) ==
    LET k == ReminderOf(s)
    IN  /\ Due(s)
        /\ Set(s, Passed(s))
        /\ \/ UNCHANGED <<holder, lost, faults>>
           \/ Fault /\ Unclaimed(k) /\ Claimed(s, k) /\ lost' = lost \cup { k }
        /\ UNCHANGED <<today, created, risk, told, edits>>

Holding(s) == sweeps[s].pc = "notify"

InHand(s) == CHOOSE k \in sweeps[s].held : TRUE

\* Mutant: the claim is released although the reminder went out.
SentAndReleased(s) ==
    /\ Holding(s)
    /\ told' = [ told EXCEPT ![InHand(s)] = @ + 1 ]
    /\ holder' = [ holder EXCEPT ![InHand(s)] = NoServer ]
    /\ Set(s, Passed(s))
    /\ UNCHANGED <<today, created, risk, lost, edits, faults>>

\* SendDueReminderSync reports that it went out.
Sent(s) ==
    /\ Holding(s)
    /\ told' = [ told EXCEPT ![InHand(s)] = @ + 1 ]
    /\ Set(s, Passed(s))
    /\ UNCHANGED <<today, created, risk, holder, lost, edits, faults>>

\* It reports an error, its own panics included, and nobody reachable is one;
\* the claim is released.
NotSent(s) ==
    /\ Holding(s)
    /\ holder' = [ holder EXCEPT ![InHand(s)] = NoServer ]
    /\ Set(s, Passed(s))
    /\ UNCHANGED <<today, created, risk, told, lost, edits, faults>>

\* ... or the release fails as well.
ReleaseFails(s) ==
    /\ Holding(s) /\ Fault
    /\ lost' = lost \cup sweeps[s].held
    /\ Set(s, Passed(s))
    /\ UNCHANGED <<today, created, risk, holder, told, edits>>

\* Mutant: the list is taken to be read one risk early.
AllButOneRead(s) == sweeps[s].offset + 1 >= sweeps[s].total

\* The offset has reached the total the last page came with.
AllRead(s) == sweeps[s].offset >= sweeps[s].total

PageDone(s) == sweeps[s].pc = "page" /\ sweeps[s].page = {}

NextPage(s) ==
    /\ PageDone(s) /\ ~AllRead(s)
    /\ Set(s, [ sweeps[s] EXCEPT !.pc = "list" ])
    /\ UNCHANGED <<today, created, risk, holder, told, lost, edits, faults>>

LastPage(s) ==
    /\ PageDone(s) /\ AllRead(s)
    /\ Set(s, Idle)
    /\ UNCHANGED <<today, created, risk, holder, told, lost, edits, faults>>

Completes(s) == EmptyPage(s) \/ LastPage(s)

\* A panic of the sweep itself is recovered and ends it; a crash or a restart
\* of the server takes the claim in hand with it.
Crash(s) ==
    /\ sweeps[s].pc # "idle" /\ Fault
    /\ lost' = lost \cup sweeps[s].held
    /\ Set(s, Idle)
    /\ UNCHANGED <<today, created, risk, holder, told, edits>>

SweepStep(s) ==
    \/ RunOnce(s) \/ Count(s) \/ Select(s) \/ ListFails(s) \/ NoTierToday(s)
    \/ Claim(s) \/ ClaimedByAnother(s) \/ ClaimFails(s)
    \/ Sent(s) \/ NotSent(s) \/ ReleaseFails(s)
    \/ NextPage(s) \/ Completes(s) \/ Crash(s)

Next ==
    \/ NextDay
    \/ \E r \in Risks, item \in Item : RiskChanges(r, item)
    \/ \E s \in Servers : SweepStep(s)

Spec == Init /\ [][Next]_vars

=============================================================================
