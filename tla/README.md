# A verification development of the GRC platform

TLA+ models of the platform's Risk Hub, Audit Hub, daily jobs, evidence agent,
register migration and user cache, model-checked with TLC and proved about with TLAPS.
Paths are relative to the repository's root (`src/`); `backend` is
`apps/grc-platform/backend` and `entity` is `entity/compliance-entity`.

Contents: [the system](#1-the-system), [the modules](#2-the-modules),
[the runs](#3-the-runs), [the proofs](#4-the-proofs),
[disagreements with comments and documents](#5-disagreements-met),
[what is not modelled](#6-what-is-not-modelled), [the plan](#7-the-plan).

## 1. The system

Three deployed programs and one operational tool matter here.

* The **backend** (Go) serves the web application. It authenticates, decides what
  a caller may do and which status a risk moves to, sends emails and runs the daily
  jobs. It stores nothing: everything it reads and writes is an HTTP call to the entity.
* The **entity** (Go) owns MySQL and the blob store. Its services validate (the
  transition maps live there) and its repositories run the SQL; an operation is one
  transaction at most, and many are a few statements without one.
* The **evidence app** (Python): an API with a queue of collection tasks, and a runner on
  somebody's laptop that polls it, drives a browser and posts results back.
* The **migration tool** (Go) imports risk registers from spreadsheets and can be
  stopped and resumed.

The consequence that shapes these models: *between reading a risk and writing it
there is no lock*. A backend request reads, decides, and sends one or several PATCHes,
each guarded, at best, by the status it read (`expectedStatus`, a compare-and-set in
the `WHERE` clause). Several replicas of the backend may run.

### Inventory

| Component | State | Operations | Hard because | What makes it correct |
|---|---|---|---|---|
| **Risk workflow** — `backend/internal/risk/{service,repository,handler}`, `entity/internal/{service,repository}/risk_*` | the `risk` row: `workflow_status`, treatment, scores, `rejection_stage`, `owner_first_approved_at` | owner, management and compliance approval, reject, resubmit, complete, cancel, close, edit | read–decide–write over HTTP; two PATCHes per first approval; routing on stale values | no status is reached without its approvals; the rejection's stage is there while it matters; terminal statuses are final |
| **Escalations** — `service/escalation.go`, `risk_escalation_repo.go` | `risk_escalation` rows, the risk's status | escalate, comment, resolve (after Complete) | snapshot count before a compare-and-set; an unguarded resolve after a commit | one OPEN escalation; never ESCALATED without one |
| **Action plans and steps** — `risk_action_plan_*`, `risk_action_step_*`, the edit's reconciliation in `risk_repo.go` | plan status, step rows | step progress, edit, complete plan | checks in other statements than the write; forms out of date | a completed plan was finished; a plan keeps steps |
| **Risk evidence** — `service/evidence.go`, `risk_evidence_*` | `risk_evidence` rows, blobs | upload, delete | lock decided by an earlier read | evidence of a completed plan is there and stays |
| **Escalation sweep** — `job/escalation_job.go`, `handler/escalation_job.go`, `internal/scheduler` | two in-memory flags per server, the page in hand | daily run, manual trigger | several servers, people escalating by hand, panics, pages that fail | one sweep per server, one announcement per escalation, sweeps end, overdue risks are reached |
| **Risk reminder sweep** — `job/reminder_job.go`, `risk_reminder_*` | `risk_reminder` claims, the page in hand | claim, send, release | claim before the side effect; paging by offset over a moving list | at most one reminder per risk, tier and date; a claim is told, released, or lost by a fault |
| **Audit controls and populations** — `audit_control_*`, `audit_population_*`, `audit_evidence_*`, `internal/audit/service` | the control's status and type, population and evidence rounds, the audit's status | submit, decide, withdraw, delete, override, change of type, sample | a request is a chain of calls; a decision writes the round and then the control | rounds move legally, history is kept, a DESIGN control has no population |
| **Audit reminders** — `internal/audit/job`, `audit_notification_*` | notification claims | claim all, send digests, release the rest | failure or panic half way through the digests | each claim is sent or released; no item is in two digests |
| **Directory sync** — `internal/directorysync` | user status, the snapshot | detect leavers, send digests, write statuses | digest before write; outages that look like departures | notice before disabling; limits on departures; an administrator remains |
| **Evidence agent queue** — `evidence-app/backend/app/api/routes/agent.py`, `runner/wso2_runner` | task rows and flags | queue, claim, poll, pause, resume, cancel, post a result | lost answers, dead Runners, crossing results and cancellations | a task is claimed once; its first result is final; who watches is told |
| **Register migration** — `operations/risk-register-migration` | reconstructed from the entity on every run | create, walk through statuses, assess, escalate, grant, verify | stopped anywhere between calls | every prefix of a row's calls can be resumed without a duplicate |
| **Sequence numbers** — `risk_repo.go` | one counter row per register or customer | reserve, roll back | concurrent creates, rollbacks | numbers are unique and without a gap |
| **Entity caches** — `entity/internal/cache`, `cached_*` | each replica's in-memory entries with a TTL, a user under two keys | read through, evict on writes | a miss remembered after an eviction; writes without an answer; other replicas | a write is seen where it was made; nothing stale outlives the TTL |
| Evidence library, browser agent, AI validation, authorisation, administration, dashboards, emails, web applications | single rows or none | create, read, update, delete | little ordering | see section 6 |

`PROJECT.json` lists them with their sources, and the hazards of the code, each at its
line and with the properties that watch it.

### How the modelled parts interact

```
 web app ──HTTP──> backend request ──PATCH expectedStatus──> entity ──> risk row
   (edit form)          │   └──(after Complete) ResolveOpen ─────────> risk_escalation
                        │
 scheduler, trigger ──> EscalationJob ──search, escalate────> entity ──> both, one transaction
                        └──email
 plan, steps, evidence: backend checks ──> entity checks ──> UPDATE / DELETE

 scheduler, trigger ──> reminder sweeps ──claim, release──> risk_reminder, audit_notification
                    │   └──email
                    └──> DirectorySync ──snapshot, lookup──> identity directory
                         └──digest, then status─────────────> user
 web app ──> audit handlers ──calls, one at a time────────────> control, rounds, audit
 web app ──> agent API (evidence app) <──poll, result── Runner
 migration tool ──create, walk, escalate, grant, verify──> entity ──> risks, counters
```

The risk's status is the shared state: the workflow writes it, escalations flip it,
edits may turn it to PENDING_AMENDMENT, plans and steps may only move while it is
IN_REMEDIATION or ESCALATED, and Complete needs a COMPLETED plan.

## 2. The modules

| Module | What it is |
|---|---|
| `RiskStatuses` | the vocabulary and the pure decisions: the entity's transition map, `needsManagementSignOff`, rejection stages, resubmission targets, `cancellable` |
| `RiskLifecycle` | the abstract specification: what the Risk Hub promises of one risk, each operation one atomic step |
| `RiskWorkflow` | one risk, its escalation rows and the requests acting on it, one step per HTTP call or SQL statement that another request can come between |
| `ActionPlan` | extends `RiskLifecycle`: the risk's plan, its steps and evidence, and the requests acting on them, while the risk around them moves as the lifecycle lets it |
| `EscalationJob` | the sweep on any number of servers, its triggers and timers, and the risks it sweeps |
| `SearchPages` | the pages of the entity's risk search, which orders by the second of creation only |
| `ReminderLedger` | the abstract specification of both reminder sweeps: what becomes of every reminder that is claimed |
| `RiskReminders`, `AuditReminders` | the two sweeps that implement it |
| `AuditStatuses` | the audit vocabulary: the control's transition map, the rounds' workflows, overrides and what they demote |
| `AuditLifecycle` | the abstract specification: one control and its audit, each operation one atomic step |
| `AuditControl` | extends `AuditLifecycle`: the control's rounds and the requests on it, one step per call to the entity |
| `AgentQueue` | the tasks of one engineer between the web page, the API and the Runners |
| `DirectorySync` | the sync of one server, the directory and the users around it |
| `RiskNumbers` | the abstract specification of risk codes |
| `RegisterMigration` | the import tool, the entity's create transactions, and those who act meanwhile |
| `EntityCache` | one replica's user cache, its requests, and the writes of the others |
| `*Properties` | what each of these is checked for |
| `*Proofs` | the TLAPS proofs |
| `MC*` | symmetry and the values of operator constants for TLC |

Definitions whose comment begins with `Mutant:` are not part of a model: each stands
before the definition it alters, a plausible bug of that code, and shows that the
properties of a run can fail.

### RiskWorkflow

A request is a record in `reqs`: the operation, the next call (`pc`), the PATCH it has
decided on, and the escalation rows it has listed. The first action of an operation
(`OwnerApprove`, `Reject`, `Update`, ...) is its read with the backend's checks and its
decision; `StampOwnerApproval` is the separate, unguarded PATCH of
`owner_first_approved_at`; `ApplyPatch` is the entity's `UpdateRisk`: the transition
map, then `UPDATE ... WHERE workflow_status = expected`. `Complete` goes on to list and
resolve escalations. `Escalate` is check, snapshot count, and guarded flip with insert,
because the count of a REPEATABLE READ transaction is of an earlier moment than its
`UPDATE`. `GiveUp` ends a request after any call: a failed check, a 409, a timeout, a
crash. What it has written stays.

Abstractions: who may ask is left out, so every operation may be asked for by anyone at
any time (more behaviours, never fewer); assignees are left out; treatments other than
ACCEPT and levels other than HIGH behave alike; DRAFT is left out (nothing in the
backend reads or writes it); risks that were imported rather than created are not
initial states; whether an implementation date has passed is the caller's choice; the
change log and comments are not state.
`milestones` and `crossed` are history variables that no action reads.

`RiskLifecycle` maps to the row's status and rejection stage, the OPEN rows, and whether
a submission ever happened: `ImplementsLifecycle` says that requests which interleave in
any way amount to the atomic operations. It is not free: `SubmitAgain` has to allow, once
a submission has happened, the target of *any* stage, because a resubmission that read
one rejection can land on the next.

### ActionPlan

Only the risk's first STANDARD plan, the one edits reconcile. `CompletePlan`,
`CheckSteps`, `CheckEvidence` and `WriteCompletion` are the entity's
`CompleteRiskActionPlan` statement by statement; `ReadForEdit` and `ApplyEdit` are an
edit whose form was loaded at any earlier time, so the step ids it sends are of any rows
there have ever been; ids that are no longer on the plan become new rows, rows it does
not name are deleted. `UpdateStep` is one step because the entity locks the risk for it.
`DeleteEvidence`, `CheckLock`, `DeleteRow` are the three calls of a delete. IN_PROGRESS
steps are PENDING here. The risk moves atomically; a stamp may land late, as in
`RiskWorkflow`.

### EscalationJob

A sweeper is a server's daily sweep or one of its triggers. `running` is the job's flag,
`triggered` the handler's. `ListPage` is the search at offset 0 with
`ExcludeOpenEscalation`; `Check`, `Count` and `Flip` are what the entity does for one call:
the check of status and date outside the transaction, the snapshot count of OPEN
escalations, and the guarded flip with its insert and commit. Others' steps come between
them. `EscalateFails` is a call refused by one of the three, or one that never arrives; in
`Flip` the answer can be lost. `Notify` is the email, sent or not; `EndPage` lists again if
any risk of the page was escalated and ends the sweep otherwise. `Panic` is recovered with
the deferred release; `Crash` restarts the process and its memory. One of the `Hands` is
somebody who clicks Escalate (`Click`), whose call takes the same steps; it also stands for
the call of a sweep that gave up and that the entity still carries out. Risks are numbers in
order of creation (ties of `created_at` are ignored: every page is the first), and their
state is what the search and the entity's check can tell apart: away, scheduled (under
remediation before its date), overdue, escalated, or answered (back under remediation with
its escalation still OPEN, which the search excludes until the risk is submitted). A sweep's
30-minute limit and the shutdown's cancellation appear as calls that fail from then on.
`overtaken` and `repeats` are history: who has counted before another flipped his risk, and
how often such a one flipped a risk that had been answered since.

### RiskReminders and AuditReminders

Both sweeps claim a reminder by inserting a row under a unique key, then send, and
delete the row again if nothing was sent. `ReminderLedger` says what that amounts to:
an entry is free, held, told or lost, and never goes back from told or lost.

`RiskReminders` pages forward through the risks that are due within the horizon
(`Count`, then `Select`: two queries outside a transaction), claims one
reminder (`Claim`, `ClaimedByAnother`, `ClaimFails`), and tells it (`Sent`, `NotSent`,
`ReleaseFails`) before the next. Statuses, levels and dates change under it
(`RiskChanges`), a sweep keeps the day on which it began (`NextDay` may pass), and
`Crash` takes the claim in hand with it. The list is ordered by `created_at DESC` and nothing
else, and a DATETIME has whole seconds: of the risks of one second any may come first in any
query, so `PagesOf` (`SearchPages`) allows every page that some order allows. `AuditReminders` computes all attempts from one
read of the controls (`Attempts`), makes every claim first, and then sends digests: the
recipients' own, then each admin's per audit. `DigestFails` releases its claims, `Panic` is
the deferred release of all that is left, `Crash` has none.

An insert may commit while its answer is lost (`ClaimFails` with a fault), in the audit
hub also because the insert is followed by a read of the row: that claim is lost, and
the entry says so. A send that is reported as failed although it was delivered is not
counted as told. Emails to an owner's lead touch no claim and are left out. The
control's status decides whom it waits on (`StatusRoutes`); a control has at most one
population here, and the list of controls is one read.

### AuditControl

The backend's audit handlers do their work in several calls to the entity: a decision
reads the latest round, writes its status on condition of the status it read, then does
the same for the control. A request is a record in `req` with the call that is next
(`pc`), and is used once; the initial states are all those in which a control can be at
rest (`PopulationAtRest`, `EvidenceAtRest`), so that the requests of a run overlap from
any of them. `ReadRound`/`SetRound` and `ReadControl`/`SetControl` are the entity's
`UpdatePopulation`, `UpdateEvidence` and `UpdateControl`, whose read and guarded update are
two statements; `RemoveControl`, `CreateControl` and `ChangeRequirementType` are single
transactions. An override is one transaction too, but not one step: `ReadRoundsToDemote` is
its guarded update, which holds the control's row from then on, and its plain read of the
rounds (`view`), and `ApplyOverride` its updates of the rounds by their id and its commit.
Between the two, whoever writes the control or inserts a round of it waits (`Unlocked`, for
the rounds because of their foreign key), while rounds are decided on and deleted as ever.
`DiscardRound` is a submission that undoes
its insert, `Reconcile` what follows a deletion. `Lost` ends a request anywhere.

The gates that bind only callers without `ManageControls` are left out: with it every
request may be made by anyone. The latest round is the one with the greatest id, where
the code orders by `created_at`. Files are counted only as some or none, a sample's
files not at all, and a population submitted as an attestation is a note.
`AuditLifecycle` has the control's status and type and the audit's status, which every
change of a control recomputes; `SetAudit` may set it by hand.

### AgentQueue

One engineer's tasks. The Runner's calls are two steps where the backend holds a row lock
between them: `NextTask` and `TaskClaimed`, `ResultRead` and `ResultCommitted`; a `Post` is a
request under way, which can be lost, arrive late, or arrive after the Runner has timed
out and posted again. `Pauses`, `Resumes`, `ResumeLost` and `PauseTimesOut` are the
{PAUSE} steps with the flag that `/pause-poll` takes away as it reads it. The page that
watches a task (`OpenStream`, `RegisterStream`, `StreamDelivers`, `StreamRereads`) may miss a
publication. `orphans` is the history of tasks that a fault has cut off: nothing returns
such a task to the queue.

### DirectorySync

One server's run: `ResolveDeparted` (the snapshot for internal users, a live lookup for
external ones), the limit on departures, `SpareAdmins`, `GatherAssignments` and `SendDigest`
for each hub, then `Disable` or `LeaveForRetry` for each user. A run has notifications on or
off (`EmailEnabled`): off, a digest with content counts as delivered and nobody is told. Around
it the directory changes, the snapshot ages, and admins hand out work and change statuses: a
change is asked for by an active admin (`AskStatus`) and written later (`WriteStatus`), without
a look at who is an admin by then. Every call can fail.
Holders of MANAGE_USERS and the recipients of each hub are constant; the reads of one
hub's work are one step; rows of users are never deleted. Runs that overlap on two
servers are not modelled: each would have its own snapshot, and could spare a different
admin.

### RegisterMigration

A run of the tool searches for the risks it knows (`CountRisks`, `SelectPage`), `Fetch`
reconstructs how far each row is, `TakeRow` and the calls of `migrateRow` follow (`PostRisk`,
`PostAssessment`, `PatchRisk`, `PostEscalation`, `PostGrant`, `PatchActionPlan`), and
after a second search `Verify` reads everything back. `Dies` stops the run at
a call that failed or whose answer was lost; `GivesUp` leaves a request behind that
`Arrives` later. The entity's create transaction is `BeginCreate`, `Reserve` (the counter's
lock, and the second of the risk), `Commit` and `Rollback`, shared with people who create
risks.

The search reads a page at a time, each with a count of its own, both outside any
transaction. Its pages are those of `SearchPages`, as the reminder sweep's are: of risks
created in the same second, two pages may hold one twice and another not at all; and a risk
that is committed between a count and its page pushes the oldest behind the total. The
history variable `crossed` has the rows to which the latter happened.

A run suppresses the escalation of the rows overdue on its `-migration-date`
(`run.cutoff`): the first run's date if the operator repeats it, or the run's own day. The
nightly sweep goes by the day on which it runs, and so escalates a risk that falls due later
(`LaterDue`); people comment.

Left out: rows that share a natural key, the preflight, the parsing of the sheet, the
resolution of people, and the row-level 400s but those of a create and of a refused
transition. The reads of one row are one step, and so are the look at a risk's
escalations and the insert. A failed read of the verification is a run that stops.

### EntityCache

`Miss`, `ReadRow`, `ReadTeams` and `Remember` are a lookup that misses, query by query and
`Set` by `Set`; a hit changes nothing and is no action. `StartCreate` and `StartUpdate` look
for the user they are about to write, `Write` is the transaction, `ReadBack` the query whose
answer the write returns, `ForgetOld` and `Forget` the deletions. `QueryFails` ends a request
at any query, a write also after its commit: then nobody is forgotten. Of the other
replicas only their writes to the database matter (`WriteElsewhere`). A user's contents are
his status and two versions, of his row and of his teams, because a lookup reads them
in two queries and can get them from either side of a write. `raced` marks contents
that were on their way while the user was forgotten.

The framework cache is this one with a single key and one write that forgets; the risk
scores are cached and never written; grants are deliberately not cached.

## 3. The runs

| Run | Constants | What it shows |
|---|---|---|
| `workflow` | 2 requests, 2 rows, every operation | five invariants of the read–decide–write protocol, an action property, and the refinement of `RiskLifecycle` |
| `plan` | 2 requests, 3 steps, 1 file, 1 escalation | a plan becomes COMPLETED only with evidence and after its steps were finished; edits on stale forms never empty it; steps move only under remediation |
| `sweeps` | 1 server with a daily sweep and 2 triggers, 1 person clicking, 2 risks, pages of 1, 1 episode, 2 faults | flags agree with sweeps; every escalation announced once unless a fault loses it, one per episode unless a call is overtaken; sweeps end; overdue risks are reached |
| `audit` | 2 requests from every state at rest, rounds up to 3 | rounds move legally, history is kept, overrides strand nothing, and the refinement of `AuditLifecycle` |
| `risk_reminders` | 2 servers, 2 risks, 2 days, pages of 1, 1 change, 1 fault | every claim is accounted for, nobody is reminded twice, the refinement of `ReminderLedger`, and of a steady list only risks that share their second are missed |
| `audit_reminders` | 2 servers, 2 controls, 2 people of whom one is an admin, 2 days, 1 change, 1 fault | the same of digests |
| `agent` | 2 tasks, 1 Runner, a page on task 1, 1 pause, 1 click, 1 fault | one result, whatever is posted twice or late; the page is told; a queued task is answered unless a fault cut it off |
| `directory` | 2 users (one external), 2 hubs, 1 trigger, 2 changes, 1 fault | notice before disabling, what the last admin can be lost to, told once, and the departed are disabled |
| `migration` | 2 rows (one to CLOSED, one that falls due after the import began), 1 register, 2 connections, 1 risk by hand, pages of 2, 1 fault, tie or crossed commit | nothing written twice, a clean run means migrated, a re-run changes nothing, numbers without gaps, and every row is migrated in the end, each with the exception of a risk that the search may miss |
| `cache` | 1 user, 2 requests, 2 writes, entries that last 2 ticks | a write is seen where it was answered, unless a lookup overlapped it; nothing stale outlives the TTL |
| `cache_inactive` | the same | how a lookup by uuid finds a user who is not active (section 5) |
| `stuck` | 3 requests, 1 row, the operations needed | the shortest behaviour that breaks one claim of a comment (section 5) |

**Types.** The type invariants of `RiskWorkflow`, `ActionPlan`, `EscalationJob` and
`AuditControl` are proved (section 4) and are not run again. Those of the other six
modules are the first conjunct of an invariant of their run (`ClaimsAreAccountedFor`,
`RunningIsWorkedOn`, `AnAdminRemains`, `WrittenOnce`, `OwnWriteIsSeen`) and are proved with
it.

**Why the bounds suffice.** In the Risk and Audit Hubs the hazards are of one stale
request against one that overtakes it, so two requests in flight reach every pair of
steps. In `workflow` and `plan` a request is used again when it is done, so any sequence of
operations can happen before, between and after them; in `audit` every sequence before them
is summed up in the initial states. `stuck` alone needs three in flight (a late resolve,
and two crossing resubmissions). Two escalation rows are one more than there should ever
be OPEN; since a row is never removed, they also limit a behaviour to two escalations,
enough for a resolution that belongs to the first to meet the second. Three step rows, whose
ids come and go, give an edit something to keep, delete and insert. One file is
enough for a delete to race a completion. Three rounds of a kind are the one at rest and
one from each request.

For the sweeps: one server, whose sweeps exclude each other, and a person, who is to a sweep
what another server's is: somebody else's call between two steps of one's own. Two triggers
beside the daily sweep for what a server shares, two risks and pages of one so that there is
always a page in front of another risk, two faults so that the answer and the email of one
risk can both be lost. A second server, and a second episode, whose announcement can cross
the first's, are left to the proofs of `FlagsAreHeld` and `AnnouncedOnce`: with the fairness
these properties need they exceed the run. For the reminders: tiers
fall on the first day, and a sweep of it can still be at work on the second; the two risks,
on two pages, are created in the same second or one after the other; the control of `audit_reminders` that is overdue goes to its owner and to the
admin, so that one sweep has both kinds of digest. For a plan: three step rows, so that an
edit whose form names only steps that are gone finds a row to insert each of them again,
although the plan has a step of its own. For the agent: a second task to go on
to, one fault at any call; a second Runner, which may claim at the same moment, is left to
the proofs of its three safety properties. For the directory:
two users so that the last admin can be the one who left and that two admins can deactivate
each other, a limit of one departure so that two exceed it. For the migration: one row of each target, so that every call happens, the one in remediation
due on some runs' date and not on others', three risks on pages of two, so that the second
page can miss one, and one fault, anywhere: a call, two risks in one second, or a commit
between a count and its page. A run interrupted again is left to the proofs. For the cache: two requests are a
lookup and a write, or two writes; users have nothing in common, so one is enough; with two
ticks a lookup can come half way through an entry's life. The proofs of section 4 have no
such bounds.

| Run | Distinct states |
|---|---|
| `audit` | 320,586 |
| `sweeps` | 161,605 |
| `risk_reminders` | 1,077,592 |
| `audit_reminders` | 816,866 |
| `agent` | 659,519 |
| `cache` | 1,075,089 |
| `migration` | 425,856 |

**Symmetry** of requests, rows, steps, files and servers is used in the runs of safety
properties only, never in `sweeps`, `agent`, `directory`, `migration` or `cache`.

**Deadlock.** `CHECK_DEADLOCK FALSE` is said where the system really may stop: `workflow`
and `stuck` (a CLOSED risk refuses every operation), the reminders (no day is left, and
nothing more to claim, when all edits are used up), `agent` (every task is
finished). The other runs check for deadlock.

**Fairness.**

* `EscalationJob`. `SweepsRun`: weak fairness of each sweeper's next step. A goroutine that
  can run does, and every call it makes returns, because each carries a timeout.
  `TimersFire`: weak fairness of each server's daily timer, the scheduler's loop. It holds
  only where `SCHEDULER_ENABLED` is set, hence it is an assumption of
  `OverdueIsEscalated` and not of the specification. `CallsSucceed`: strong fairness of a
  successful search and of a call for each risk that reaches the entity and passes its check,
  by some sweep. A call
  repeated day after day does not fail for ever; weak fairness would not do, because a sweep
  is only at a given call now and then.
* `AgentQueue`. Weak fairness of the page's stream (a loop with a five-second wait), of each
  Runner's loop (a pause ends by its cap; a Runner that is down is started again), and of
  the backend's handlers for posts that have arrived.
* `DirectorySync`. Weak fairness of the daily refresh, the daily run and the run's next step;
  faults are bounded, so that in the end the calls succeed.
* `RegisterMigration`. Weak fairness of the tool (the operator runs it again), and of each
  transaction's reservation and commit, which the database brings to an end.

* `EntityCache`. Weak fairness of time and of every request's next step: a query returns or
  fails. No lookup or write has to come.

The other specifications are about safety and state none.

`SweepsEnd` needs no call to succeed. It does rest on risks coming under remediation finitely
often (`MaxEpisodes`): a sweep that always finds a new overdue risk could go on until its
timeout, which the code has and the model leaves out. Note that a page that was escalated by
another server counts as one without progress and ends the sweep early; the next daily
sweep picks up the rest, which is what `OverdueIsEscalated` confirms.
`QueuedIsAnswered` excepts the tasks that a fault has cut off, because nothing in the code
returns them; `DepartedIsDisabled` excepts those whom the limits hold back (`Departs`);
`EventuallyMigrated` excepts a risk that nobody comments on, and one that the search may miss.

## 4. The proofs

For any requests, escalation rows, operations, steps, files, servers, triggers, risks,
rounds, page size and bounds, from the constants' named assumptions only
(`OperationsAssumption`, `StepsAssumption`, `JobAssumption`, `RoundsAssumption`,
`RemindersAssumption`, `AuditRemindersAssumption`, `ShapesAssumption`, `AgentAssumption`,
`SyncAssumption`, `MigrationAssumption`, `CacheAssumption`). They say that bounds are
natural numbers and page sizes and times to live are not zero, that servers, rows, days and
tasks are numbers or finite sets where the code counts or orders them, which sets are parts
of which, and that values such as "no server" and "missing" are none of the things they stand
beside. Every invariant and action property of the passing runs, and every
refinement they check, is a theorem of one of eight modules. `AuditProofs` holds the proofs of
`AuditControl` and `AuditReminders`, `UserProofs` those of `DirectorySync` and `EntityCache`:
the specifications are independent, and their names are disjoint so that a module can extend
both (`Init`, `Next`, `Spec` belong to the first, `SweepSpec` and `CacheSpec` to the second).

**RiskWorkflowProofs.** Type correctness, all invariants and action properties of the run
`workflow`, `TerminalIsFinal` (that CLOSED and CANCELLED are final, which no run repeats), and
`Refinement`: `Spec => ImplementsLifecycle`. None of the invariants is
inductive. What a request will write depends on what it read, so the strengthening ties
each request in flight to the row:

* `Decisions`: a PATCH in flight is the one its operation decides on, between statuses
  the operation allows;
* `Reliances`: what a request still relies on although it read it earlier, such as a
  completed plan, a stamp that has been written, a submission that has happened;
* `StageWasReached`, `RevisionCarriesItsStage`, `OwnerStampPrecedesProgress`,
  `SignOffsInOrder`: what a status says of the stamp, the stage and the approvals;
* `EscalationPhase`: before the first submission no escalation is resolved; after it, and
  until a resubmission crosses another rejection, the risk stays on the way to closure
  and is never ESCALATED, so that a pending resolution and an ESCALATED risk exclude
  each other.

Each part is shown of `Init` and of every action, and the properties follow. The
refinement is a case per action: most steps of a request stutter, `ApplyPatch` maps to the operation its
request is of, and needs the invariant to know which.

**ActionPlanProofs.** Type correctness, `CompletedPlanWasFinished`, `PlanKeepsSteps`, and the
two action properties of the run `plan`. The strengthening: `ChecksWerePassed` (a call
past its check of the steps has seen the plan finished), `FinishedIsRecorded` (the history
variable is never behind the steps) and `EditsHaveSteps` (an edit in flight sends
something). The interesting lemma, `EditLeavesSteps`, is about cardinalities: an edit either
keeps a row it names, or inserts one for each id that is gone, so it cannot leave none.

**EscalationJobProofs.** Type correctness, with the bound on a page (`PageBound`: the page is
the newest at most `PageLimit` of the list, from the smallest element of a finite set of
numbers, which the module derives from well-foundedness); `FlagsCorrect`, where each flag is
shown to be the image of the set of active sweepers (`Held`) and each step a handover
(`Handover`); and `AnnouncedOncePerEpisode`, from the inductive `Settled`: announcements
sent, plus actors about to announce, are the escalations but for what faults lost
(`Balanced`); escalations, plus one while the risk waits for one, never exceed its times
under remediation and the repeats (`PaidFor`); and whoever is about to flip a risk has been
overtaken or it has no OPEN escalation (`Aware`), because only another's flip gives it one.

**AuditProofs, controls.** Type correctness, `DesignHasNoPopulation`, `RoundsMoveLegally`,
`HistoryIsKept`, `TypeChangeLosesNoWork` (this and the first are not run, because the
proof covers them) and `Refinement`: `Spec => ImplementsLifecycle`. The strengthening is about
the requests: `Sound` says that what a request still has to write is legal for the status it
read, so that a guarded update can only take a legal step or none, and that an override
goes backward; `ControlHeld` that one override at a time holds the control, and that the
control keeps the status the override was decided on until its commit; the rest (`ReqOK`,
`DataOK`, `ViewOK`) are types. A DESIGN control has no population because only an OE control
ever gets one and the change to DESIGN drops it, with the rounds of a control that does not
exist as the second half of the induction.
For `OverrideStrandsNothing` the step at which an override ends and the status moves can only
be `ApplyOverride`; the latest round afterwards, if it is the one that was read and has not
moved since, was demoted to what the new status expects or was read low enough for it. This
needs one more invariant, `EvidenceReviewed`: PENDING is a status of populations, and no round
of evidence ever has it.

**AuditProofs, reminders.** `ClaimsAreAccountedFor` and the refinement of `ReminderLedger`, for
any servers, controls, people and shapes of a control. A sweep has many reminders in hand at a
time, and its panic and its digests act on many at once, so `ClaimStep` speaks of sets: a step
touches no claim, takes one, loses one, tells some, or lets some go. `Claims` is `Grip`
(what a sweep has claimed and not told is its server's, not told and not lost) and `Row` (a
row in the table means that the reminder was told, is lost, or is pending with the server that
holds it). From these the ledger's entry of every reminder moves as the ledger allows, a whole
set of them in one of its steps.

**RiskRemindersProofs.** `ClaimsAreAccountedFor`, the refinement of `ReminderLedger` and
`SteadyListIsCovered`, for any number of servers and risks and any page size. Every step
of a sweep is one of four (`ClaimStep`): it touches no claim, takes one, loses one, or
lets go of the one in hand; with the invariant `Claims` (who is in hand of a sweep is
claimed by its server, and by it alone) this is both the accounting and the refinement.
`Cover` is the loop's invariant over a steady list: the reminders still owed are on the page
in hand, or as many risks are newer than theirs as the offset says, and then there is more to
read, or they are among those that pages may miss. Its lemma about pages is `LeftOut`: a risk
that a page leaves out, and that shares its second with nobody, has everything that was read
in front of it.

**AgentQueueProofs.** `ResultOnce`, `RunningIsWorkedOn` and `FirstResultIsFinal`. `Held` ties
the row's lock to the one who holds it, so that what a post has read is what the row
still says when it is recorded; `Settled` says that only a recorded result has left
evidence or a final status; `Owned` that two Runners never work on one task, and that a
task whose Runner has gone is under way to its last post, or is an orphan.

**UserProofs, the directory.** `AnAdminRemains`, `ToldTwiceOnlyForRetry` and `NoticeBeforeDisable`.
`StillEnabled`, `Looked` and `Heard` say what the run knows at each of its steps of those it
is going to disable, although the rows change under it; `OneIsSpared` that after
`SpareAdmins` an active holder is not among them unless the guard was evaded (`unguarded`),
so that no `Disable` takes the last one; and `OnceOrRetry` that who was told is either about
to be disabled or left for the next run.

**UserProofs, the cache.** `OwnWriteIsSeen`, from `CacheInv`. The row only grows, and is never
behind what a write that was answered has left. What is cached or on its way and was not
overtaken by a deletion (`KeptAbove`, `ReadAbove`) is not behind it either. That alone is not
inductive, because a write is answered only after it has deleted two entries, and in between
another lookup can set one of them again. `OustedOK` covers the gap: under a key from which a
write in flight has already deleted, nothing is older than that write, neither the entry nor
what is on its way to it. Which keys those are follows from the entries the request has
still to delete, and a uuid never changes, so that a key it does not name has nothing to hide.

**RegisterMigrationProofs.** `WrittenOnce`, `CleanMeansMigrated`, `RerunChangesNothing` and the
refinement of `RiskNumbers`. The base of the induction (`Base`) is that each risk is of one
row and never changes hands, that a transaction in flight has the counter's next number,
and that a counter is the number of its risks, which is the refinement. The rest is about the rows that are certain: no request of theirs
was left behind and no search can have missed their risk. A row does not become certain
again (`CertainStays`). For each, `Imports` says that there is at most one risk of it or
one create under way (`Single`, `Alone`); that, while a search goes on, its risk has been found or
is among those still to be read (`Ahead`); and that what a run has found, resumed or
holds is that risk, and what it has not found is not there (`Found`, `Known`, `InHand`).
`Ahead` is the invariant of a loop over pages that may order ties differently each time and
whose count is older than the page: its lemmas are `LeftOut` and `NothingLater`. A risk that
a page leaves out, and that shares its second with nobody, has everything that was read in
front of it, so that the search ends behind it only if another was committed since the
count. `Finals` says that after a clean run the row is where it should be for that run's
date, and that nothing that others do moves it away but the sweep of a row that fell due
since; `Reruns` that a run of the same date finds every row complete, or its risk ESCALATED,
which it is refused to move. None is inductive
alone, because what a run will write depends on what it read several calls earlier. The
uncertain rows are excluded for the reasons section 5 gives.

**Model-checked only.** Liveness under fairness (`SweepsEnd`, `OverdueIsEscalated`,
`WatcherIsTold`, `QueuedIsAnswered`, `DepartedIsDisabled`, `EventuallyMigrated`,
`EventuallyFresh`) is out of the prover's reach; so are the two runs that end in a
counterexample. Everything else that a run checks is proved.
`RiskStatuses`, `AuditStatuses` and the abstract specifications are used by the proofs and
have no theorem of their own.

## 5. Disagreements met

Two of them are runs that end in a counterexample; `PROJECT.json` quotes the lines.

* `stuck`: a risk is never ESCALATED with no escalation to answer
  (`risk_escalation_repo.go`). A late resolve meets the escalation after the one it is for;
  it takes crossed resubmissions.
* `cache_inactive`: a lookup by uuid resolves an active user, others read as not found
  (`user_repo.go:120`). The query does; but a lookup by id, which selects users of any
  status, caches what it finds under the uuid too, and the next lookup by uuid hits it.
  Neither a race nor a second replica is needed.

The others were met while modelling; the models have the behaviour, and no run claims its
absence.

Risk Hub:

* management must endorse an ACCEPT treatment of a HIGH risk (`service/risk.go`): the
  treatment can be edited after the owner's approval was routed without them;
* cancelling only while no owner has ever approved (`service/risk.go`): a risk approved,
  rejected later and resubmitted is in the first status again, where the stamp is not
  looked at;
* the compare-and-set and the count prevent a second OPEN escalation
  (`risk_escalation_repo.go`): two counts before the first commit, and a comment in between,
  and the second escalation is announced too (the exception of `AnnouncedOnce`);
* a COMPLETED plan's evidence is locked (`service/evidence.go`): the lock is looked at one
  call before the delete;
* a plan is completed once every step is COMPLETED (`risk_action_plan_service.go`): the
  steps are not looked at again by the write;
* 202 means started, 409 already running (`openapi.yaml`): the handler's flag does not know
  of the daily sweep;
* the gross score, documented as immutable after creation, is editable until the owner
  approves, and by an edit that read the risk before the stamp
  (`GrossChangesOnlyBeforeReview` says how far that goes);
* an edit decides whether it changes a restricted field against a value read earlier, and can
  undo another edit without an amendment;
* an approval that loses its compare-and-set has already stamped the risk, which then
  cannot be cancelled in revision;
* a resubmission can answer a later rejection than the one it read;
* the history entry of an approval names the destination of a second read;
* risk evidence can be inserted after the stamp, and a plan completed after the risk has
  left remediation;
* a COMPLETED plan stays COMPLETED when an amendment adds steps;
* a crash, or a lost answer, between an escalation and its email loses the announcement;
* rows never drop out of the reminder sweep's list, so that paging forward is safe
  (`risk/job/reminder_job.go:126`): nothing the sweep does drops one, but others' changes do,
  and the risks behind move up a page; hence `SteadyListIsCovered` speaks of a steady list.
  And of a list of several pages, two queries may put risks created in the same second (an
  import) in different orders, and one of them on neither page: the exception of that
  property. The reminder of that day is then not sent.

Audit Hub:

* skipping a failed claim costs one day's delay (`audit/job/reminder_job.go:374`): so it is
  for an overdue item, but the tiers of a single day are not tried again;
* `runOnce` has no guard against a running sweep (`audit/handler/reminder.go:42`): it has one;
* a second submission while one is under review (`audit/handler/evidence.go:455`): the round
  of the first stays SUBMITTED, superseded by the second;
* an override never promotes a dependent row (`audit_control_repo.go:949`): it reads the
  round without a lock and updates it by its id, so that a decision committed in between is
  written over, an AUDITOR_REJECTED even back to SUBMITTED. `RoundsMoveLegally` allows just this, at the commit and for the
  round that was read; and a round that was read low enough, or became the latest since, is
  left as it is (`MovedSinceRead` in `OverrideStrandsNothing`).

Directory sync:

* one run is never allowed to disable every admin (`sync_job.go:143`): when the holders
  cannot be read the run goes on without the guard, and an admin made inactive between the
  guard and the writes may have been the one it counted on;
* nobody locks everybody out (`admin/handler/users.go:212`, the self-lockout guard): two
  admins who deactivate each other at the same moment have both passed the privilege check
  before either write, and leave no active holder (`AnAdminRemains` names the case);
* a departure is announced before the status is written: with notifications off the status is
  written and nobody is told (`sync_job.go:139` says so), which `NoticeBeforeDisable` excepts,
  while a hub without any recipient blocks the write for as long as it has none.

Evidence agent: a later {PAUSE} pauses again after a resume (docstring in `agent.py:338`): a
second click, or one that comes as the pause times out, leaves the flag set and the next
pause is skipped; one running task per user (`agent.py:102`): two Runners of one user claim
two; a stream holds its database session for as long as the page watches.

Migration: re-running completes partial rows (`main.go:38`): a risk that the nightly sweep
has escalated half way is off the path the tool knows, its PATCH is refused with a 400, and
so it is on every run until somebody comments. A create that is carried out after the tool
gave up on it leaves two risks, and the row is rejected from then on. The same comes of a
search that misses a risk (`state.go:205`): its pages are ordered by `created_at` alone
(`risk_repo.go:285`), and an import of more than a page creates several risks in a second,
two queries may order them differently, and the row of one that is on neither page is
created again; a risk that is on both is rejected for that run. A risk committed between
the count of a page and the page ends the search before the oldest. `WrittenOnce`,
`CleanMeansMigrated` and `EventuallyMigrated` except these rows (`MayBeMissed`). The
suppressing escalation is decided on the `-migration-date`: a risk that falls due after it
is escalated by the next sweep like any other, and a run that is given a later date writes
what the earlier date did not ask for.

## 6. What is not modelled

The blob beside an evidence row; the framework and score caches (section 2); the evidence
library (single-row operations, each one transaction); the browser agent and AI validation
(an external model's answers, which move no status); authentication, grants and privileges
(decided per request from stored rows, independent of order); administration of lookup data
(deletion guarded by a row lock); dashboards and search beyond the sweeps' filters (read-only
SQL); emails beyond whether they are sent; the web applications, the SQL schema and the
pipelines (no protocol of their own).

## 7. The plan

Done: the workflow with its abstract specification and what hangs from it (plans,
evidence), the sweep that acts on it, both reminder sweeps over one ledger, audit controls
with their lifecycle, the agent queue, the directory sync, the migration over risk
numbers, and the user cache.

Next, in this order:

1. Compositions: the sweep over `RiskWorkflow` instead of its four-valued summary,
   `ActionPlan` against `RiskWorkflow` rather than the lifecycle, and two overlapping
   directory syncs.
2. Wider operations of what is modelled in part: the remaining edits of a risk, several
   populations of one control, the storage of the evidence app.
