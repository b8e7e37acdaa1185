----------------------------- MODULE AgentQueue -----------------------------
(***************************************************************************)
(* The queue through which one engineer's web page hands tasks to the       *)
(* engineer's own Runner processes: the backend's handlers, the Runner's     *)
(* loop, and the page that watches a task.  A Runner claims the oldest       *)
(* queued task, works on it, pauses at {PAUSE} steps until the engineer      *)
(* clicks Resume, and posts a result; when anything fails it posts a second  *)
(* one, "failed".                                                           *)
(*                                                                         *)
(* Any call can fail before or after the backend has carried it out, and a    *)
(* post the Runner no longer waits for can still arrive.  Tasks are numbered *)
(* in the order of their creation.  A transaction that has read a row FOR    *)
(* UPDATE holds its lock until it commits.                                  *)
(***************************************************************************)
EXTENDS Naturals, FiniteSets

CONSTANTS
    Tasks,       \* a set of numbers
    Runners,
    MaxPauses,   \* {PAUSE} steps of a task
    MaxClicks,   \* bound: clicks on Resume
    Watched,     \* bound: the tasks a page watches
    MaxFaults    \* bound: lost calls, timeouts, crashes

ASSUME AgentAssumption ==
    /\ Tasks \subseteq Nat /\ IsFiniteSet(Tasks) /\ Tasks # {}
    /\ IsFiniteSet(Runners) /\ Runners \cap { "free", "result" } = {}
    /\ Watched \subseteq Tasks
    /\ MaxPauses \in Nat /\ MaxClicks \in Nat /\ MaxFaults \in Nat

VARIABLES
    task,        \* the rows of agent_tasks
    lock,        \* who holds the lock of each row
    runner,      \* what each Runner is doing
    posts,       \* the results on their way to the backend
    yield,       \* what each task's results have left in the database
    tab,         \* the page watching a task
    clicks,      \* history: how often Resume was clicked for each task
    orphans,     \* history: the tasks a fault has cut off from their Runner
    faults

vars == <<task, lock, runner, posts, yield, tab, clicks, orphans, faults>>

Finished == { "completed", "failed", "cancelled" }
Free     == "free"

\* recorded: completed_at is set.
Task == [ status : { "absent", "queued", "running" } \cup Finished,
          resume : BOOLEAN, recorded : BOOLEAN ]

\* clicked: history, whether Resume was clicked since the pause began.
Runner == [ pc : { "idle", "claiming", "working", "paused", "posting", "failing", "down" },
            task : Tasks, pauses : 0..MaxPauses, clicked : BOOLEAN ]

\* read: its transaction has read the row, which it found to be was.
Post == [ task : Tasks, status : Finished, shots : BOOLEAN,
          by : Runners, last : BOOLEAN, read : BOOLEAN, was : Task ]

Yield == [ evidence : Nat, usage : Nat ]

\* news: a message telling that the task has finished waits for the page.
Tab == [ pc : { "closed", "opening", "open", "told" }, task : Tasks, news : BOOLEAN ]

Untouched == [ status |-> "absent", resume |-> FALSE, recorded |-> FALSE ]

Resting == [ pc |-> "idle", task |-> CHOOSE t \in Tasks : TRUE, pauses |-> 0, clicked |-> FALSE ]

AgentTypeOK ==
    /\ task \in [ Tasks -> Task ]
    /\ lock \in [ Tasks -> Runners \cup { Free, "result" } ]
    /\ runner \in [ Runners -> Runner ]
    /\ posts \subseteq Post
    /\ yield \in [ Tasks -> Yield ]
    /\ tab \in Tab
    /\ clicks \in [ Tasks -> Nat ] /\ orphans \subseteq Tasks
    /\ faults \in 0..MaxFaults
    /\ \A t \in Tasks : task[t].status \in { "absent", "queued" } => ~task[t].recorded

Init ==
    /\ task = [ t \in Tasks |-> Untouched ]
    /\ lock = [ t \in Tasks |-> Free ]
    /\ runner = [ r \in Runners |-> Resting ]
    /\ posts = {}
    /\ yield = [ t \in Tasks |-> [ evidence |-> 0, usage |-> 0 ] ]
    /\ tab = [ pc |-> "closed", task |-> CHOOSE t \in Tasks : TRUE, news |-> FALSE ]
    /\ clicks = [ t \in Tasks |-> 0 ] /\ orphans = {} /\ faults = 0

Fault == faults < MaxFaults /\ faults' = faults + 1

Unlocked(t) == lock[t] = Free

\* _sse_publish: the page is told, unless its queue is full or it is connected
\* to another replica.
Publish(t, status) ==
    \/ /\ tab.pc = "open" /\ tab.task = t /\ status \in Finished
       /\ tab' = [ tab EXCEPT !.news = TRUE ]
    \/ UNCHANGED tab

-----------------------------------------------------------------------------
(* The engineer, on the web page. *)

CreateTask(t) ==
    /\ task[t].status = "absent"
    /\ \A u \in Tasks : u < t => task[u].status # "absent"
    /\ task' = [ task EXCEPT ![t].status = "queued" ]
    /\ UNCHANGED <<lock, runner, posts, yield, tab, clicks, orphans, faults>>

Unfinished(t) == task[t].status \in { "queued", "running" }

\* Mutant: cancelling does not wait for the row's lock.
RowVisible(t) == TRUE

\* The row read FOR UPDATE.
RowForUpdate(t) == Unlocked(t)

CancelTask(t) ==
    /\ RowForUpdate(t) /\ Unfinished(t)
    /\ task' = [ task EXCEPT ![t].status = "cancelled" ]
    /\ UNCHANGED <<lock, runner, posts, yield, tab, clicks, orphans, faults>>

\* The Runners that are paused at a step of this task.
PausedAt(t) == { r \in Runners : runner[r].pc = "paused" /\ runner[r].task = t }

\* A click that finds the flag set changes nothing.  The Resume button is
\* hidden by the click itself, but not on another tab, nor before the page has
\* heard that the pause is over.
ResumeTask(t) ==
    /\ Unfinished(t) /\ Unlocked(t)
    /\ clicks[t] < MaxClicks
    /\ clicks' = [ clicks EXCEPT ![t] = @ + 1 ]
    /\ task' = [ task EXCEPT ![t].resume = TRUE ]
    /\ runner' = [ r \in Runners |->
          IF r \in PausedAt(t) THEN [ runner[r] EXCEPT !.clicked = TRUE ] ELSE runner[r] ]
    /\ UNCHANGED <<lock, posts, yield, tab, orphans, faults>>

\* stream_task reads the task and, unless it is finished, registers its queue:
\* what is published in between is missed.
OpenStream(t) ==
    /\ tab.pc = "closed" /\ t \in Watched /\ task[t].status # "absent"
    /\ tab' = [ tab EXCEPT !.task = t,
                           !.pc = IF task[t].status \in Finished THEN "told" ELSE "opening" ]
    /\ UNCHANGED <<task, lock, runner, posts, yield, clicks, orphans, faults>>

RegisterStream ==
    /\ tab.pc = "opening"
    /\ tab' = [ tab EXCEPT !.pc = "open" ]
    /\ UNCHANGED <<task, lock, runner, posts, yield, clicks, orphans, faults>>

StreamDelivers ==
    /\ tab.pc = "open" /\ tab.news
    /\ tab' = [ tab EXCEPT !.pc = "told", !.news = FALSE ]
    /\ UNCHANGED <<task, lock, runner, posts, yield, clicks, orphans, faults>>

\* Mutant: nothing came for 5 seconds, and only a ping is sent.
StreamPings ==
    tab.pc = "open" /\ UNCHANGED vars

\* Nothing came for 5 seconds: the row is read again.
StreamRereads ==
    /\ tab.pc = "open" /\ ~tab.news
    /\ task[tab.task].status \in Finished
    /\ tab' = [ tab EXCEPT !.pc = "told" ]
    /\ UNCHANGED <<task, lock, runner, posts, yield, clicks, orphans, faults>>

-----------------------------------------------------------------------------
(* The Runner claims a task. *)

Claimable(t) == task[t].status = "queued" /\ Unlocked(t)

Set(r, state) == runner' = [ runner EXCEPT ![r] = state ]

\* /tasks/next reads the oldest queued task ...
NextTask(r) ==
    /\ runner[r].pc = "idle"
    /\ \E t \in Tasks :
          /\ Claimable(t) /\ \A u \in Tasks : Claimable(u) => t <= u
          /\ lock' = [ lock EXCEPT ![t] = r ]
          /\ Set(r, [ Resting EXCEPT !.pc = "claiming", !.task = t ])
    /\ UNCHANGED <<task, posts, yield, tab, clicks, orphans, faults>>

Claims(t) ==
    /\ task' = [ task EXCEPT ![t].status = "running" ]
    /\ lock' = [ lock EXCEPT ![t] = Free ]

\* ... and commits it as running.
TaskClaimed(r) ==
    /\ runner[r].pc = "claiming"
    /\ Claims(runner[r].task)
    /\ Set(r, [ runner[r] EXCEPT !.pc = "working" ])
    /\ UNCHANGED <<posts, yield, tab, clicks, orphans, faults>>

\* The answer does not come back: nobody works on the task from here on.
ClaimLost(r) ==
    /\ runner[r].pc = "claiming" /\ Fault
    /\ Claims(runner[r].task)
    /\ orphans' = orphans \cup { runner[r].task }
    /\ Set(r, Resting)
    /\ UNCHANGED <<posts, yield, tab, clicks>>

ClaimRollsBack(r) ==
    /\ runner[r].pc = "claiming" /\ Fault
    /\ lock' = [ lock EXCEPT ![runner[r].task] = Free ]
    /\ Set(r, Resting)
    /\ UNCHANGED <<task, posts, yield, tab, clicks, orphans>>

-----------------------------------------------------------------------------
(* It works on it. *)

Alone(r) == UNCHANGED <<lock, yield, tab, clicks, faults>>

\* on_pause
Pauses(r) ==
    /\ runner[r].pc = "working" /\ runner[r].pauses < MaxPauses
    /\ Set(r, [ runner[r] EXCEPT !.pc = "paused", !.pauses = @ + 1, !.clicked = FALSE ])
    /\ UNCHANGED <<task, posts, orphans>> /\ Alone(r)

\* /pause-poll takes the flag away as it reads it.
FlagConsumed(t) == task' = [ task EXCEPT ![t].resume = FALSE ]

Resumes(r) ==
    /\ runner[r].pc = "paused" /\ task[runner[r].task].resume
    /\ task[runner[r].task].status # "cancelled" /\ Unlocked(runner[r].task)
    /\ FlagConsumed(runner[r].task)
    /\ Set(r, [ runner[r] EXCEPT !.pc = "working" ])
    /\ UNCHANGED <<posts, orphans>> /\ Alone(r)

\* The answer of that poll is lost: so is the click.
ResumeLost(r) ==
    /\ runner[r].pc = "paused" /\ task[runner[r].task].resume /\ Fault
    /\ Unlocked(runner[r].task)
    /\ FlagConsumed(runner[r].task)
    /\ UNCHANGED <<lock, runner, posts, yield, tab, clicks, orphans>>

\* After 15 minutes.
PauseTimesOut(r) ==
    /\ runner[r].pc = "paused"
    /\ Set(r, [ runner[r] EXCEPT !.pc = "working" ])
    /\ UNCHANGED <<task, posts, orphans>> /\ Alone(r)

-----------------------------------------------------------------------------
(* It posts its result. *)

Sends(r, status, shots, last) ==
    posts' = posts \cup { [ task |-> runner[r].task, status |-> status, shots |-> shots,
                            by |-> r, last |-> last, read |-> FALSE,
                            was |-> Untouched ] }

\* execute_task returned, with or without screenshots.
PostsResult(r) ==
    /\ runner[r].pc = "working"
    /\ \E status \in { "completed", "failed" }, shots \in BOOLEAN :
          Sends(r, status, shots, FALSE)
    /\ Set(r, [ runner[r] EXCEPT !.pc = "posting" ])
    /\ UNCHANGED <<task, orphans>> /\ Alone(r)

\* Mutant: the loop goes on without a word.
TaskDropped(r) ==
    /\ runner[r].pc = "working"
    /\ Set(r, Resting)
    /\ UNCHANGED <<task, posts, orphans>> /\ Alone(r)

\* It raised: the task failed.
TaskRaises(r) ==
    /\ runner[r].pc = "working"
    /\ Sends(r, "failed", FALSE, TRUE)
    /\ Set(r, [ runner[r] EXCEPT !.pc = "failing" ])
    /\ UNCHANGED <<task, orphans>> /\ Alone(r)

\* A heartbeat or a pause-poll tells of the cancellation: the task is stopped,
\* even while its result is being posted.
HearsOfCancel(r) ==
    /\ runner[r].pc \in { "working", "paused", "posting" }
    /\ task[runner[r].task].status = "cancelled"
    /\ Sends(r, "cancelled", FALSE, TRUE)
    /\ Set(r, [ runner[r] EXCEPT !.pc = "failing" ])
    /\ UNCHANGED <<task, orphans>> /\ Alone(r)

\* The post the Runner waits for is still on its way.
Awaits(r) ==
    \E p \in posts :
        p.by = r /\ p.task = runner[r].task /\ p.last = (runner[r].pc = "failing")

\* The call's timeout: certain once the post is lost, a fault before.
TimesOut(r) == IF Awaits(r) THEN Fault ELSE UNCHANGED faults

\* Mutant: a post that fails ends the work on the task.
PostDropped(r) ==
    /\ runner[r].pc = "posting" /\ TimesOut(r)
    /\ Set(r, Resting)
    /\ UNCHANGED <<task, lock, posts, yield, tab, clicks, orphans>>

\* The handler of all errors posts again.
PostFails(r) ==
    /\ runner[r].pc = "posting" /\ TimesOut(r)
    /\ Sends(r, "failed", FALSE, TRUE)
    /\ Set(r, [ runner[r] EXCEPT !.pc = "failing" ])
    /\ UNCHANGED <<task, lock, yield, tab, clicks, orphans>>

\* Not hearing of that one is ignored.
GivesUp(r) ==
    /\ runner[r].pc = "failing" /\ TimesOut(r)
    /\ Set(r, Resting)
    /\ UNCHANGED <<task, lock, posts, yield, tab, clicks, orphans>>

PostLost(p) ==
    /\ ~p.read /\ Fault
    /\ posts' = posts \ { p }
    /\ orphans' = orphans \cup IF p.last THEN { p.task } ELSE {}
    /\ UNCHANGED <<task, lock, runner, yield, tab, clicks>>

\* runner_result reads the row FOR UPDATE ...
ResultRead(p) ==
    /\ ~p.read /\ Unlocked(p.task)
    /\ lock' = [ lock EXCEPT ![p.task] = "result" ]
    /\ posts' = (posts \ { p }) \cup { [ p EXCEPT !.read = TRUE, !.was = task[p.task] ] }
    /\ UNCHANGED <<task, runner, yield, tab, clicks, orphans, faults>>

\* Mutant: a result is recorded whatever was recorded before.
NeverRecorded(p) == FALSE

\* A result was recorded before: this one is a repetition.
Recorded(p) == p.was.recorded

\* Screenshots of a task that was not cancelled become evidence, with a
\* submission.
KeptShots(p) == p.shots /\ p.was.status # "cancelled"

\* The cancellation wins over the status.
ResultStatus(p) ==
    IF p.was.status = "cancelled" THEN "cancelled" ELSE p.status

\* The Runner, when it waits for this very post, goes on; one that failed to
\* sign in to Azure ends itself after its post.
Answered(p) ==
    IF /\ runner[p.by].task = p.task
       /\ runner[p.by].pc = IF p.last THEN "failing" ELSE "posting"
    THEN \E pc \in { "idle" } \cup IF p.last THEN { "down" } ELSE {} :
            Set(p.by, [ Resting EXCEPT !.pc = pc ])
    ELSE UNCHANGED runner

\* ... records it and commits.
ResultCommitted(p) ==
    /\ p.read
    /\ lock' = [ lock EXCEPT ![p.task] = Free ]
    /\ posts' = posts \ { p }
    /\ IF Recorded(p) THEN UNCHANGED <<task, yield, tab>>
       ELSE /\ task' = [ task EXCEPT ![p.task] =
                           [ @ EXCEPT !.status = ResultStatus(p), !.recorded = TRUE ] ]
            /\ yield' = [ yield EXCEPT ![p.task] =
                            [ evidence |-> @.evidence + IF KeptShots(p) THEN 1 ELSE 0,
                              usage |-> @.usage + 1 ] ]
            /\ Publish(p.task, ResultStatus(p))
    /\ Answered(p)
    /\ UNCHANGED <<clicks, orphans, faults>>

-----------------------------------------------------------------------------

Busy(r) == runner[r].pc \in { "working", "paused", "posting", "failing" }

\* The Runner's process dies, or its machine sleeps for good.
Crash(r) ==
    /\ Busy(r) /\ Fault
    /\ orphans' = orphans \cup { runner[r].task }
    /\ Set(r, [ Resting EXCEPT !.pc = "down" ])
    /\ UNCHANGED <<task, lock, posts, yield, tab, clicks>>

Restart(r) ==
    /\ runner[r].pc = "down"
    /\ Set(r, Resting)
    /\ UNCHANGED <<task, posts, orphans>> /\ Alone(r)

Engineer ==
    \/ \E t \in Tasks : CreateTask(t) \/ CancelTask(t) \/ ResumeTask(t) \/ OpenStream(t)

Stream == RegisterStream \/ StreamDelivers \/ StreamRereads

Works(r) ==
    \/ NextTask(r) \/ TaskClaimed(r) \/ Pauses(r) \/ Resumes(r) \/ PauseTimesOut(r)
    \/ PostsResult(r) \/ TaskRaises(r) \/ HearsOfCancel(r) \/ Restart(r)

Fails(r) ==
    ClaimLost(r) \/ ClaimRollsBack(r) \/ ResumeLost(r) \/ PostFails(r) \/ GivesUp(r) \/ Crash(r)

StopsWaiting(r) == ~Awaits(r) /\ (PostFails(r) \/ GivesUp(r))

Backend(p) == ResultRead(p) \/ ResultCommitted(p)

Next ==
    \/ Engineer \/ Stream
    \/ \E r \in Runners : Works(r) \/ Fails(r)
    \/ \E p \in posts : Backend(p) \/ PostLost(p)

Spec == Init /\ [][Next]_vars

\* The page's stream, the Runners' loops (their pauses end, by the click or the
\* cap; a Runner that is down is started again) and the backend's handlers go
\* on as long as they can.
Fairness ==
    /\ WF_vars(Stream)
    /\ \A r \in Runners : WF_vars(Works(r) \/ StopsWaiting(r))
    /\ WF_vars(\E p \in posts : Backend(p))

FairSpec == Spec /\ Fairness

=============================================================================
