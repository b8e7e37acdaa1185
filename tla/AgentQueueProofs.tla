-------------------------- MODULE AgentQueueProofs --------------------------
(***************************************************************************)
(* Proofs, for any tasks, Runners and bounds, of the safety properties of    *)
(* AgentQueue.  Its liveness stays with TLC.                                *)
(***************************************************************************)
EXTENDS AgentQueueProperties, TLAPS

\* A transaction that has read a row keeps it as it was read until it commits,
\* and there is one at a time: a claim or a result.
Held ==
    /\ \A p \in posts : p.read => lock[p.task] = "result" /\ p.was = task[p.task]
    /\ \A p, q \in posts : p.read /\ q.read /\ p.task = q.task => p = q
    /\ \A r \in Runners :
          runner[r].pc = "claiming" =>
            lock[runner[r].task] = r /\ task[runner[r].task].status = "queued"

\* Only a recorded result leaves anything, and "completed" and "failed" are
\* what a recorded result says.
Settled ==
    /\ \A t \in Tasks :
          /\ ~task[t].recorded => yield[t].evidence = 0 /\ yield[t].usage = 0
          /\ task[t].recorded => task[t].status \in Finished
          /\ task[t].status \in { "completed", "failed" } => task[t].recorded
    /\ \A p \in posts : p.shots => p.status # "cancelled"

\* A Runner's task was claimed by it alone; when the Runner leaves a task that
\* is running, its last post is on its way or a fault has cut the task off.
LastPost(t) == \E p \in posts : p.task = t /\ p.last

Owned ==
    /\ \A r \in Runners : Busy(r) => task[runner[r].task].status \notin { "absent", "queued" }
    /\ \A r, q \in Runners :
          r # q /\ Busy(r) /\ Busy(q) => runner[r].task # runner[q].task
    /\ \A r \in Runners, t \in Tasks :
          /\ runner[r].pc = "failing" /\ runner[r].task = t
          /\ task[t].status = "running"
          => LastPost(t) \/ t \in orphans
    /\ \A p \in posts : task[p.task].status \notin { "absent", "queued" }
    /\ \A t \in Tasks :
          task[t].status = "running" =>
            (\E r \in Runners : Busy(r) /\ runner[r].task = t) \/ LastPost(t) \/ t \in orphans

IInv == AgentTypeOK /\ Held /\ Settled /\ ResultOnce /\ Owned

-----------------------------------------------------------------------------
(* Types. *)

LEMMA RestingType ==
    /\ Resting \in Runner /\ Resting.pc = "idle"
    /\ Untouched \in Task
    /\ \A r \in Runners : r # Free /\ r # "result"
<1>1. PICK t \in Tasks : TRUE
    BY AgentAssumption
<1>2. (CHOOSE u \in Tasks : TRUE) \in Tasks
    BY <1>1
<1>3. Resting \in Runner /\ Resting.pc = "idle"
    BY <1>2, AgentAssumption DEF Resting, Runner
<1>4. Untouched \in Task
    BY DEF Untouched, Task
<1>5. \A r \in Runners : r # Free /\ r # "result"
    BY AgentAssumption DEF Free
<1> QED
    BY <1>3, <1>4, <1>5

LEMMA TypeInit == Init => AgentTypeOK
<1> SUFFICES ASSUME Init PROVE AgentTypeOK
    OBVIOUS
<1>1. PICK t \in Tasks : TRUE
    BY AgentAssumption
<1>2. (CHOOSE u \in Tasks : TRUE) \in Tasks
    BY <1>1
<1>3. tab \in Tab
    BY <1>2 DEF Init, Tab
<1>4. task \in [ Tasks -> Task ] /\ \A u \in Tasks : ~task[u].recorded
    BY RestingType DEF Init, Untouched
<1>5. yield \in [ Tasks -> Yield ]
    BY DEF Init, Yield
<1>6. faults \in 0..MaxFaults
    BY AgentAssumption DEF Init
<1> QED
    BY <1>3, <1>4, <1>5, <1>6, RestingType DEF Init, AgentTypeOK

\* A post in the shape Sends gives it.
LEMMA SendsType ==
    ASSUME AgentTypeOK, NEW r \in Runners, NEW status \in Finished, NEW shots \in BOOLEAN,
           NEW last \in BOOLEAN, Sends(r, status, shots, last)
    PROVE  posts' \subseteq Post
<1> DEFINE new == [ task |-> runner[r].task, status |-> status, shots |-> shots,
                    by |-> r, last |-> last, read |-> FALSE, was |-> Untouched ]
<1>1. runner[r].task \in Tasks
    BY DEF AgentTypeOK, Runner
<1>2. new \in Post
    BY <1>1, RestingType DEF Post
<1> QED
    BY <1>2 DEF Sends, AgentTypeOK

\* The state of one Runner is replaced.
LEMMA SetType ==
    ASSUME AgentTypeOK, NEW r \in Runners, NEW state \in Runner, Set(r, state)
    PROVE  runner' \in [ Runners -> Runner ]
BY DEF Set, AgentTypeOK

LEMMA FaultType ==
    ASSUME AgentTypeOK, Fault \/ UNCHANGED faults
    PROVE  faults' \in 0..MaxFaults
BY AgentAssumption DEF AgentTypeOK, Fault

LEMMA TypeEngineer ==
    ASSUME AgentTypeOK, Engineer \/ Stream
    PROVE  AgentTypeOK'
<1>1. ASSUME NEW t \in Tasks, CreateTask(t) \/ CancelTask(t) PROVE AgentTypeOK'
  <2>1. PICK status \in { "queued", "cancelled" } :
            /\ task' = [ task EXCEPT ![t].status = status ]
            /\ status = "queued" => ~task[t].recorded
      BY <1>1 DEF CreateTask, CancelTask, AgentTypeOK
  <2>2. /\ task' \in [ Tasks -> Task ]
        /\ \A u \in Tasks : task'[u].status \in { "absent", "queued" } => ~task'[u].recorded
      BY <2>1 DEF AgentTypeOK, Task, Finished
  <2>3. UNCHANGED <<lock, runner, posts, yield, tab, clicks, orphans, faults>>
      BY <1>1 DEF CreateTask, CancelTask
  <2> QED
      BY <2>2, <2>3 DEF AgentTypeOK
<1>2. ASSUME NEW t \in Tasks, ResumeTask(t) PROVE AgentTypeOK'
  <2>1. runner' \in [ Runners -> Runner ]
      BY <1>2 DEF ResumeTask, AgentTypeOK, Runner
  <2>2. clicks' \in [ Tasks -> Nat ]
      BY <1>2 DEF ResumeTask, AgentTypeOK
  <2>3. task' \in [ Tasks -> Task ] /\ \A u \in Tasks :
            task'[u].status = task[u].status /\ task'[u].recorded = task[u].recorded
      BY <1>2 DEF ResumeTask, AgentTypeOK, Task
  <2> QED
      BY <1>2, <2>1, <2>2, <2>3 DEF ResumeTask, AgentTypeOK
<1>3. ASSUME NEW t \in Tasks, OpenStream(t) PROVE AgentTypeOK'
    BY <1>3 DEF OpenStream, AgentTypeOK, Tab
<1>4. CASE Stream
    BY <1>4 DEF Stream, RegisterStream, StreamDelivers, StreamRereads, AgentTypeOK, Tab
<1> QED
    BY <1>1, <1>2, <1>3, <1>4 DEF Engineer

LEMMA TypeRunner ==
    ASSUME AgentTypeOK, Held, NEW r \in Runners, Works(r) \/ Fails(r)
    PROVE  AgentTypeOK'
<1> DEFINE mine == runner[r].task
<1> USE RestingType
<1>1. mine \in Tasks /\ runner[r] \in Runner
    BY DEF AgentTypeOK, Runner
<1>2. \A pc \in { "working", "posting", "failing" } : [ runner[r] EXCEPT !.pc = pc ] \in Runner
    BY <1>1 DEF Runner
<1>3. \A pc \in { "claiming", "down" }, t \in Tasks :
          /\ [ Resting EXCEPT !.pc = pc, !.task = t ] \in Runner
          /\ [ Resting EXCEPT !.pc = pc ] \in Runner
    BY DEF Runner
<1>4. ASSUME NextTask(r) PROVE AgentTypeOK'
  <2>1. PICK t \in Tasks : /\ lock' = [ lock EXCEPT ![t] = r ]
                           /\ Set(r, [ Resting EXCEPT !.pc = "claiming", !.task = t ])
      BY <1>4 DEF NextTask
  <2>2. runner' \in [ Runners -> Runner ]
      BY <1>3, <2>1, SetType
  <2> QED
      BY <1>4, <2>1, <2>2 DEF NextTask, AgentTypeOK
<1>5. ASSUME TaskClaimed(r) \/ ClaimLost(r) PROVE AgentTypeOK'
  <2>1. runner' \in [ Runners -> Runner ]
      BY <1>2, <1>5, SetType DEF TaskClaimed, ClaimLost
  <2>2. Claims(mine) /\ ~task[mine].recorded
      BY <1>1, <1>5 DEF TaskClaimed, ClaimLost, Held, AgentTypeOK
  <2>3. task' \in [ Tasks -> Task ] /\ lock' \in [ Tasks -> Runners \cup { Free, "result" } ]
      BY <1>1, <2>2 DEF Claims, AgentTypeOK, Task
  <2>4. \A t \in Tasks : task'[t].status \in { "absent", "queued" } => ~task'[t].recorded
      BY <1>1, <2>2 DEF Claims, AgentTypeOK, Task
  <2>5. faults' \in 0..MaxFaults
      BY <1>5, FaultType DEF TaskClaimed, ClaimLost
  <2> QED
      BY <1>1, <1>5, <2>1, <2>3, <2>4, <2>5 DEF TaskClaimed, ClaimLost, AgentTypeOK
<1>6. ASSUME ClaimRollsBack(r) PROVE AgentTypeOK'
    BY <1>1, <1>6, SetType, FaultType DEF ClaimRollsBack, AgentTypeOK
<1>7. ASSUME Pauses(r) \/ PauseTimesOut(r) \/ Restart(r) PROVE AgentTypeOK'
  <2>1. CASE Pauses(r)
    <3> DEFINE n == runner[r].pauses + 1
    <3>3. n \in 0..MaxPauses
        BY <1>1, <2>1, AgentAssumption DEF Pauses, Runner
    <3>1. [ runner[r] EXCEPT !.pc = "paused", !.pauses = n, !.clicked = FALSE ] \in Runner
      <4> HIDE DEF n
      <4> QED
          BY <1>1, <3>3 DEF Runner
    <3>2. runner' \in [ Runners -> Runner ]
        BY <2>1, <3>1, SetType DEF Pauses
    <3> QED
        BY <2>1, <3>2 DEF Pauses, Alone, AgentTypeOK
  <2>2. CASE PauseTimesOut(r) \/ Restart(r)
      BY <1>2, <2>2, SetType DEF PauseTimesOut, Restart, Alone, AgentTypeOK
  <2> QED
      BY <1>7, <2>1, <2>2
<1>8. ASSUME Resumes(r) \/ ResumeLost(r) PROVE AgentTypeOK'
  <2>1. task' \in [ Tasks -> Task ] /\ \A t \in Tasks :
            task'[t].status = task[t].status /\ task'[t].recorded = task[t].recorded
    <3>1. task' = [ task EXCEPT ![mine].resume = FALSE ]
        BY <1>8 DEF Resumes, ResumeLost, FlagConsumed
    <3> QED
        BY <1>1, <3>1 DEF AgentTypeOK, Task
  <2>2. runner' \in [ Runners -> Runner ]
      BY <1>2, <1>8, SetType DEF Resumes, ResumeLost, AgentTypeOK
  <2>3. faults' \in 0..MaxFaults
      BY <1>8, FaultType DEF Resumes, ResumeLost, Alone
  <2> QED
      BY <1>8, <2>1, <2>2, <2>3 DEF Resumes, ResumeLost, Alone, AgentTypeOK
<1>9. ASSUME PostsResult(r) PROVE AgentTypeOK'
  <2>1. posts' \subseteq Post
      BY <1>9, SendsType DEF PostsResult, Finished
  <2> QED
      BY <1>2, <1>9, <2>1, SetType DEF PostsResult, Alone, AgentTypeOK
<1>10. ASSUME TaskRaises(r) \/ HearsOfCancel(r) PROVE AgentTypeOK'
  <2>1. posts' \subseteq Post
      BY <1>10, SendsType DEF TaskRaises, HearsOfCancel, Finished
  <2> QED
      BY <1>2, <1>10, <2>1, SetType DEF TaskRaises, HearsOfCancel, Alone, AgentTypeOK
<1>11. ASSUME PostFails(r) \/ GivesUp(r) PROVE AgentTypeOK'
  <2>1. posts' \subseteq Post
      BY <1>11, SendsType DEF PostFails, GivesUp, Finished, AgentTypeOK
  <2>2. faults' \in 0..MaxFaults
      BY <1>11, FaultType DEF PostFails, GivesUp, TimesOut
  <2>3. runner' \in [ Runners -> Runner ]
      BY <1>2, <1>11, SetType DEF PostFails, GivesUp
  <2> QED
      BY <1>11, <2>1, <2>2, <2>3 DEF PostFails, GivesUp, AgentTypeOK
<1>12. ASSUME Crash(r) PROVE AgentTypeOK'
    BY <1>1, <1>3, <1>12, SetType, FaultType DEF Crash, AgentTypeOK
<1> QED
    BY <1>4, <1>5, <1>6, <1>7, <1>8, <1>9, <1>10, <1>11, <1>12 DEF Works, Fails

LEMMA TypeBackend ==
    ASSUME AgentTypeOK, Held, NEW p \in posts, Backend(p) \/ PostLost(p)
    PROVE  AgentTypeOK'
<1>1. p \in Post /\ p.task \in Tasks /\ p.by \in Runners /\ p.status \in Finished
    BY DEF AgentTypeOK, Post
<1>2. ASSUME ResultRead(p) PROVE AgentTypeOK'
  <2>1. [ p EXCEPT !.read = TRUE, !.was = task[p.task] ] \in Post
      BY <1>1 DEF AgentTypeOK, Post
  <2> QED
      BY <1>1, <1>2, <2>1 DEF ResultRead, AgentTypeOK
<1>3. ASSUME ResultCommitted(p) PROVE AgentTypeOK'
  <2>1. runner' \in [ Runners -> Runner ]
    <3>1. \A pc \in { "idle", "down" } : [ Resting EXCEPT !.pc = pc ] \in Runner
        BY RestingType DEF Runner
    <3> QED
        BY <1>1, <1>3, <3>1, SetType DEF ResultCommitted, Answered, AgentTypeOK
  <2>2. CASE Recorded(p)
      BY <1>1, <1>3, <2>1, <2>2 DEF ResultCommitted, AgentTypeOK
  <2>3. CASE ~Recorded(p)
    <3>1. ResultStatus(p) \in Finished
        BY <1>1 DEF ResultStatus, Finished
    <3>2. /\ task' \in [ Tasks -> Task ]
          /\ \A t \in Tasks : task'[t].status \in { "absent", "queued" } => ~task'[t].recorded
      <4>1. task' = [ task EXCEPT ![p.task] =
                        [ @ EXCEPT !.status = ResultStatus(p), !.recorded = TRUE ] ]
          BY <1>3, <2>3 DEF ResultCommitted
      <4> DEFINE row == [ task[p.task] EXCEPT !.status = ResultStatus(p), !.recorded = TRUE ]
      <4>2. row \in Task /\ row.status \in Finished
          BY <1>1, <3>1 DEF AgentTypeOK, Task, Finished
      <4>3. task' = [ task EXCEPT ![p.task] = row ]
          BY <4>1
      <4> HIDE DEF row
      <4>4. task' \in [ Tasks -> Task ]
          BY <1>1, <4>2, <4>3 DEF AgentTypeOK
      <4>5. ASSUME NEW t \in Tasks, task'[t].status \in { "absent", "queued" }
            PROVE  ~task'[t].recorded
          BY <1>1, <4>2, <4>3, <4>5 DEF AgentTypeOK, Finished
      <4> QED
          BY <4>4, <4>5
    <3>3. yield' \in [ Tasks -> Yield ]
      <4> DEFINE more == IF KeptShots(p) THEN 1 ELSE 0
      <4>1. yield' = [ yield EXCEPT ![p.task] = [ evidence |-> @.evidence + more, usage |-> @.usage + 1 ] ]
          BY <1>3, <2>3 DEF ResultCommitted
      <4>2. more \in Nat
          OBVIOUS
      <4> HIDE DEF more
      <4> QED
          BY <1>1, <4>1, <4>2 DEF AgentTypeOK, Yield
    <3>4. tab' \in Tab
        BY <1>3, <2>3 DEF ResultCommitted, Publish, AgentTypeOK, Tab
    <3> QED
        BY <1>1, <1>3, <2>1, <3>2, <3>3, <3>4 DEF ResultCommitted, AgentTypeOK
  <2> QED
      BY <2>2, <2>3
<1>4. ASSUME PostLost(p) PROVE AgentTypeOK'
    BY <1>1, <1>4, FaultType DEF PostLost, AgentTypeOK
<1> QED
    BY <1>2, <1>3, <1>4 DEF Backend

LEMMA TypeNext == AgentTypeOK /\ Held /\ [Next]_vars => AgentTypeOK'
<1> SUFFICES ASSUME AgentTypeOK, Held, [Next]_vars PROVE AgentTypeOK'
    OBVIOUS
<1>1. CASE UNCHANGED vars
    BY <1>1 DEF vars, AgentTypeOK
<1> QED
    BY <1>1, TypeEngineer, TypeRunner, TypeBackend DEF Next

-----------------------------------------------------------------------------
(* Held. *)

LEMMA HeldInit == Init => Held
BY DEF Init, Held, Resting

\* What no lock protects may change.
LEMMA HeldQuietly ==
    ASSUME AgentTypeOK, Held,
           \A p \in posts' : p.read => p \in posts,
           \A t \in Tasks : lock[t] # Free => lock'[t] = lock[t] /\ task'[t] = task[t],
           \A r \in Runners : runner'[r].pc = "claiming" =>
                runner[r].pc = "claiming" /\ runner'[r].task = runner[r].task
    PROVE  Held'
<1>1. \A p \in posts : p.task \in Tasks
    BY DEF AgentTypeOK, Post
<1>2. \A r \in Runners : runner[r].task \in Tasks
    BY DEF AgentTypeOK, Runner
<1> QED
    BY <1>1, <1>2, RestingType DEF Held, Free

LEMMA HeldEngineer ==
    ASSUME AgentTypeOK, Held, Owned, Engineer \/ Stream
    PROVE  Held'
<1>1. \A p \in posts : p.task \in Tasks
    BY DEF AgentTypeOK, Post
<1>2. \A r \in Runners : runner[r].task \in Tasks
    BY DEF AgentTypeOK, Runner
<1>3. ASSUME NEW t \in Tasks, CreateTask(t) PROVE Held'
  <2>1. \A u \in Tasks : u # t => task'[u] = task[u]
      BY <1>3 DEF CreateTask, AgentTypeOK
  <2>2. task[t].status = "absent" /\ UNCHANGED <<lock, runner, posts>>
      BY <1>3 DEF CreateTask
  <2>3. \A p \in posts : p.task # t
      BY <2>2 DEF Owned
  <2>4. \A r \in Runners : runner[r].pc = "claiming" => runner[r].task # t
      BY <2>2 DEF Held
  <2> QED
      BY <1>1, <1>2, <2>1, <2>2, <2>3, <2>4 DEF Held
<1>4. ASSUME NEW t \in Tasks, CancelTask(t) \/ ResumeTask(t) PROVE Held'
  <2>1. lock[t] = Free /\ \A u \in Tasks : u # t => task'[u] = task[u]
      BY <1>4 DEF CancelTask, ResumeTask, RowForUpdate, Unlocked, AgentTypeOK
  <2>2. UNCHANGED <<lock, posts>>
      BY <1>4 DEF CancelTask, ResumeTask
  <2>3. \A r \in Runners : runner'[r].pc = runner[r].pc /\ runner'[r].task = runner[r].task
      BY <1>4 DEF CancelTask, ResumeTask, AgentTypeOK, Runner
  <2> QED
      BY <2>1, <2>2, <2>3, HeldQuietly
<1>5. CASE UNCHANGED <<task, lock, runner, posts>>
    BY <1>5, HeldQuietly
<1> QED
    BY <1>3, <1>4, <1>5 DEF Engineer, Stream, OpenStream, RegisterStream, StreamDelivers, StreamRereads

LEMMA HeldRunner ==
    ASSUME AgentTypeOK, Held, NEW r \in Runners, Works(r) \/ Fails(r)
    PROVE  Held'
<1> DEFINE mine == runner[r].task
<1>1. \A p \in posts : p.task \in Tasks
    BY DEF AgentTypeOK, Post
<1>2. \A q \in Runners : runner[q].task \in Tasks
    BY DEF AgentTypeOK, Runner
<1>3. ASSUME NEW state, Set(r, state)
      PROVE  runner'[r] = state /\ \A q \in Runners : q # r => runner'[q] = runner[q]
    BY <1>3 DEF Set, AgentTypeOK
<1>4. ASSUME NEW state, Set(r, state), state.pc # "claiming"
      PROVE  \A q \in Runners : runner'[q].pc = "claiming" =>
                 q # r /\ runner[q].pc = "claiming" /\ runner'[q].task = runner[q].task
    BY <1>3, <1>4
<1>5. /\ Resting.pc # "claiming"
      /\ \A pc : [ Resting EXCEPT !.pc = pc ].pc = pc
      /\ \A pc : [ runner[r] EXCEPT !.pc = pc ].pc = pc
    BY RestingType DEF Resting, AgentTypeOK, Runner
<1>6. ASSUME NextTask(r) PROVE Held'
  <2>1. PICK t \in Tasks : /\ Claimable(t) /\ lock' = [ lock EXCEPT ![t] = r ]
                           /\ Set(r, [ Resting EXCEPT !.pc = "claiming", !.task = t ])
      BY <1>6 DEF NextTask
  <2>2. /\ lock[t] = Free /\ task[t].status = "queued" /\ lock'[t] = r
        /\ \A u \in Tasks : u # t => lock'[u] = lock[u]
      BY <2>1 DEF Claimable, Unlocked, AgentTypeOK
  <2>3. runner'[r].task = t /\ \A q \in Runners : q # r => runner'[q] = runner[q]
    <3>1. [ Resting EXCEPT !.pc = "claiming", !.task = t ].task = t
        BY DEF Resting
    <3> QED
        BY <1>3, <2>1, <3>1
  <2>4. UNCHANGED <<task, posts>>
      BY <1>6 DEF NextTask
  <2>5. \A p \in posts : p.read => p.task # t
      BY <2>2 DEF Held, Free
  <2>6. \A q \in Runners : runner[q].pc = "claiming" => runner[q].task # t
      BY <2>2, RestingType DEF Held
  <2> QED
      BY <1>1, <1>2, <2>2, <2>3, <2>4, <2>5, <2>6 DEF Held
<1>7. ASSUME TaskClaimed(r) \/ ClaimLost(r) \/ ClaimRollsBack(r) PROVE Held'
  <2>1. /\ lock[mine] = r
        /\ lock' = [ lock EXCEPT ![mine] = Free ]
        /\ \A u \in Tasks : u # mine => task'[u] = task[u]
      BY <1>2, <1>7 DEF TaskClaimed, ClaimLost, ClaimRollsBack, Claims, Held, AgentTypeOK
  <2>2. UNCHANGED posts
      BY <1>7 DEF TaskClaimed, ClaimLost, ClaimRollsBack
  <2>3. \A q \in Runners : runner'[q].pc = "claiming" =>
            q # r /\ runner[q].pc = "claiming" /\ runner'[q].task = runner[q].task
      BY <1>4, <1>5, <1>7 DEF TaskClaimed, ClaimLost, ClaimRollsBack
  <2>4. \A p \in posts : p.read => p.task # mine
      BY <2>1, RestingType DEF Held
  <2>5. \A q \in Runners : q # r /\ runner[q].pc = "claiming" => runner[q].task # mine
      BY <2>1 DEF Held
  <2>6. \A u \in Tasks : u # mine => lock'[u] = lock[u]
      BY <2>1 DEF AgentTypeOK
  <2> QED
      BY <1>1, <1>2, <2>1, <2>2, <2>3, <2>4, <2>5, <2>6 DEF Held
<1>8. ASSUME Resumes(r) \/ ResumeLost(r) PROVE Held'
  <2>1. lock[mine] = Free /\ \A u \in Tasks : u # mine => task'[u] = task[u]
      BY <1>2, <1>8 DEF Resumes, ResumeLost, FlagConsumed, Unlocked, AgentTypeOK
  <2>2. UNCHANGED <<lock, posts>>
      BY <1>8 DEF Resumes, ResumeLost, Alone
  <2>3. \A q \in Runners : runner'[q].pc = "claiming" =>
            runner[q].pc = "claiming" /\ runner'[q].task = runner[q].task
      BY <1>4, <1>5, <1>8 DEF Resumes, ResumeLost
  <2> QED
      BY <2>1, <2>2, <2>3, HeldQuietly
<1>9. ASSUME \/ Pauses(r) \/ PauseTimesOut(r) \/ Restart(r) \/ GivesUp(r) \/ Crash(r)
             \/ PostsResult(r) \/ TaskRaises(r) \/ HearsOfCancel(r) \/ PostFails(r)
      PROVE  Held'
  <2>1. UNCHANGED <<task, lock>>
      BY <1>9 DEF Pauses, PauseTimesOut, Restart, GivesUp, Crash, PostsResult, TaskRaises,
                  HearsOfCancel, PostFails, Alone
  <2>2. \A p \in posts' : p.read => p \in posts
      BY <1>9 DEF Pauses, PauseTimesOut, Restart, GivesUp, Crash, PostsResult, TaskRaises,
                  HearsOfCancel, PostFails, Sends
  <2>3. [ runner[r] EXCEPT !.pc = "paused", !.pauses = @ + 1, !.clicked = FALSE ].pc = "paused"
      BY DEF AgentTypeOK, Runner
  <2>4. \A q \in Runners : runner'[q].pc = "claiming" =>
            runner[q].pc = "claiming" /\ runner'[q].task = runner[q].task
    <3>1. CASE Pauses(r) \/ PauseTimesOut(r) \/ Restart(r)
        BY <1>4, <1>5, <2>3, <3>1 DEF Pauses, PauseTimesOut, Restart
    <3>2. CASE GivesUp(r) \/ Crash(r)
        BY <1>4, <1>5, <3>2 DEF GivesUp, Crash
    <3>3. CASE PostsResult(r) \/ TaskRaises(r) \/ HearsOfCancel(r) \/ PostFails(r)
        BY <1>4, <1>5, <3>3 DEF PostsResult, TaskRaises, HearsOfCancel, PostFails
    <3> QED
        BY <1>9, <3>1, <3>2, <3>3
  <2> QED
      BY <2>1, <2>2, <2>4, HeldQuietly
<1> QED
    BY <1>6, <1>7, <1>8, <1>9 DEF Works, Fails

LEMMA HeldBackend ==
    ASSUME AgentTypeOK, Held, NEW p \in posts, Backend(p) \/ PostLost(p)
    PROVE  Held'
<1>1. \A q \in posts : q.task \in Tasks
    BY DEF AgentTypeOK, Post
<1>2. \A r \in Runners : runner[r].task \in Tasks
    BY DEF AgentTypeOK, Runner
<1>3. ASSUME ResultRead(p) PROVE Held'
  <2> DEFINE was == [ p EXCEPT !.read = TRUE, !.was = task[p.task] ]
  <2>1. /\ lock[p.task] = Free /\ lock'[p.task] = "result"
        /\ \A u \in Tasks : u # p.task => lock'[u] = lock[u]
      BY <1>1, <1>3 DEF ResultRead, Unlocked, AgentTypeOK
  <2>2. was.task = p.task /\ was.was = task[p.task]
      BY DEF AgentTypeOK, Post
  <2>3. posts' = (posts \ { p }) \cup { was } /\ UNCHANGED <<task, runner>>
      BY <1>3 DEF ResultRead
  <2>4. \A q \in posts : q.read => q.task # p.task
      BY <2>1 DEF Held, Free
  <2>5. \A r \in Runners : runner[r].pc = "claiming" => runner[r].task # p.task
      BY <2>1, RestingType DEF Held
  <2> HIDE DEF was
  <2> QED
      BY <1>1, <1>2, <2>1, <2>2, <2>3, <2>4, <2>5 DEF Held
<1>4. ASSUME ResultCommitted(p) PROVE Held'
  <2>1. /\ lock[p.task] = "result" /\ p.read
        /\ \A u \in Tasks : u # p.task => lock'[u] = lock[u]
      BY <1>1, <1>4 DEF ResultCommitted, Held, AgentTypeOK
  <2>2. posts' = posts \ { p } /\ \A u \in Tasks : u # p.task => task'[u] = task[u]
      BY <1>1, <1>4 DEF ResultCommitted, AgentTypeOK
  <2>3. \A q \in posts' : q.read => q.task # p.task
      BY <2>1, <2>2 DEF Held
  <2>4. \A r \in Runners : runner[r].pc = "claiming" => runner[r].task # p.task
      BY <2>1, RestingType DEF Held
  <2>5. \A r \in Runners : runner'[r].pc = "claiming" =>
            runner[r].pc = "claiming" /\ runner'[r].task = runner[r].task
    <3>1. \A pc : [ Resting EXCEPT !.pc = pc ].pc = pc
        BY DEF Resting
    <3> QED
        BY <1>4, <3>1 DEF ResultCommitted, Answered, Set, AgentTypeOK
  <2> QED
      BY <1>1, <1>2, <2>1, <2>2, <2>3, <2>4, <2>5 DEF Held
<1>5. ASSUME PostLost(p) PROVE Held'
    BY <1>5, HeldQuietly DEF PostLost
<1> QED
    BY <1>3, <1>4, <1>5 DEF Backend

LEMMA HeldNext == AgentTypeOK /\ Held /\ Owned /\ [Next]_vars => Held'
<1> SUFFICES ASSUME AgentTypeOK, Held, Owned, [Next]_vars PROVE Held'
    OBVIOUS
<1>1. CASE UNCHANGED vars
    BY <1>1, HeldQuietly DEF vars
<1> QED
    BY <1>1, HeldEngineer, HeldRunner, HeldBackend DEF Next

-----------------------------------------------------------------------------
(* Settled, and what the results leave. *)

LEMMA SettledInit == Init => Settled /\ ResultOnce
BY DEF Init, Settled, ResultOnce, Untouched

\* As long as nothing is recorded, nothing is left and no result is claimed.
LEMMA SettledQuietly ==
    ASSUME AgentTypeOK, Settled, ResultOnce, yield' = yield,
           \A t \in Tasks :
              /\ task'[t].recorded = task[t].recorded
              /\ \/ task'[t].status = task[t].status
                 \/ ~task[t].recorded /\ task'[t].status \notin { "completed", "failed" },
           \A p \in posts' : p.shots => p.status # "cancelled"
    PROVE  Settled' /\ ResultOnce'
<1>1. \A t \in Tasks : yield[t].evidence \in Nat /\ yield[t].usage \in Nat
    BY DEF AgentTypeOK, Yield
<1>2. ResultOnce'
    BY <1>1 DEF Settled, ResultOnce
<1>3. Settled'
    BY DEF Settled
<1> QED
    BY <1>2, <1>3

LEMMA SettledEngineer ==
    ASSUME AgentTypeOK, Settled, ResultOnce, Engineer \/ Stream
    PROVE  Settled' /\ ResultOnce'
<1>1. ASSUME NEW t \in Tasks, CreateTask(t) \/ CancelTask(t) \/ ResumeTask(t)
      PROVE  Settled' /\ ResultOnce'
  <2>1. \A u \in Tasks : u # t => task'[u] = task[u]
      BY <1>1 DEF CreateTask, CancelTask, ResumeTask, AgentTypeOK
  <2>2. task[t].status \in { "absent", "queued", "running" }
      BY <1>1 DEF CreateTask, CancelTask, ResumeTask, Unfinished
  <2>3. ~task[t].recorded
      BY <2>2 DEF Settled, Finished
  <2>4. /\ task'[t].recorded = task[t].recorded
        /\ task'[t].status \in { task[t].status, "queued", "cancelled" }
      BY <1>1 DEF CreateTask, CancelTask, ResumeTask, AgentTypeOK, Task
  <2>5. UNCHANGED <<yield, posts>>
      BY <1>1 DEF CreateTask, CancelTask, ResumeTask
  <2> QED
      BY <2>1, <2>3, <2>4, <2>5, SettledQuietly DEF Settled
<1>2. CASE UNCHANGED <<task, yield, posts>>
    BY <1>2, SettledQuietly DEF Settled
<1> QED
    BY <1>1, <1>2 DEF Engineer, Stream, OpenStream, RegisterStream, StreamDelivers, StreamRereads

LEMMA SettledRunner ==
    ASSUME AgentTypeOK, Held, Settled, ResultOnce, NEW r \in Runners, Works(r) \/ Fails(r)
    PROVE  Settled' /\ ResultOnce'
<1> DEFINE mine == runner[r].task
<1>1. mine \in Tasks
    BY DEF AgentTypeOK, Runner
<1>2. ASSUME NEW status, NEW shots, NEW last, Sends(r, status, shots, last),
             shots => status # "cancelled"
      PROVE  \A p \in posts' : p.shots => p.status # "cancelled"
    BY <1>2 DEF Sends, Settled
<1>3. ASSUME TaskClaimed(r) \/ ClaimLost(r) PROVE Settled' /\ ResultOnce'
  <2>1. task[mine].status = "queued" /\ ~task[mine].recorded
      BY <1>1, <1>3 DEF TaskClaimed, ClaimLost, Held, AgentTypeOK
  <2>2. /\ \A u \in Tasks : u # mine => task'[u] = task[u]
        /\ task'[mine].recorded = task[mine].recorded /\ task'[mine].status = "running"
      BY <1>1, <1>3 DEF TaskClaimed, ClaimLost, Claims, AgentTypeOK, Task
  <2>3. UNCHANGED <<yield, posts>>
      BY <1>3 DEF TaskClaimed, ClaimLost
  <2> QED
      BY <2>1, <2>2, <2>3, SettledQuietly DEF Settled
<1>4. ASSUME Resumes(r) \/ ResumeLost(r) PROVE Settled' /\ ResultOnce'
  <2>1. task' = [ task EXCEPT ![mine].resume = FALSE ]
      BY <1>4 DEF Resumes, ResumeLost, FlagConsumed
  <2>2. \A u \in Tasks : task'[u].recorded = task[u].recorded /\ task'[u].status = task[u].status
      BY <1>1, <2>1 DEF AgentTypeOK, Task
  <2>3. UNCHANGED <<yield, posts>>
      BY <1>4 DEF Resumes, ResumeLost, Alone
  <2> QED
      BY <2>2, <2>3, SettledQuietly DEF Settled
<1>5. ASSUME PostsResult(r) \/ TaskRaises(r) \/ HearsOfCancel(r) \/ PostFails(r)
      PROVE  Settled' /\ ResultOnce'
  <2>1. \A p \in posts' : p.shots => p.status # "cancelled"
      BY <1>2, <1>5 DEF PostsResult, TaskRaises, HearsOfCancel, PostFails
  <2>2. UNCHANGED <<task, yield>>
      BY <1>5 DEF PostsResult, TaskRaises, HearsOfCancel, PostFails, Alone
  <2> QED
      BY <2>1, <2>2, SettledQuietly
<1>6. CASE UNCHANGED <<task, yield, posts>>
    BY <1>6, SettledQuietly DEF Settled
<1> QED
    BY <1>3, <1>4, <1>5, <1>6
    DEF Works, Fails, NextTask, ClaimRollsBack, Pauses, PauseTimesOut, Restart, GivesUp, Crash, Alone

LEMMA SettledBackend ==
    ASSUME AgentTypeOK, Held, Settled, ResultOnce, NEW p \in posts, Backend(p) \/ PostLost(p)
    PROVE  Settled' /\ ResultOnce'
<1> DEFINE t == p.task
<1>1. p \in Post /\ t \in Tasks /\ p.status \in Finished
    BY DEF AgentTypeOK, Post
<1>2. ASSUME ResultRead(p) PROVE Settled' /\ ResultOnce'
  <2> DEFINE was == [ p EXCEPT !.read = TRUE, !.was = task[p.task] ]
  <2>1. was.shots = p.shots /\ was.status = p.status
      BY <1>1 DEF Post
  <2>2. posts' = (posts \ { p }) \cup { was } /\ UNCHANGED <<task, yield>>
      BY <1>2 DEF ResultRead
  <2> HIDE DEF was
  <2>3. \A q \in posts' : q.shots => q.status # "cancelled"
      BY <2>1, <2>2 DEF Settled
  <2> QED
      BY <2>2, <2>3, SettledQuietly
<1>3. ASSUME PostLost(p) PROVE Settled' /\ ResultOnce'
    BY <1>3, SettledQuietly DEF PostLost, Settled
<1>4. ASSUME ResultCommitted(p) PROVE Settled' /\ ResultOnce'
  <2>1. p.was = task[t] /\ posts' = posts \ { p }
      BY <1>4 DEF ResultCommitted, Held
  <2>2. CASE Recorded(p)
      BY <1>4, <2>1, <2>2, SettledQuietly DEF ResultCommitted, Settled
  <2>3. CASE ~Recorded(p)
    <3> DEFINE more == IF KeptShots(p) THEN 1 ELSE 0
    <3>1. /\ task' = [ task EXCEPT ![t] = [ @ EXCEPT !.status = ResultStatus(p), !.recorded = TRUE ] ]
          /\ yield' = [ yield EXCEPT ![t] = [ evidence |-> @.evidence + more, usage |-> @.usage + 1 ] ]
        BY <1>4, <2>3 DEF ResultCommitted
    <3>2. ~task[t].recorded /\ yield[t].evidence = 0 /\ yield[t].usage = 0
        BY <1>1, <2>1, <2>3 DEF Recorded, Settled
    <3>3. /\ more \in { 0, 1 }
          /\ ResultStatus(p) = "cancelled" => more = 0
        BY <1>1 DEF KeptShots, ResultStatus, Settled
    <3>4. ResultStatus(p) \in Finished
        BY <1>1 DEF ResultStatus, Finished
    <3> HIDE DEF more
    <3>5. /\ task'[t].recorded /\ task'[t].status = ResultStatus(p)
          /\ \A u \in Tasks : u # t => task'[u] = task[u]
        BY <1>1, <3>1 DEF AgentTypeOK, Task
    <3>6. /\ yield'[t].evidence = more /\ yield'[t].usage = 1
          /\ \A u \in Tasks : u # t => yield'[u] = yield[u]
        BY <1>1, <3>1, <3>2, <3>3 DEF AgentTypeOK, Yield
    <3>7. ResultOnce'
        BY <3>3, <3>5, <3>6 DEF ResultOnce
    <3>8. Settled'
        BY <2>1, <3>4, <3>5, <3>6 DEF Settled
    <3> QED
        BY <3>7, <3>8
  <2> QED
      BY <2>2, <2>3
<1> QED
    BY <1>2, <1>3, <1>4 DEF Backend

LEMMA SettledNext ==
    AgentTypeOK /\ Held /\ Settled /\ ResultOnce /\ [Next]_vars => Settled' /\ ResultOnce'
<1> SUFFICES ASSUME AgentTypeOK, Held, Settled, ResultOnce, [Next]_vars
             PROVE  Settled' /\ ResultOnce'
    OBVIOUS
<1>1. CASE UNCHANGED vars
    BY <1>1, SettledQuietly DEF vars, Settled
<1> QED
    BY <1>1, SettledEngineer, SettledRunner, SettledBackend DEF Next

-----------------------------------------------------------------------------
(* Owned. *)

LEMMA OwnedInit == Init => Owned
BY RestingType DEF Init, Owned, Busy, Untouched

Started(t) == task[t].status \notin { "absent", "queued" }

\* No Runner takes a task on, and one that leaves a task leaves an excuse.
LEMMA OwnedQuietly ==
    ASSUME AgentTypeOK, Owned,
           \A t \in Tasks :
              /\ Started(t) => Started(t)'
              /\ task'[t].status = "running" => task[t].status = "running" \/ t \in orphans'
              /\ t \in orphans => t \in orphans'
              /\ task'[t].status = "running" /\ LastPost(t) => LastPost(t)' \/ t \in orphans',
           \A r \in Runners : Busy(r)' => Busy(r) /\ runner'[r].task = runner[r].task,
           \A r \in Runners, t \in Tasks :
              runner[r].task = t /\ task'[t].status = "running" =>
                /\ runner'[r].pc = "failing" => runner[r].pc = "failing" \/ LastPost(t)'
                /\ Busy(r) /\ ~Busy(r)' => LastPost(t)' \/ t \in orphans',
           \A p \in posts' : \E t \in Tasks : p.task = t /\ Started(t)
    PROVE  Owned'
<1>1. \A r \in Runners : runner[r].task \in Tasks
    BY DEF AgentTypeOK, Runner
<1>2. \A r \in Runners : Busy(r)' => task'[runner'[r].task].status \notin { "absent", "queued" }
    BY <1>1 DEF Owned, Started
<1>3. \A r, q \in Runners : r # q /\ Busy(r)' /\ Busy(q)' => runner'[r].task # runner'[q].task
    BY DEF Owned
<1>4. ASSUME NEW r \in Runners, NEW t \in Tasks,
             runner'[r].pc = "failing", runner'[r].task = t, task'[t].status = "running"
      PROVE  LastPost(t)' \/ t \in orphans'
  <2>1. runner[r].task = t
      BY <1>4 DEF Busy
  <2> QED
      BY <1>4, <2>1 DEF Owned
<1>5. ASSUME NEW t \in Tasks, task'[t].status = "running"
      PROVE  (\E r \in Runners : Busy(r)' /\ runner'[r].task = t) \/ LastPost(t)' \/ t \in orphans'
  <2>1. CASE task[t].status = "running" /\ t \notin orphans'
    <3>1. CASE \E r \in Runners : Busy(r) /\ runner[r].task = t
        BY <1>5, <2>1, <3>1
    <3>2. CASE LastPost(t) \/ t \in orphans
        BY <1>5, <2>1, <3>2
    <3> QED
        BY <2>1, <3>1, <3>2 DEF Owned
  <2> QED
      BY <1>5, <2>1
<1>6. \A p \in posts' : task'[p.task].status \notin { "absent", "queued" }
    BY DEF Started
<1> QED
    BY <1>2, <1>3, <1>4, <1>5, <1>6 DEF Owned, Busy, LastPost

LEMMA PostsStarted ==
    ASSUME AgentTypeOK, Owned
    PROVE  \A p \in posts : p.task \in Tasks /\ Started(p.task)
BY DEF AgentTypeOK, Post, Owned, Started

LEMMA OwnedEngineer ==
    ASSUME AgentTypeOK, Owned, Engineer \/ Stream
    PROVE  Owned'
<1>1. ASSUME NEW t \in Tasks, CreateTask(t) \/ CancelTask(t) \/ ResumeTask(t)
      PROVE  Owned'
  <2>1. \A u \in Tasks : u # t => task'[u] = task[u]
      BY <1>1 DEF CreateTask, CancelTask, ResumeTask, AgentTypeOK
  <2>2. \/ task[t].status = "absent" /\ task'[t].status = "queued"
        \/ task'[t].status = "cancelled"
        \/ task'[t].status = task[t].status
      BY <1>1 DEF CreateTask, CancelTask, ResumeTask, AgentTypeOK, Task
  <2>3. \A u \in Tasks : /\ Started(u) => Started(u)'
                         /\ task'[u].status = "running" => task[u].status = "running"
      BY <2>1, <2>2 DEF Started
  <2>4. UNCHANGED <<posts, orphans>>
      BY <1>1 DEF CreateTask, CancelTask, ResumeTask
  <2>5. \A r \in Runners : runner'[r].pc = runner[r].pc /\ runner'[r].task = runner[r].task
      BY <1>1 DEF CreateTask, CancelTask, ResumeTask, AgentTypeOK, Runner
  <2>6. \A u : LastPost(u)' <=> LastPost(u)
      BY <2>4 DEF LastPost
  <2> QED
      BY <2>3, <2>4, <2>5, <2>6, PostsStarted, OwnedQuietly DEF Busy
<1>2. CASE UNCHANGED <<task, runner, posts, orphans>>
    BY <1>2, PostsStarted, OwnedQuietly DEF Started, Busy, LastPost
<1> QED
    BY <1>1, <1>2 DEF Engineer, Stream, OpenStream, RegisterStream, StreamDelivers, StreamRereads

\* The steps of a Runner at work: it keeps its task, or gives it up.
LEMMA OwnedAtWork ==
    ASSUME AgentTypeOK, Owned, NEW r \in Runners,
           \A t \in Tasks : task'[t].status = task[t].status,
           posts \subseteq posts', orphans \subseteq orphans',
           \A q \in Runners : q # r => runner'[q] = runner[q],
           Busy(r)' => Busy(r) /\ runner'[r].task = runner[r].task,
           \A p \in posts' : p \in posts \/ (Busy(r) /\ p.task = runner[r].task),
           \A t \in Tasks :
              runner[r].task = t /\ task[t].status = "running" =>
                /\ runner'[r].pc = "failing" => runner[r].pc = "failing" \/ LastPost(t)'
                /\ Busy(r) /\ ~Busy(r)' => LastPost(t)' \/ t \in orphans'
    PROVE  Owned'
<1>1. \A t : LastPost(t) => LastPost(t)'
    BY DEF LastPost
<1>2. runner[r].task \in Tasks /\ \A q \in Runners : runner[q].task \in Tasks
    BY DEF AgentTypeOK, Runner
<1>3. \A p \in posts' : \E t \in Tasks : p.task = t /\ Started(t)
    BY <1>2, PostsStarted DEF Owned, Started
<1>4. \A t \in Tasks : Started(t) => Started(t)'
    BY DEF Started
<1>5. \A q \in Runners : q # r => (Busy(q)' <=> Busy(q))
    BY DEF Busy
<1> QED
    BY <1>1, <1>2, <1>3, <1>4, <1>5, OwnedQuietly

LEMMA OwnedRunner ==
    ASSUME AgentTypeOK, Held, Owned, NEW r \in Runners, Works(r) \/ Fails(r)
    PROVE  Owned'
<1> DEFINE mine == runner[r].task
<1>1. mine \in Tasks /\ runner[r] \in Runner
    BY DEF AgentTypeOK, Runner
<1>2. ASSUME NEW state, Set(r, state)
      PROVE  runner'[r] = state /\ \A q \in Runners : q # r => runner'[q] = runner[q]
    BY <1>2 DEF Set, AgentTypeOK
<1>3. /\ \A pc : [ Resting EXCEPT !.pc = pc ].pc = pc
      /\ \A pc : /\ [ runner[r] EXCEPT !.pc = pc ].pc = pc
                 /\ [ runner[r] EXCEPT !.pc = pc ].task = mine
      /\ \A t \in Tasks : [ Resting EXCEPT !.pc = "claiming", !.task = t ].pc = "claiming"
    BY <1>1 DEF Resting, Runner
<1>4. ASSUME TaskClaimed(r) PROVE Owned'
  <2>1. task[mine].status = "queued" /\ ~Busy(r)
      BY <1>4 DEF TaskClaimed, Held, Busy
  <2>2. /\ \A u \in Tasks : u # mine => task'[u] = task[u]
        /\ task'[mine].status = "running"
      BY <1>1, <1>4 DEF TaskClaimed, Claims, AgentTypeOK, Task
  <2>3. UNCHANGED <<posts, orphans>>
      BY <1>4 DEF TaskClaimed
  <2>4. /\ runner'[r].pc = "working" /\ runner'[r].task = mine
        /\ \A q \in Runners : q # r => runner'[q] = runner[q]
      BY <1>1, <1>4 DEF TaskClaimed, Set, AgentTypeOK, Runner
  <2>5. \A q \in Runners : q # r /\ Busy(q) => runner[q].task # mine
      BY <2>1 DEF Owned
  <2>6. \A q \in Runners : (Busy(q)' <=> Busy(q) \/ q = r) /\ runner'[q].task = runner[q].task
      BY <2>4 DEF Busy
  <2>7. \A q \in Runners : runner[q].task \in Tasks
      BY DEF AgentTypeOK, Runner
  <2>8. \A p \in posts : p.task \in Tasks /\ p.task # mine
      BY <2>1, PostsStarted DEF Started
  <2>9. \A t : LastPost(t)' <=> LastPost(t)
      BY <2>3 DEF LastPost
  <2>10. \A q \in Runners : Busy(q)' => task'[runner'[q].task].status \notin { "absent", "queued" }
      BY <2>2, <2>5, <2>6, <2>7 DEF Owned
  <2>11. \A q, w \in Runners : q # w /\ Busy(q)' /\ Busy(w)' => runner'[q].task # runner'[w].task
      BY <2>5, <2>6 DEF Owned
  <2>12. ASSUME NEW q \in Runners, NEW t \in Tasks,
                runner'[q].pc = "failing", runner'[q].task = t, task'[t].status = "running"
         PROVE  LastPost(t)' \/ t \in orphans'
    <3>1. q # r /\ runner[q].pc = "failing" /\ runner[q].task = t /\ t # mine
        BY <2>4, <2>5, <2>12 DEF Busy
    <3> QED
        BY <2>2, <2>3, <2>9, <2>12, <3>1 DEF Owned
  <2>13. ASSUME NEW t \in Tasks, task'[t].status = "running"
         PROVE  (\E q \in Runners : Busy(q)' /\ runner'[q].task = t) \/ LastPost(t)' \/ t \in orphans'
      BY <2>2, <2>3, <2>4, <2>6, <2>9, <2>13 DEF Owned
  <2>14. \A p \in posts' : task'[p.task].status \notin { "absent", "queued" }
      BY <2>2, <2>3, <2>8 DEF Owned
  <2> QED
      BY <2>10, <2>11, <2>12, <2>13, <2>14 DEF Owned, LastPost, Busy
<1>5. ASSUME ClaimLost(r) PROVE Owned'
  <2>1. task[mine].status = "queued" /\ ~Busy(r) /\ ~Busy(r)'
      BY <1>2, <1>5, RestingType DEF ClaimLost, Held, Busy
  <2>2. /\ \A u \in Tasks : u # mine => task'[u] = task[u]
        /\ task'[mine].status = "running"
      BY <1>1, <1>5 DEF ClaimLost, Claims, AgentTypeOK, Task
  <2>3. UNCHANGED posts /\ orphans' = orphans \cup { mine }
      BY <1>5 DEF ClaimLost
  <2>4. \A q \in Runners : q # r => runner'[q] = runner[q] /\ (Busy(q)' <=> Busy(q))
      BY <1>2, <1>5 DEF ClaimLost, Busy
  <2>5. \A t \in Tasks : Started(t) => Started(t)'
      BY <2>2 DEF Started
  <2>6. \A t : LastPost(t)' <=> LastPost(t)
      BY <2>3 DEF LastPost
  <2>7. \A q \in Runners : runner'[q].pc = "failing" => runner[q].pc = "failing"
      BY <2>1, <2>4 DEF Busy
  <2> QED
      BY <2>1, <2>2, <2>3, <2>4, <2>5, <2>6, <2>7, PostsStarted, OwnedQuietly
<1>6. ASSUME NextTask(r) \/ ClaimRollsBack(r) \/ Restart(r) PROVE Owned'
  <2>1. ~Busy(r) /\ ~Busy(r)' /\ \A q \in Runners : q # r => runner'[q] = runner[q]
      BY <1>2, <1>3, <1>6, RestingType DEF NextTask, ClaimRollsBack, Restart, Busy
  <2>2. UNCHANGED <<task, posts, orphans>>
      BY <1>6 DEF NextTask, ClaimRollsBack, Restart
  <2>3. runner'[r].pc # "failing"
      BY <2>1 DEF Busy
  <2> QED
      BY <2>1, <2>2, <2>3, OwnedAtWork
<1>7. ASSUME Pauses(r) \/ Resumes(r) \/ ResumeLost(r) \/ PauseTimesOut(r) PROVE Owned'
  <2>1. ASSUME NEW t \in Tasks PROVE task'[t].status = task[t].status
    <3>1. CASE FlagConsumed(mine)
      <4>1. task[t] \in Task /\ task \in [ Tasks -> Task ]
          BY DEF AgentTypeOK
      <4>2. task' = [ task EXCEPT ![mine].resume = FALSE ]
          BY <3>1 DEF FlagConsumed
      <4>3. task'[t] = task[t] \/ task'[t] = [ task[t] EXCEPT !.resume = FALSE ]
          BY <4>1, <4>2
      <4> QED
          BY <4>1, <4>3 DEF Task
    <3>2. CASE UNCHANGED task
        BY <3>2
    <3>3. FlagConsumed(mine) \/ UNCHANGED task
        BY <1>7 DEF Pauses, Resumes, ResumeLost, PauseTimesOut
    <3> QED
        BY <3>1, <3>2, <3>3
  <2>2. UNCHANGED <<posts, orphans>>
      BY <1>7 DEF Pauses, Resumes, ResumeLost, PauseTimesOut, Alone
  <2>3. /\ runner'[r].task = mine /\ runner'[r].pc \in { "working", "paused" } /\ Busy(r)
        /\ \A q \in Runners : q # r => runner'[q] = runner[q]
    <3>1. CASE Pauses(r)
        BY <1>1, <3>1 DEF Pauses, Set, Busy, AgentTypeOK, Runner
    <3>2. CASE Resumes(r) \/ PauseTimesOut(r)
        BY <1>1, <3>2 DEF Resumes, PauseTimesOut, Set, Busy, AgentTypeOK, Runner
    <3>3. CASE ResumeLost(r)
        BY <3>3 DEF ResumeLost, Busy
    <3> QED
        BY <1>7, <3>1, <3>2, <3>3
  <2> QED
      BY <2>1, <2>2, <2>3, OwnedAtWork DEF Busy
<1>8. ASSUME NEW status, NEW shots, NEW last, Sends(r, status, shots, last)
      PROVE  /\ posts \subseteq posts'
             /\ \A p \in posts' : p \in posts \/ p.task = mine
             /\ \A t \in Tasks : last /\ mine = t => LastPost(t)'
  <2> DEFINE new == [ task |-> runner[r].task, status |-> status, shots |-> shots,
                      by |-> r, last |-> last, read |-> FALSE, was |-> Untouched ]
  <2>1. posts' = posts \cup { new }
      BY <1>8 DEF Sends
  <2>2. new.task = mine /\ new.last = last
      OBVIOUS
  <2> HIDE DEF new
  <2> QED
      BY <2>1, <2>2 DEF LastPost
<1>9. ASSUME PostsResult(r) \/ TaskRaises(r) \/ HearsOfCancel(r) \/ PostFails(r) PROVE Owned'
  <2>1. UNCHANGED <<task, orphans>> /\ Busy(r)
      BY <1>9 DEF PostsResult, TaskRaises, HearsOfCancel, PostFails, Busy
  <2>2. /\ posts \subseteq posts'
        /\ \A p \in posts' : p \in posts \/ p.task = mine
        /\ PostsResult(r) \/ \A t \in Tasks : mine = t => LastPost(t)'
      BY <1>8, <1>9 DEF PostsResult, TaskRaises, HearsOfCancel, PostFails
  <2>3. /\ runner'[r].task = mine /\ runner'[r].pc \in { "posting", "failing" }
        /\ PostsResult(r) => runner'[r].pc = "posting"
        /\ \A q \in Runners : q # r => runner'[q] = runner[q]
    <3>1. PICK pc \in { "posting", "failing" } : /\ Set(r, [ runner[r] EXCEPT !.pc = pc ])
                                                 /\ PostsResult(r) => pc = "posting"
        BY <1>9 DEF PostsResult, TaskRaises, HearsOfCancel, PostFails
    <3> QED
        BY <1>1, <3>1 DEF Set, AgentTypeOK, Runner
  <2> QED
      BY <2>1, <2>2, <2>3, OwnedAtWork DEF Busy
<1>10. ASSUME GivesUp(r) \/ Crash(r) PROVE Owned'
  <2>1. UNCHANGED <<task, posts>> /\ orphans \subseteq orphans' /\ Busy(r)
      BY <1>10 DEF GivesUp, Crash, Busy
  <2>2. /\ ~Busy(r)' /\ runner'[r].pc # "failing"
        /\ \A q \in Runners : q # r => runner'[q] = runner[q]
    <3>1. CASE GivesUp(r)
        BY <1>2, <3>1, RestingType DEF GivesUp, Busy
    <3>2. CASE Crash(r)
        BY <3>2 DEF Crash, Set, Resting, Busy, AgentTypeOK
    <3> QED
        BY <1>10, <3>1, <3>2
  <2>3. ASSUME NEW t \in Tasks, mine = t, task[t].status = "running"
        PROVE  LastPost(t)' \/ t \in orphans'
    <3>1. CASE GivesUp(r)
        BY <2>1, <2>3, <3>1 DEF GivesUp, Owned, LastPost
    <3>2. CASE Crash(r)
        BY <2>3, <3>2 DEF Crash
    <3> QED
        BY <1>10, <3>1, <3>2
  <2> QED
      BY <2>1, <2>2, <2>3, OwnedAtWork
<1> QED
    BY <1>4, <1>5, <1>6, <1>7, <1>9, <1>10 DEF Works, Fails

LEMMA OwnedBackend ==
    ASSUME AgentTypeOK, Held, Settled, Owned, NEW p \in posts, Backend(p) \/ PostLost(p)
    PROVE  Owned'
<1> DEFINE t == p.task
<1>1. p \in Post /\ t \in Tasks /\ p.status \in Finished /\ p.by \in Runners
    BY DEF AgentTypeOK, Post
<1>2. ASSUME ResultRead(p) PROVE Owned'
  <2> DEFINE was == [ p EXCEPT !.read = TRUE, !.was = task[p.task] ]
  <2>1. was.task = t /\ was.last = p.last
      BY <1>1 DEF Post
  <2>2. posts' = (posts \ { p }) \cup { was } /\ UNCHANGED <<task, runner, orphans>>
      BY <1>2 DEF ResultRead
  <2> HIDE DEF was
  <2>3. \A u : LastPost(u) => LastPost(u)'
      BY <2>1, <2>2 DEF LastPost
  <2>4. \A q \in posts' : \E u \in Tasks : q.task = u /\ Started(u)
      BY <1>1, <2>1, <2>2, PostsStarted
  <2> QED
      BY <2>2, <2>3, <2>4, OwnedQuietly DEF Started, Busy
<1>3. ASSUME PostLost(p) PROVE Owned'
  <2>1. /\ posts' = posts \ { p } /\ UNCHANGED <<task, runner>>
        /\ orphans \subseteq orphans' /\ (p.last => t \in orphans')
      BY <1>3 DEF PostLost
  <2>2. \A u : LastPost(u) => LastPost(u)' \/ u \in orphans'
      BY <2>1 DEF LastPost
  <2>3. \A r \in Runners : runner[r].task \in Tasks
      BY DEF AgentTypeOK, Runner
  <2> QED
      BY <2>1, <2>2, <2>3, PostsStarted, OwnedQuietly DEF Started, Busy
<1>4. ASSUME ResultCommitted(p) PROVE Owned'
  <2>1. p.was = task[t] /\ posts' = posts \ { p } /\ UNCHANGED orphans
      BY <1>4 DEF ResultCommitted, Held
  <2>2. \A u \in Tasks : u # t => task'[u] = task[u]
      BY <1>1, <1>4 DEF ResultCommitted, AgentTypeOK
  <2>3. task'[t].status \in Finished
    <3>1. CASE Recorded(p)
        BY <1>1, <1>4, <2>1, <3>1 DEF ResultCommitted, Recorded, Settled
    <3>2. CASE ~Recorded(p)
      <4>1. ResultStatus(p) \in Finished
          BY <1>1 DEF ResultStatus, Finished
      <4>2. task' = [ task EXCEPT ![t] = [ @ EXCEPT !.status = ResultStatus(p), !.recorded = TRUE ] ]
          BY <1>4, <3>2 DEF ResultCommitted
      <4> QED
          BY <1>1, <4>1, <4>2 DEF AgentTypeOK, Task
    <3> QED
        BY <3>1, <3>2
  <2>4. \A u \in Tasks : u # t => (LastPost(u) => LastPost(u)')
      BY <2>1 DEF LastPost
  <2>5. \A r \in Runners :
            \/ runner'[r] = runner[r]
            \/ r = p.by /\ runner[r].task = t /\ runner'[r].pc \in { "idle", "down" }
    <3>1. \A pc : [ Resting EXCEPT !.pc = pc ].pc = pc
        BY DEF Resting
    <3> QED
        BY <1>1, <1>4, <3>1 DEF ResultCommitted, Answered, Set, AgentTypeOK
  <2>6. \A u \in Tasks : Started(u) => Started(u)'
      BY <2>2, <2>3 DEF Started, Finished
  <2>7. \A r \in Runners : Busy(r)' => Busy(r) /\ runner'[r] = runner[r]
      BY <2>5 DEF Busy
  <2>8. \A r \in Runners : Busy(r) /\ ~Busy(r)' => runner[r].task = t
      BY <2>5 DEF Busy
  <2>9. \A r \in Runners : runner[r].task \in Tasks
      BY DEF AgentTypeOK, Runner
  <2>10. \A r \in Runners : runner'[r].pc = "failing" => runner[r].pc = "failing"
      BY <2>5
  <2>11. task'[t].status # "running"
      BY <2>3 DEF Finished
  <2> QED
      BY <2>1, <2>2, <2>4, <2>6, <2>7, <2>8, <2>9, <2>10, <2>11, PostsStarted, OwnedQuietly
<1> QED
    BY <1>2, <1>3, <1>4 DEF Backend

LEMMA OwnedNext == AgentTypeOK /\ Held /\ Settled /\ Owned /\ [Next]_vars => Owned'
<1> SUFFICES ASSUME AgentTypeOK, Held, Settled, Owned, [Next]_vars PROVE Owned'
    OBVIOUS
<1>1. CASE UNCHANGED vars
    BY <1>1, PostsStarted, OwnedQuietly DEF vars, Started, Busy, LastPost
<1> QED
    BY <1>1, OwnedEngineer, OwnedRunner, OwnedBackend DEF Next

-----------------------------------------------------------------------------
(* The theorems. *)

LEMMA IInvHolds == Spec => []IInv
<1>1. Init => IInv
    BY TypeInit, HeldInit, SettledInit, OwnedInit DEF IInv
<1>2. IInv /\ [Next]_vars => IInv'
    BY TypeNext, HeldNext, SettledNext, OwnedNext DEF IInv
<1> QED
    BY <1>1, <1>2, PTL DEF Spec

\* However often results are posted and however they cross a cancellation, a
\* task leaves at most one piece of evidence and one usage entry, a cancelled
\* one none.
THEOREM ResultsAreRecordedOnce == Spec => []ResultOnce
<1>1. IInv => ResultOnce
    BY DEF IInv
<1> QED
    BY <1>1, IInvHolds, PTL

\* Types; no two Runners ever work on one task; a running task has a Runner, a
\* post on its way or a fault behind it.
THEOREM RunningTasksAreWorkedOn == Spec => []RunningIsWorkedOn
<1>1. IInv => RunningIsWorkedOn
    BY DEF IInv, Owned, LastPost, RunningIsWorkedOn
<1> QED
    BY <1>1, IInvHolds, PTL

\* A task that is over never changes its status, nor what its result left.
THEOREM TheFirstResultStands == Spec => FirstResultIsFinal
<1> DEFINE Stands ==
        \A t \in Tasks :
          /\ task[t].status \in Finished => task'[t].status = task[t].status
          /\ task[t].recorded => yield'[t] = yield[t]
<1>1. ASSUME IInv, [Next]_vars PROVE Stands
  <2> USE <1>1 DEF IInv
  <2>1. CASE UNCHANGED vars
      BY <2>1 DEF vars
  <2>2. ASSUME Engineer \/ Stream PROVE Stands
    <3>1. ASSUME NEW t \in Tasks, CreateTask(t) \/ CancelTask(t) \/ ResumeTask(t) PROVE Stands
      <4>1. UNCHANGED yield /\ \A u \in Tasks : u # t => task'[u] = task[u]
          BY <3>1 DEF CreateTask, CancelTask, ResumeTask, AgentTypeOK
      <4>2. task[t].status \notin Finished
          BY <3>1 DEF CreateTask, CancelTask, ResumeTask, Unfinished, Finished
      <4> QED
          BY <4>1, <4>2
    <3>2. CASE UNCHANGED <<task, yield>>
        BY <3>2
    <3> QED
        BY <2>2, <3>1, <3>2
        DEF Engineer, Stream, OpenStream, RegisterStream, StreamDelivers, StreamRereads
  <2>3. ASSUME NEW r \in Runners, Works(r) \/ Fails(r) PROVE Stands
    <3>1. runner[r].task \in Tasks
        BY DEF AgentTypeOK, Runner
    <3>2. CASE TaskClaimed(r) \/ ClaimLost(r)
      <4>1. task[runner[r].task].status = "queued" /\ UNCHANGED yield
          BY <3>2 DEF TaskClaimed, ClaimLost, Held
      <4>2. \A u \in Tasks : u # runner[r].task => task'[u] = task[u]
          BY <3>1, <3>2 DEF TaskClaimed, ClaimLost, Claims, AgentTypeOK
      <4> QED
          BY <3>1, <4>1, <4>2 DEF Finished
    <3>3. CASE Resumes(r) \/ ResumeLost(r)
      <4>1. task' = [ task EXCEPT ![runner[r].task].resume = FALSE ] /\ UNCHANGED yield
          BY <3>3 DEF Resumes, ResumeLost, FlagConsumed, Alone
      <4>2. \A u \in Tasks : task'[u].status = task[u].status
          BY <3>1, <4>1 DEF AgentTypeOK, Task
      <4> QED
          BY <4>1, <4>2
    <3>4. CASE UNCHANGED <<task, yield>>
        BY <3>4
    <3> QED
        BY <2>3, <3>2, <3>3, <3>4
        DEF Works, Fails, NextTask, ClaimRollsBack, Pauses, PauseTimesOut, Restart, GivesUp,
            Crash, PostsResult, TaskRaises, HearsOfCancel, PostFails, Alone
  <2>4. ASSUME NEW p \in posts, Backend(p) \/ PostLost(p) PROVE Stands
    <3>1. p \in Post /\ p.task \in Tasks
        BY DEF AgentTypeOK, Post
    <3>2. CASE UNCHANGED <<task, yield>>
        BY <3>2
    <3>3. CASE ResultCommitted(p) /\ ~Recorded(p)
      <4>1. p.was = task[p.task] /\ ~task[p.task].recorded
          BY <3>3 DEF ResultCommitted, Recorded, Held
      <4>2. task' = [ task EXCEPT ![p.task] =
                        [ @ EXCEPT !.status = ResultStatus(p), !.recorded = TRUE ] ]
          BY <3>3 DEF ResultCommitted
      <4>3. /\ task'[p.task].status = ResultStatus(p)
            /\ \A u \in Tasks : u # p.task => task'[u] = task[u] /\ yield'[u] = yield[u]
          BY <3>1, <3>3, <4>2 DEF ResultCommitted, AgentTypeOK, Task
      <4>4. task[p.task].status \in Finished => task[p.task].status = "cancelled"
          BY <3>1, <4>1 DEF Settled, Finished
      <4>5. task[p.task].status \in Finished => ResultStatus(p) = task[p.task].status
          BY <4>1, <4>4 DEF ResultStatus
      <4> QED
          BY <4>1, <4>3, <4>5
    <3> QED
        BY <2>4, <3>2, <3>3 DEF Backend, ResultRead, ResultCommitted, PostLost
  <2> QED
      BY <1>1, <2>1, <2>2, <2>3, <2>4 DEF Next
<1>2. ASSUME IInv, [Next]_vars PROVE [Stands]_vars
    BY <1>1, <1>2
<1> QED
    BY <1>2, IInvHolds, PTL DEF Spec, FirstResultIsFinal

=============================================================================
