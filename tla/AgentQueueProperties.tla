------------------------ MODULE AgentQueueProperties ------------------------
(* The properties of AgentQueue. *)
EXTENDS AgentQueue

\* However often a result is posted, lost and posted again, a task leaves at
\* most one piece of evidence and one usage entry, and a cancelled one no
\* evidence, however the cancellation and the result cross.
ResultOnce ==
    \A t \in Tasks :
        /\ yield[t].evidence <= 1 /\ yield[t].usage <= 1
        /\ task[t].status = "cancelled" => yield[t].evidence = 0

\* What is over stays as it ended: neither a result nor a cancellation that
\* crosses the end of a task changes its status, and no later post adds
\* evidence to the result recorded first.
FirstResultIsFinal ==
    [][\A t \in Tasks :
          /\ task[t].status \in Finished => task'[t].status = task[t].status
          /\ task[t].recorded => yield'[t] = yield[t]]_vars

\* Every variable has its type, two Runners that poll at the same moment get two
\* different tasks, and a task that is running is in the hands of a Runner, or its
\* result is on its way, or a fault has cut it off: no path of the loop drops one.
RunningIsWorkedOn ==
    /\ AgentTypeOK
    /\ \A r, q \in Runners :
          r # q /\ Busy(r) /\ Busy(q) => runner[r].task # runner[q].task
    /\ \A t \in Tasks :
          task[t].status = "running" =>
            \/ \E r \in Runners : Busy(r) /\ runner[r].task = t
            \/ \E p \in posts : p.task = t
            \/ t \in orphans

\* A page that watches a task is told that it has finished, although a
\* cancellation is not published and a publication can be missed.
WatcherIsTold ==
    (tab.pc \in { "opening", "open" } /\ task[tab.task].status \in Finished)
        ~> tab.pc = "told"

\* A queued task finishes, unless a fault has cut it off.
QueuedIsAnswered ==
    \A t \in Tasks :
        task[t].status = "queued" ~> (task[t].status \in Finished \/ t \in orphans)

=============================================================================
