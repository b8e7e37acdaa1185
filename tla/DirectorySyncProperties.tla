---------------------- MODULE DirectorySyncProperties ----------------------
(* The properties of DirectorySync. *)
EXTENDS DirectorySync

\* Nobody is disabled while he is named on open work of a hub of which none of
\* its admins was told, except for work he got after the run had looked, and by
\* a run that sends nothing because notifications are off.
NoticeBeforeDisable ==
    [][\A u \in Users :
          (status[u] # "DISABLED" /\ status'[u] = "DISABLED") =>
              \/ ~run.emails
              \/ \A h \in work[u] : told[u][h] # {} \/ u \in late]_vars

\* Whatever the directory answers, run after run, the last active holder of
\* MANAGE_USERS is lost in two ways only: to the write of an admin who is none
\* any more, and to a run after whose guard an admin was made inactive, or whose
\* guard could not see who the admins are.
AnAdminRemains ==
    [][ActiveHolders # {} /\ ActiveHolders' = {} =>
          \/ \E q \in requests \ requests' : q.by \notin ActiveHolders
          \/ unguarded]_vars

\* A hub is told of a departure once, unless a run had to leave the person to
\* the next one: the status write is what stops the second email.
ToldTwiceOnlyForRetry == again \subseteq retry

\* u can be disabled: the directory says so for good, with no more others than
\* one run may take, an admin stays, and every hub has someone to tell.
Departs(u) ==
    /\ dir[u] = "disabled"
    /\ Cardinality({ v \in Users : status[v] \in Enabled /\ dir[v] = "disabled" }) <= DeparturesPerRun
    /\ \E v \in ActiveHolders : dir[v] # "disabled"
    /\ \A h \in Hubs : \E r \in Recipients(h) : dir[r] # "disabled"

\* A departed user ends up DISABLED: failed digests, failed writes and stopped
\* runs only put it off.
DepartedIsDisabled ==
    \A u \in Users : <>[]Departs(u) => <>[](status[u] = "DISABLED")

=============================================================================
