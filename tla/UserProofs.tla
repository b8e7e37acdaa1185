----------------------------- MODULE UserProofs -----------------------------
(***************************************************************************)
(* Proofs about the users.  Of the directory sync, for any users, hubs and    *)
(* bounds: that nobody is disabled before the hubs of his work were told,     *)
(* what the last admin can be lost to, and that a hub is told twice only of a  *)
(* person a run had to leave to the next one.  Of the cache of the entity, for any         *)
(* requests, users, lifetime and writes: that a replica shows its own writes. *)
(***************************************************************************)
EXTENDS DirectorySyncProperties, EntityCacheProperties, FiniteSetTheorems, TLAPS

\* Nobody but the run disables: whom it listed, and whom it is to disable, is
\* still enabled.
StillEnabled ==
    /\ run.pc = "resolve" =>
          \A u \in Users : run.listed[u] \in Enabled => status[u] \in Enabled
    /\ \A u \in run.departed : status[u] \in Enabled

\* A hub that was asked has answered with all the work there is, but for what
\* was handed out since.
Looked ==
    /\ run.pc \in { "idle", "resolve", "spare", "gather" } => run.delivered = {}
    /\ \A u \in run.departed : \A h \in work[u] :
          run.pc \in { "notify", "write" } \/ (run.pc = "gather" /\ h \notin run.toAsk) =>
              h \in run.hubWork[u] \/ u \in late

\* With notifications on, a hub counts as told only when somebody was told of each
\* of its users.
Heard ==
    run.emails =>
        \A u \in run.departed : \A h \in run.delivered :
            h \in run.hubWork[u] => told[u][h] # {} \/ u \in late

\* From the guard on, one of the active holders is outside the run.
OneIsSpared == RunDecided => unguarded \/ \E u \in ActiveHolders : u \notin run.departed

\* Whoever is enabled although a hub was told of him was left to a later run, or
\* is in the one that told it.
OnceOrRetry ==
    /\ again \subseteq retry
    /\ \A u \in Users, h \in Hubs :
          status[u] \in Enabled /\ told[u][h] # {} =>
              \/ u \in retry
              \/ /\ u \in run.departed
                 /\ run.pc = "write" \/ (run.pc = "notify" /\ h \notin run.toAsk)

IInv == SyncTypeOK /\ StillEnabled /\ Looked /\ Heard /\ OneIsSpared /\ OnceOrRetry

-----------------------------------------------------------------------------
(* What the steps do to the run. *)

\* The users, hubs and the rest of what a run has in hand are unchanged.
SameButDeparted ==
    /\ run'.listed = run.listed /\ run'.override = run.override /\ run'.emails = run.emails
    /\ run'.hubWork = run.hubWork /\ run'.delivered = run.delivered

LEMMA IdleIs ==
    /\ Idle \in Run /\ Idle.pc = "idle" /\ Idle.departed = {} /\ Idle.delivered = {}
BY DEF Idle, Run, NoWork, Statuses

LEMMA EndsIs ==
    Ends => run' \in Run /\ run'.pc = "idle" /\ run'.departed = {} /\ run'.delivered = {}
BY IdleIs DEF Ends

LEMMA BeginsIs ==
    ASSUME SyncTypeOK, NEW override \in BOOLEAN, Begins(override)
    PROVE  /\ run' \in Run /\ run'.pc = "resolve" /\ run'.departed = {} /\ run'.delivered = {}
           /\ run'.listed = status
<1>1. PICK emails \in BOOLEAN :
          run' = [ Idle EXCEPT !.pc = "resolve", !.override = override, !.emails = emails,
                               !.listed = status ]
    BY DEF Begins
<1> DEFINE r == [ Idle EXCEPT !.pc = "resolve", !.override = override, !.emails = emails,
                              !.listed = status ]
<1>2. /\ r \in Run /\ r.pc = "resolve" /\ r.departed = {} /\ r.delivered = {}
      /\ r.listed = status
    BY DEF Idle, Run, NoWork, SyncTypeOK
<1>3. run' = r
    BY <1>1
<1> HIDE DEF r
<1> QED
    BY <1>2, <1>3

LEMMA ResolveIs ==
    ASSUME SyncTypeOK, ResolveDeparted
    PROVE  \/ Ends
           \/ /\ run' \in Run /\ run'.pc = "spare" /\ run'.delivered = {}
              /\ \A u \in run'.departed : u \in Users /\ run.listed[u] \in Enabled
              /\ run'.listed = run.listed
<1>1. PICK unheard \in SUBSET External :
          \/ Ends
          \/ run' = [ run EXCEPT !.pc = "spare", !.departed = ReportedDisabled(unheard) ]
    BY DEF ResolveDeparted
<1> DEFINE departed == ReportedDisabled(unheard)
<1>2. departed \in SUBSET Users /\ \A u \in departed : run.listed[u] \in Enabled
    BY DEF ReportedDisabled
<1>3. run \in Run /\ run.delivered = {}
    BY DEF SyncTypeOK, ResolveDeparted
<1> HIDE DEF departed
<1>4. ASSUME run' = [ run EXCEPT !.pc = "spare", !.departed = departed ]
      PROVE  /\ run' \in Run /\ run'.pc = "spare" /\ run'.departed = departed
             /\ run'.delivered = {} /\ run'.listed = run.listed
    BY <1>2, <1>3, <1>4 DEF Run
<1> QED
    BY <1>1, <1>2, <1>4 DEF departed

LEMMA ToGatherIs ==
    ASSUME SyncTypeOK, NEW departed \in SUBSET run.departed, ToGather(departed)
    PROVE  \/ Ends /\ departed = {}
           \/ /\ run' \in Run /\ run'.pc = "gather" /\ run'.departed = departed
              /\ run'.toAsk = Hubs /\ SameButDeparted
<1>1. run \in Run
    BY DEF SyncTypeOK
<1>2. departed \in SUBSET Users
    BY <1>1 DEF Run
<1>3. ASSUME run' = [ run EXCEPT !.pc = "gather", !.departed = departed, !.toAsk = Hubs ]
      PROVE  /\ run' \in Run /\ run'.pc = "gather" /\ run'.departed = departed
             /\ run'.toAsk = Hubs /\ SameButDeparted
    BY <1>1, <1>2, <1>3 DEF Run, SameButDeparted
<1> QED
    BY <1>3 DEF ToGather

LEMMA GatherIs ==
    ASSUME SyncTypeOK, NEW h \in Hubs, GatherAssignments(h)
    PROVE  /\ run' \in Run /\ run'.departed = run.departed /\ run'.delivered = run.delivered
           /\ run'.listed = run.listed /\ run'.emails = run.emails
           /\ \/ run'.pc = "gather" /\ run'.toAsk = run.toAsk \ { h }
              \/ run'.pc = "notify" /\ run'.toAsk = Hubs /\ run.toAsk = { h }
           /\ \A u \in run.departed : run'.hubWork[u] = run.hubWork[u] \cup (work[u] \cap { h })
<1> DEFINE hubWork == [ u \in Users |->
                          run.hubWork[u] \cup IF u \in run.departed THEN work[u] \cap { h } ELSE {} ]
           toAsk == run.toAsk \ { h }
           asked == [ run EXCEPT !.toAsk = toAsk, !.hubWork = hubWork ]
<1>1. run \in Run /\ run.pc = "gather" /\ h \in run.toAsk
    BY DEF SyncTypeOK, GatherAssignments
<1>2. run' = IF asked.toAsk = {} THEN [ asked EXCEPT !.pc = "notify", !.toAsk = Hubs ] ELSE asked
    BY DEF GatherAssignments
<1>3. hubWork \in [ Users -> SUBSET Hubs ] /\ toAsk \in SUBSET Hubs
    BY <1>1 DEF Run
<1>4. \A u \in run.departed : hubWork[u] = run.hubWork[u] \cup (work[u] \cap { h })
    BY <1>1 DEF Run
<1>5. toAsk = {} => run.toAsk = { h }
    BY <1>1
<1> HIDE DEF hubWork, toAsk
<1>6. /\ asked \in Run /\ asked.pc = "gather" /\ asked.toAsk = toAsk /\ asked.hubWork = hubWork
      /\ asked.departed = run.departed /\ asked.delivered = run.delivered
      /\ asked.listed = run.listed /\ asked.emails = run.emails
    BY <1>1, <1>3 DEF Run
<1> HIDE DEF asked
<1>7. CASE toAsk = {}
  <2>1. /\ run' \in Run /\ run'.pc = "notify" /\ run'.toAsk = Hubs /\ run'.hubWork = hubWork
        /\ run'.departed = run.departed /\ run'.delivered = run.delivered
        /\ run'.listed = run.listed /\ run'.emails = run.emails
      BY <1>2, <1>6, <1>7 DEF Run
  <2> QED
      BY <1>4, <1>5, <1>7, <2>1
<1>8. CASE toAsk # {}
    BY <1>2, <1>4, <1>6, <1>8 DEF toAsk
<1> QED
    BY <1>7, <1>8

LEMMA SendIs ==
    ASSUME SyncTypeOK, NEW h \in Hubs, SendDigest(h)
    PROVE  \E reached \in SUBSET Recipients(h) :
              /\ run' \in Run /\ run'.departed = run.departed
              /\ run'.listed = run.listed /\ run'.hubWork = run.hubWork
              /\ run'.emails = run.emails
              /\ run'.toAsk = run.toAsk \ { h }
              /\ run'.pc = "notify" \/ (run'.pc = "write" /\ run.toAsk = { h })
              /\ run'.delivered = run.delivered \cup IF Delivered(h, reached) THEN { h } ELSE {}
              /\ told' = [ u \in Users |-> IF u \in InDigest(h)
                             THEN [ told[u] EXCEPT ![h] = @ \cup reached ] ELSE told[u] ]
              /\ again' = again \cup { u \in InDigest(h) : told[u][h] # {} /\ reached # {} }
              /\ (faults' = faults \/ Fault)
<1>1. run \in Run /\ run.pc = "notify" /\ h \in run.toAsk
    BY DEF SyncTypeOK, SendDigest
<1>2. PICK reached \in SUBSET Recipients(h) :
          /\ run' = [ run EXCEPT
                !.toAsk = @ \ { h },
                !.delivered = @ \cup IF Delivered(h, reached) THEN { h } ELSE {},
                !.pc = IF run.toAsk = { h } THEN "write" ELSE @ ]
          /\ told' = [ u \in Users |-> IF u \in InDigest(h)
                         THEN [ told[u] EXCEPT ![h] = @ \cup reached ] ELSE told[u] ]
          /\ again' = again \cup { u \in InDigest(h) : told[u][h] # {} /\ reached # {} }
          /\ (faults' = faults \/ Fault)
    BY DEF SendDigest
<1> DEFINE toAsk == run.toAsk \ { h }
           delivered == run.delivered \cup IF Delivered(h, reached) THEN { h } ELSE {}
           pc == IF run.toAsk = { h } THEN "write" ELSE "notify"
<1>3. toAsk \in SUBSET Hubs /\ delivered \in SUBSET Hubs
    BY <1>1 DEF Run
<1>4. run' = [ run EXCEPT !.toAsk = toAsk, !.delivered = delivered, !.pc = pc ]
    BY <1>1, <1>2 DEF Run
<1>5. pc \in { "notify", "write" } /\ (pc = "write" => run.toAsk = { h })
    OBVIOUS
<1> HIDE DEF toAsk, delivered, pc
<1>6. /\ run' \in Run /\ run'.departed = run.departed
      /\ run'.listed = run.listed /\ run'.hubWork = run.hubWork
      /\ run'.emails = run.emails
      /\ run'.toAsk = toAsk /\ run'.delivered = delivered /\ run'.pc = pc
    BY <1>1, <1>3, <1>4, <1>5 DEF Run
<1> QED
    BY <1>2, <1>5, <1>6 DEF toAsk, delivered

LEMMA DoneIs ==
    ASSUME SyncTypeOK, NEW u \in run.departed, run.pc = "write", Done(u)
    PROVE  \/ Ends /\ run.departed = { u }
           \/ /\ run' \in Run /\ run'.pc = "write" /\ run'.departed = run.departed \ { u }
              /\ SameButDeparted
<1>1. run \in Run
    BY DEF SyncTypeOK
<1> DEFINE rest == run.departed \ { u }
<1>2. rest \in SUBSET Users
    BY <1>1 DEF Run
<1>3. \/ Ends /\ run.departed = { u }
      \/ run' = [ run EXCEPT !.departed = rest ]
    BY <1>1 DEF Done, Ends, Run
<1> HIDE DEF rest
<1>4. ASSUME run' = [ run EXCEPT !.departed = rest ]
      PROVE  /\ run' \in Run /\ run'.pc = "write" /\ run'.departed = rest
             /\ SameButDeparted
    BY <1>1, <1>2, <1>4 DEF Run, SameButDeparted
<1> QED
    BY <1>3, <1>4 DEF rest

-----------------------------------------------------------------------------
(* The steps, by what they leave alone. *)

\* Nothing of a user, of the work or of the run.
Quiet == UNCHANGED <<status, work, run, told, again, retry, unguarded, late>>

RunBegins == \E override \in BOOLEAN : Begins(override) /\ UNCHANGED <<status, work, history>>

Guarded == SpareAdmins \/ HoldersUnread

RunGivesUp == GatherFails \/ RunStops

Written(u) == Disable(u) \/ LeaveForRetry(u) \/ DisableFails(u)

LEMMA Steps ==
    ASSUME [Next]_vars
    PROVE  \/ Quiet \/ RunBegins \/ ResolveDeparted \/ Guarded \/ RunGivesUp
           \/ \E u \in Users : Written(u)
           \/ \E q \in requests : WriteStatus(q)
           \/ \E u \in Users, h \in Hubs : Assign(u, h) \/ Unassign(u, h)
           \/ \E h \in Hubs : GatherAssignments(h) \/ SendDigest(h)
<1>1. UNCHANGED vars => Quiet
    BY DEF vars, Quiet
<1>2. ASSUME NEW u \in Users, NEW state \in AccountStates, DirectoryChanges(u, state) PROVE Quiet
    BY <1>2 DEF DirectoryChanges, Quiet, history
<1>3. SnapshotAges \/ Refresh \/ (\E by, u \in Users, s \in Enabled : AskStatus(by, u, s)) => Quiet
    BY DEF SnapshotAges, Refresh, AskStatus, Quiet, history
<1>4. RunOnce => RunBegins
    BY DEF RunOnce, RunBegins, around
<1>5. ASSUME NEW override \in BOOLEAN, Trigger(override) PROVE RunBegins
    BY <1>5 DEF Trigger, RunBegins
<1>6. RunStep \/ RunFault =>
        \/ ResolveDeparted \/ Guarded \/ RunGivesUp
        \/ \E u \in Users : Written(u)
        \/ \E h \in Hubs : GatherAssignments(h) \/ SendDigest(h)
    BY DEF RunStep, RunFault, Guarded, RunGivesUp, Written
<1> QED
    BY <1>1, <1>2, <1>3, <1>4, <1>5, <1>6 DEF Next, Around

LEMMA Bounds == SyncTypeOK /\ [Next]_vars =>
    triggers' \in 0..MaxTriggers /\ changes' \in 0..MaxChanges /\ faults' \in 0..MaxFaults
<1> SUFFICES ASSUME SyncTypeOK, [Next]_vars
    PROVE  triggers' \in 0..MaxTriggers /\ changes' \in 0..MaxChanges /\ faults' \in 0..MaxFaults
    OBVIOUS
<1>1. triggers \in 0..MaxTriggers /\ changes \in 0..MaxChanges /\ faults \in 0..MaxFaults
    BY DEF SyncTypeOK
<1>2. (triggers' = triggers \/ (triggers < MaxTriggers /\ triggers' = triggers + 1))
    BY DEF Next, Around, RunStep, RunFault, vars, DirectoryChanges, AskStatus, WriteStatus, Assign,
        Unassign, SnapshotAges, Refresh, RunOnce, Trigger, ResolveDeparted, SpareAdmins,
        HoldersUnread, GatherAssignments, GatherFails, SendDigest, Disable, LeaveForRetry,
        DisableFails, RunStops, around
<1>3. (changes' = changes \/ (changes < MaxChanges /\ changes' = changes + 1))
    BY DEF Next, Around, RunStep, RunFault, vars, DirectoryChanges, AskStatus, WriteStatus, Assign,
        Unassign, SnapshotAges, Refresh, RunOnce, Trigger, ResolveDeparted, SpareAdmins,
        HoldersUnread, GatherAssignments, GatherFails, SendDigest, Disable, LeaveForRetry,
        DisableFails, RunStops, around, Change
<1>4. (faults' = faults \/ (faults < MaxFaults /\ faults' = faults + 1))
    BY DEF Next, Around, RunStep, RunFault, vars, DirectoryChanges, AskStatus, WriteStatus, Assign,
        Unassign, SnapshotAges, Refresh, RunOnce, Trigger, ResolveDeparted, SpareAdmins,
        HoldersUnread, GatherAssignments, GatherFails, SendDigest, Disable, LeaveForRetry,
        DisableFails, RunStops, around, Fault
<1>5. MaxTriggers \in Nat /\ MaxChanges \in Nat /\ MaxFaults \in Nat
    BY SyncAssumption
<1> QED
    BY <1>1, <1>2, <1>3, <1>4, <1>5

LEMMA SnapshotType == SyncTypeOK /\ [Next]_vars =>
    /\ dir' \in [ Users -> AccountStates ]
    /\ snap' \in [ fresh : BOOLEAN, state : [ Users -> AccountStates ] ]
<1> SUFFICES ASSUME SyncTypeOK, [Next]_vars
    PROVE  /\ dir' \in [ Users -> AccountStates ]
           /\ snap' \in [ fresh : BOOLEAN, state : [ Users -> AccountStates ] ]
    OBVIOUS
<1>1. /\ dir \in [ Users -> AccountStates ]
      /\ snap \in [ fresh : BOOLEAN, state : [ Users -> AccountStates ] ]
    BY DEF SyncTypeOK
<1>2. CASE Refresh \/ SnapshotAges \/ RunStops
  <2>1. \A state \in [ Users -> AccountStates ], fresh \in BOOLEAN :
          [ fresh |-> fresh, state |-> state ] \in
              [ fresh : BOOLEAN, state : [ Users -> AccountStates ] ]
      OBVIOUS
  <2>2. [ u \in Users |-> IF u \in Internal THEN dir[u] ELSE "unknown" ] \in [ Users -> AccountStates ]
        /\ [ u \in Users |-> "unknown" ] \in [ Users -> AccountStates ]
      BY <1>1 DEF AccountStates
  <2> QED
      BY <1>1, <1>2, <2>1, <2>2 DEF Refresh, SnapshotAges, RunStops
<1>3. ASSUME NEW u \in Users, NEW state \in AccountStates, DirectoryChanges(u, state)
      PROVE  dir' \in [ Users -> AccountStates ] /\ snap' = snap
    BY <1>1, <1>3 DEF DirectoryChanges
<1>4. \/ Refresh \/ SnapshotAges \/ RunStops
      \/ \E u \in Users, state \in AccountStates : DirectoryChanges(u, state)
      \/ UNCHANGED <<dir, snap>>
    BY DEF Next, Around, RunStep, RunFault, vars, AskStatus, WriteStatus, Assign, Unassign, RunOnce,
        Trigger, ResolveDeparted, SpareAdmins, HoldersUnread, GatherAssignments, GatherFails,
        SendDigest, Disable, LeaveForRetry, DisableFails, around
<1> QED
    BY <1>1, <1>2, <1>3, <1>4

LEMMA RequestsType == SyncTypeOK /\ [Next]_vars => requests' \subseteq StatusChange
<1> SUFFICES ASSUME SyncTypeOK, [Next]_vars PROVE requests' \subseteq StatusChange
    OBVIOUS
<1>1. ASSUME NEW by \in Users, NEW u \in Users, NEW s \in Enabled, AskStatus(by, u, s)
      PROVE  requests' \subseteq StatusChange
    BY <1>1 DEF AskStatus, SyncTypeOK, StatusChange
<1>2. ASSUME NEW q \in requests, WriteStatus(q) PROVE requests' \subseteq StatusChange
    BY <1>2 DEF WriteStatus, SyncTypeOK
<1>3. \/ \E by, u \in Users, s \in Enabled : AskStatus(by, u, s)
      \/ \E q \in requests : WriteStatus(q)
      \/ requests' = requests
    BY DEF Next, Around, RunStep, RunFault, vars, DirectoryChanges, Assign, Unassign, SnapshotAges,
        Refresh, RunOnce, Trigger, ResolveDeparted, SpareAdmins, HoldersUnread, GatherAssignments,
        GatherFails, SendDigest, Disable, LeaveForRetry, DisableFails, RunStops, around
<1> QED
    BY <1>1, <1>2, <1>3 DEF SyncTypeOK

\* What of the type the runs and the admins can disturb.
RunTypeOK ==
    /\ status \in [ Users -> Statuses ] /\ work \in [ Users -> SUBSET Hubs ]
    /\ run \in Run
    /\ told \in [ Users -> [ Hubs -> SUBSET Users ] ]
    /\ again \subseteq Users /\ retry \subseteq Users /\ late \subseteq Users
    /\ unguarded \in BOOLEAN
    /\ run.pc \in { "idle", "resolve" } => run.departed = {} /\ run.delivered = {}
    /\ \A u \in run.departed : run.listed[u] \in Enabled

LEMMA SpareIs ==
    ASSUME SyncTypeOK, Guarded
    PROVE  \E departed \in SUBSET run.departed :
              /\ ToGather(departed) /\ run.pc = "spare"
              /\ UNCHANGED <<status, work, told, again, retry, late>>
              /\ \/ HoldersUnread /\ unguarded' = TRUE
                 \/ /\ unguarded' = (ActiveHolders = {})
                    /\ departed = Spared(run.departed, { u \in ActiveHolders : run.listed[u] \in Enabled })
BY DEF Guarded, SpareAdmins, HoldersUnread, Spared, around, history

LEMMA WriteIs ==
    ASSUME SyncTypeOK, NEW u \in Users, Written(u)
    PROVE  /\ run.pc = "write" /\ u \in run.departed /\ Done(u)
           /\ UNCHANGED <<work, told, again, unguarded, late>>
           /\ \/ /\ status' = [ status EXCEPT ![u] = "DISABLED" ] /\ ~NotifyPending(u)
                 /\ retry' = retry
              \/ status' = status /\ retry' = retry \cup { u }
BY DEF Written, Disable, LeaveForRetry, DisableFails, around, history

LEMMA TypeInit == Init => SyncTypeOK
<1> SUFFICES ASSUME Init PROVE SyncTypeOK
    OBVIOUS
<1>1. 0 \in 0..MaxTriggers /\ 0 \in 0..MaxChanges /\ 0 \in 0..MaxFaults
    BY SyncAssumption
<1>2. snap \in [ fresh : BOOLEAN, state : [ Users -> AccountStates ] ]
    BY DEF Init, AccountStates
<1> QED
    BY <1>1, <1>2, IdleIs DEF Init, SyncTypeOK, Statuses, AccountStates

LEMMA TypeNext == SyncTypeOK /\ [Next]_vars => SyncTypeOK'
<1> SUFFICES ASSUME SyncTypeOK, [Next]_vars PROVE RunTypeOK'
    BY Bounds, SnapshotType, RequestsType DEF SyncTypeOK, RunTypeOK
<1>1. RunTypeOK
    BY DEF SyncTypeOK, RunTypeOK
<1>2. CASE Quiet
    BY <1>1, <1>2 DEF Quiet, RunTypeOK
<1>3. CASE RunBegins
    BY <1>1, <1>3, BeginsIs DEF RunBegins, RunTypeOK, history
<1>4. CASE ResolveDeparted
  <2>1. UNCHANGED <<status, work, told, again, retry, unguarded, late>>
      BY <1>4 DEF ResolveDeparted, around, history
  <2>2. /\ run' \in Run
        /\ run'.pc \in { "idle", "resolve" } => run'.departed = {} /\ run'.delivered = {}
        /\ \A u \in run'.departed : run'.listed[u] \in Enabled
      BY <1>4, ResolveIs, EndsIs
  <2> QED
      BY <1>1, <2>1, <2>2 DEF RunTypeOK
<1>5. CASE Guarded
  <2>1. PICK departed \in SUBSET run.departed :
            /\ ToGather(departed) /\ UNCHANGED <<status, work, told, again, retry, late>>
            /\ unguarded' \in BOOLEAN
      BY <1>1, <1>5, SpareIs DEF RunTypeOK
  <2> QED
      BY <1>1, <2>1, ToGatherIs, EndsIs DEF RunTypeOK, SameButDeparted
<1>6. CASE RunGivesUp
  <2>1. run.departed \subseteq Users
      BY <1>1 DEF RunTypeOK, Run
  <2> QED
      BY <1>1, <1>6, <2>1, EndsIs DEF RunGivesUp, GatherFails, RunStops, RunTypeOK, around, history
<1>7. ASSUME NEW u \in Users, Written(u) PROVE RunTypeOK'
  <2>1. status' \in [ Users -> Statuses ] /\ retry' \subseteq Users
      BY <1>1, <1>7, WriteIs DEF RunTypeOK, Statuses
  <2>2. UNCHANGED <<work, told, again, unguarded, late>>
      BY <1>7, WriteIs
  <2>3. /\ run' \in Run /\ (run'.pc \in { "idle", "resolve" } => run'.departed = {} /\ run'.delivered = {})
        /\ \A v \in run'.departed : run'.listed[v] \in Enabled
      BY <1>1, <1>7, WriteIs, DoneIs, EndsIs DEF RunTypeOK, SameButDeparted
  <2> QED
      BY <1>1, <2>1, <2>2, <2>3 DEF RunTypeOK
<1>8. ASSUME NEW q \in requests, WriteStatus(q) PROVE RunTypeOK'
  <2> DEFINE u == q.user
  <2>0. u \in Users /\ q.to \in Statuses
      BY DEF SyncTypeOK, StatusChange, Enabled, Statuses
  <2>1. status' \in [ Users -> Statuses ] /\ UNCHANGED <<work, run>>
      BY <1>1, <1>8, <2>0 DEF WriteStatus, RunTypeOK
  <2>2. told' \in [ Users -> [ Hubs -> SUBSET Users ] ]
    <3>1. told' = told \/ told' = [ told EXCEPT ![u] = [ h \in Hubs |-> {} ] ]
        BY <1>8 DEF WriteStatus
    <3>2. [ h \in Hubs |-> {} ] \in [ Hubs -> SUBSET Users ]
        OBVIOUS
    <3> QED
        BY <1>1, <2>0, <3>1, <3>2 DEF RunTypeOK
  <2>3. again' \subseteq Users /\ retry' \subseteq Users /\ late' \subseteq Users
      BY <1>1, <1>8, <2>0 DEF WriteStatus, RunTypeOK
  <2>4. unguarded' \in BOOLEAN
      BY <1>1, <1>8, <2>0 DEF WriteStatus, RunTypeOK
  <2> QED
      BY <1>1, <2>1, <2>2, <2>3, <2>4 DEF RunTypeOK
<1>9. ASSUME NEW u \in Users, NEW h \in Hubs, Assign(u, h) \/ Unassign(u, h) PROVE RunTypeOK'
  <2>1. UNCHANGED <<status, run, again, retry, unguarded>>
      BY <1>9 DEF Assign, Unassign, history
  <2>2. work' \in [ Users -> SUBSET Hubs ] /\ late' \subseteq Users
      BY <1>1, <1>9 DEF Assign, Unassign, history, RunTypeOK
  <2>3. told' \in [ Users -> [ Hubs -> SUBSET Users ] ]
    <3>1. told' = told \/ told' = [ told EXCEPT ![u][h] = {} ]
        BY <1>9 DEF Assign, Unassign, history
    <3>2. [ told[u] EXCEPT ![h] = {} ] \in [ Hubs -> SUBSET Users ]
        BY <1>1 DEF RunTypeOK
    <3> QED
        BY <1>1, <3>1, <3>2 DEF RunTypeOK
  <2> QED
      BY <1>1, <2>1, <2>2, <2>3 DEF RunTypeOK
<1>10. ASSUME NEW h \in Hubs, GatherAssignments(h) PROVE RunTypeOK'
  <2>1. UNCHANGED <<status, work, told, again, retry, unguarded, late>>
      BY <1>10 DEF GatherAssignments, around, history
  <2>2. /\ run' \in Run /\ run'.departed = run.departed /\ run'.listed = run.listed
        /\ run'.pc \in { "gather", "notify" }
      BY <1>10, GatherIs
  <2> QED
      BY <1>1, <2>1, <2>2 DEF RunTypeOK
<1>11. ASSUME NEW h \in Hubs, SendDigest(h) PROVE RunTypeOK'
  <2>1. PICK reached \in SUBSET Recipients(h) :
            /\ told' = [ u \in Users |-> IF u \in InDigest(h)
                           THEN [ told[u] EXCEPT ![h] = @ \cup reached ] ELSE told[u] ]
            /\ again' = again \cup { u \in InDigest(h) : told[u][h] # {} /\ reached # {} }
      BY <1>11 DEF SendDigest
  <2>2. Recipients(h) \subseteq Users /\ InDigest(h) \subseteq Users
      BY <1>1, SyncAssumption DEF Recipients, InDigest, RunTypeOK, Run
  <2>3. told' \in [ Users -> [ Hubs -> SUBSET Users ] ] /\ again' \subseteq Users
      BY <1>1, <2>1, <2>2 DEF RunTypeOK
  <2>4. run' \in Run /\ run'.departed = run.departed /\ run'.listed = run.listed
        /\ run'.pc \in { "notify", "write" }
      BY <1>11, SendIs
  <2>5. UNCHANGED <<status, work, retry, unguarded, late>>
      BY <1>11 DEF SendDigest, around
  <2> QED
      BY <1>1, <2>3, <2>4, <2>5 DEF RunTypeOK
<1> QED
    BY <1>2, <1>3, <1>4, <1>5, <1>6, <1>7, <1>8, <1>9, <1>10, <1>11, Steps

-----------------------------------------------------------------------------
(* The parts of the invariant. *)

LEMMA StillEnabledNext == SyncTypeOK /\ StillEnabled /\ [Next]_vars => StillEnabled'
<1> SUFFICES ASSUME SyncTypeOK, StillEnabled, [Next]_vars PROVE StillEnabled'
    OBVIOUS
<1>1. status \in [ Users -> Statuses ] /\ run \in Run
    BY DEF SyncTypeOK
<1>2. CASE Quiet
    BY <1>2 DEF Quiet, StillEnabled
<1>3. CASE RunBegins
    BY <1>3, BeginsIs DEF RunBegins, StillEnabled
<1>4. CASE ResolveDeparted
  <2>1. status' = status /\ run.pc = "resolve"
      BY <1>4 DEF ResolveDeparted
  <2> QED
      BY <1>4, <2>1, ResolveIs, EndsIs DEF StillEnabled
<1>5. CASE Guarded
  <2>1. PICK departed \in SUBSET run.departed : ToGather(departed) /\ status' = status
      BY <1>5, SpareIs
  <2> QED
      BY <2>1, ToGatherIs, EndsIs DEF StillEnabled
<1>6. CASE RunGivesUp
    BY <1>6, EndsIs DEF RunGivesUp, GatherFails, RunStops, StillEnabled
<1>7. ASSUME NEW u \in Users, Written(u) PROVE StillEnabled'
  <2>1. run.pc = "write" /\ u \in run.departed /\ Done(u)
        /\ \A v \in Users \ { u } : status'[v] = status[v]
      BY <1>1, <1>7, WriteIs
  <2>2. \/ run'.pc = "idle" /\ run'.departed = {}
        \/ run'.pc = "write" /\ run'.departed = run.departed \ { u }
      BY <2>1, DoneIs, EndsIs
  <2>3. run.departed \subseteq Users
      BY <1>1 DEF Run
  <2> QED
      BY <2>1, <2>2, <2>3 DEF StillEnabled
<1>8. ASSUME NEW q \in requests, WriteStatus(q) PROVE StillEnabled'
  <2> DEFINE u == q.user
  <2>0. u \in Users /\ q.to \in Enabled
      BY DEF SyncTypeOK, StatusChange
  <2> QED
      BY <1>1, <1>8, <2>0 DEF WriteStatus, StillEnabled
<1>9. ASSUME NEW u \in Users, NEW h \in Hubs, Assign(u, h) \/ Unassign(u, h) PROVE StillEnabled'
    BY <1>9 DEF Assign, Unassign, StillEnabled
<1>10. ASSUME NEW h \in Hubs, GatherAssignments(h) PROVE StillEnabled'
  <2>1. status' = status
      BY <1>10 DEF GatherAssignments
  <2> QED
      BY <1>10, <2>1, GatherIs DEF StillEnabled
<1>11. ASSUME NEW h \in Hubs, SendDigest(h) PROVE StillEnabled'
  <2>1. status' = status
      BY <1>11 DEF SendDigest
  <2> QED
      BY <1>11, <2>1, SendIs DEF StillEnabled
<1> QED
    BY <1>2, <1>3, <1>4, <1>5, <1>6, <1>7, <1>8, <1>9, <1>10, <1>11, Steps

LEMMA LookedNext == SyncTypeOK /\ StillEnabled /\ Looked /\ [Next]_vars => Looked'
<1> SUFFICES ASSUME SyncTypeOK, StillEnabled, Looked, [Next]_vars PROVE Looked'
    OBVIOUS
<1>1. run \in Run /\ work \in [ Users -> SUBSET Hubs ] /\ run.departed \subseteq Users
    BY DEF SyncTypeOK, Run
<1>2. CASE Quiet
    BY <1>2 DEF Quiet, Looked
<1>3. CASE RunBegins
    BY <1>3, BeginsIs DEF RunBegins, Looked
<1>4. CASE ResolveDeparted
    BY <1>4, ResolveIs, EndsIs DEF Looked
<1>5. CASE Guarded
  <2>1. PICK departed \in SUBSET run.departed :
            ToGather(departed) /\ run.pc = "spare" /\ UNCHANGED <<work, late>>
      BY <1>5, SpareIs
  <2> QED
      BY <1>1, <2>1, ToGatherIs, EndsIs DEF Looked, SameButDeparted
<1>6. CASE RunGivesUp
    BY <1>6, EndsIs DEF RunGivesUp, GatherFails, RunStops, Looked
<1>7. ASSUME NEW u \in Users, Written(u) PROVE Looked'
  <2>1. run.pc = "write" /\ u \in run.departed /\ Done(u) /\ UNCHANGED <<work, late>>
      BY <1>7, WriteIs
  <2>2. \/ run'.pc = "idle" /\ run'.departed = {} /\ run'.delivered = {}
        \/ run'.pc = "write" /\ run'.departed = run.departed \ { u } /\ run'.hubWork = run.hubWork
      BY <2>1, DoneIs, EndsIs DEF SameButDeparted
  <2> QED
      BY <2>1, <2>2 DEF Looked
<1>8. ASSUME NEW q \in requests, WriteStatus(q) PROVE Looked'
  <2> DEFINE u == q.user
  <2>0. u \in Users /\ q.to \in Enabled
      BY DEF SyncTypeOK, StatusChange
  <2>1. UNCHANGED <<work, run>> /\ \A v \in run.departed : v \in late => v \in late'
      BY <1>1, <1>8, <2>0 DEF WriteStatus, StillEnabled, Enabled
  <2> QED
      BY <2>1 DEF Looked
<1>9. ASSUME NEW u \in Users, NEW h \in Hubs, Assign(u, h) \/ Unassign(u, h) PROVE Looked'
  <2>1. CASE Assign(u, h)
    <3>1. /\ run' = run /\ late' = late \cup IF RunDecided THEN { u } ELSE {}
          /\ \A v \in Users \ { u } : work'[v] = work[v]
          /\ work'[u] = work[u] \cup { h }
        BY <1>1, <2>1 DEF Assign
    <3> QED
        BY <1>1, <3>1 DEF Looked, RunDecided
  <2>2. CASE Unassign(u, h)
    <3>1. UNCHANGED <<run, late>> /\ \A v \in Users : work'[v] \subseteq work[v]
        BY <1>1, <2>2 DEF Unassign, history
    <3> QED
        BY <1>1, <3>1 DEF Looked
  <2> QED
      BY <1>9, <2>1, <2>2
<1>10. ASSUME NEW h \in Hubs, GatherAssignments(h) PROVE Looked'
  <2>1. UNCHANGED <<work, late>> /\ run.pc = "gather"
      BY <1>10 DEF GatherAssignments, around, history
  <2>2. /\ run'.departed = run.departed /\ run'.delivered = run.delivered
        /\ \/ run'.pc = "gather" /\ run'.toAsk = run.toAsk \ { h }
           \/ run'.pc = "notify" /\ run.toAsk = { h }
        /\ \A u \in run.departed : run'.hubWork[u] = run.hubWork[u] \cup (work[u] \cap { h })
      BY <1>10, GatherIs
  <2>3. run'.delivered = {}
      BY <2>1, <2>2 DEF Looked
  <2>4. ASSUME NEW u \in run.departed, NEW g \in work[u],
               run'.pc = "notify" \/ g \notin run'.toAsk
        PROVE  g \in run'.hubWork[u] \/ u \in late
    <3>1. CASE g = h
        BY <2>2, <3>1
    <3>2. CASE g # h
        BY <2>1, <2>2, <2>4, <3>2 DEF Looked
    <3> QED
        BY <3>1, <3>2
  <2> QED
      BY <2>1, <2>2, <2>3, <2>4 DEF Looked
<1>11. ASSUME NEW h \in Hubs, SendDigest(h) PROVE Looked'
  <2>1. UNCHANGED <<work, late>> /\ run.pc = "notify"
      BY <1>11 DEF SendDigest, around
  <2>2. /\ run'.departed = run.departed /\ run'.hubWork = run.hubWork
        /\ run'.pc \in { "notify", "write" }
      BY <1>11, SendIs
  <2> QED
      BY <2>1, <2>2 DEF Looked
<1> QED
    BY <1>2, <1>3, <1>4, <1>5, <1>6, <1>7, <1>8, <1>9, <1>10, <1>11, Steps

LEMMA HeardNext == SyncTypeOK /\ StillEnabled /\ Looked /\ Heard /\ [Next]_vars => Heard'
<1> SUFFICES ASSUME SyncTypeOK, StillEnabled, Looked, Heard, [Next]_vars PROVE Heard'
    OBVIOUS
<1>1. /\ run \in Run /\ run.departed \subseteq Users /\ run.delivered \subseteq Hubs
      /\ told \in [ Users -> [ Hubs -> SUBSET Users ] ]
    BY DEF SyncTypeOK, Run
<1>2. CASE Quiet
    BY <1>2 DEF Quiet, Heard
<1>3. CASE RunBegins
    BY <1>3, BeginsIs DEF RunBegins, Heard
<1>4. CASE ResolveDeparted
    BY <1>4, ResolveIs, EndsIs DEF Heard
<1>5. CASE Guarded
  <2>1. PICK departed \in SUBSET run.departed : ToGather(departed) /\ run.pc = "spare"
      BY <1>5, SpareIs
  <2>2. run'.delivered = {}
      BY <2>1, ToGatherIs, EndsIs DEF Looked, SameButDeparted
  <2> QED
      BY <2>2 DEF Heard
<1>6. CASE RunGivesUp
    BY <1>6, EndsIs DEF RunGivesUp, GatherFails, RunStops, Heard
<1>7. ASSUME NEW u \in Users, Written(u) PROVE Heard'
  <2>1. run.pc = "write" /\ u \in run.departed /\ Done(u) /\ UNCHANGED <<told, late>>
      BY <1>7, WriteIs
  <2>2. \/ run'.departed = {}
        \/ /\ run'.departed = run.departed \ { u } /\ run'.hubWork = run.hubWork
           /\ run'.delivered = run.delivered /\ run'.emails = run.emails
      BY <2>1, DoneIs, EndsIs DEF SameButDeparted
  <2> QED
      BY <2>1, <2>2 DEF Heard
<1>8. ASSUME NEW q \in requests, WriteStatus(q) PROVE Heard'
  <2> DEFINE u == q.user
  <2>0. u \in Users /\ q.to \in Enabled
      BY DEF SyncTypeOK, StatusChange
  <2>1. /\ run' = run
        /\ \A v \in run.departed : told'[v] = told[v] /\ (v \in late => v \in late')
      BY <1>1, <1>8, <2>0 DEF WriteStatus, StillEnabled, Enabled
  <2> QED
      BY <2>1 DEF Heard
<1>9. ASSUME NEW u \in Users, NEW h \in Hubs, Assign(u, h) \/ Unassign(u, h) PROVE Heard'
  <2>1. CASE Assign(u, h)
    <3>1. /\ run' = run /\ late' = late \cup IF RunDecided THEN { u } ELSE {}
          /\ \A v \in Users \ { u } : told'[v] = told[v]
        BY <1>1, <2>1 DEF Assign
    <3>2. CASE RunDecided
        BY <1>1, <3>1, <3>2 DEF Heard
    <3>3. CASE ~RunDecided
      <4>1. run.delivered = {}
          BY <1>1, <3>3 DEF Looked, RunDecided, Run
      <4> QED
          BY <3>1, <4>1 DEF Heard
    <3> QED
        BY <3>2, <3>3
  <2>2. CASE Unassign(u, h)
      BY <2>2 DEF Unassign, history, Heard
  <2> QED
      BY <1>9, <2>1, <2>2
<1>10. ASSUME NEW h \in Hubs, GatherAssignments(h) PROVE Heard'
  <2>1. run.pc = "gather"
      BY <1>10 DEF GatherAssignments
  <2>2. run'.delivered = {}
      BY <1>10, <2>1, GatherIs DEF Looked
  <2> QED
      BY <2>2 DEF Heard
<1>11. ASSUME NEW h \in Hubs, SendDigest(h) PROVE Heard'
  <2>1. late' = late
      BY <1>11 DEF SendDigest
  <2>2. PICK reached :
          /\ run'.departed = run.departed /\ run'.hubWork = run.hubWork
          /\ run'.emails = run.emails
          /\ run'.delivered = run.delivered \cup IF Delivered(h, reached) THEN { h } ELSE {}
          /\ told' = [ u \in Users |-> IF u \in InDigest(h)
                         THEN [ told[u] EXCEPT ![h] = @ \cup reached ] ELSE told[u] ]
      BY <1>11, SendIs
  <2>3. ASSUME run.emails, NEW u \in run.departed, NEW g \in run'.delivered, g \in run.hubWork[u]
        PROVE  told'[u][g] # {} \/ u \in late
    <3>1. u \in Users /\ g \in Hubs /\ (u \in InDigest(h) <=> h \in run.hubWork[u])
        BY <1>1, <2>2, <2>3 DEF InDigest
    <3>2. told[u][g] # {} => told'[u][g] # {}
        BY <1>1, <2>2, <3>1
    <3>3. CASE g \in run.delivered
        BY <2>3, <3>2, <3>3 DEF Heard
    <3>4. CASE g \notin run.delivered
      <4>1. g = h /\ Delivered(h, reached) /\ u \in InDigest(h)
          BY <2>2, <2>3, <3>1, <3>4
      <4>2. reached # {} /\ told'[u][h] = told[u][h] \cup reached
          BY <1>1, <2>2, <2>3, <3>1, <4>1 DEF Delivered
      <4> QED
          BY <4>1, <4>2
    <3> QED
        BY <3>3, <3>4
  <2> QED
      BY <2>1, <2>2, <2>3 DEF Heard
<1> QED
    BY <1>2, <1>3, <1>4, <1>5, <1>6, <1>7, <1>8, <1>9, <1>10, <1>11, Steps

LEMMA OneIsSparedNext == SyncTypeOK /\ OneIsSpared /\ [Next]_vars => OneIsSpared'
<1> SUFFICES ASSUME SyncTypeOK, OneIsSpared, [Next]_vars PROVE OneIsSpared'
    OBVIOUS
<1>1. status \in [ Users -> Statuses ] /\ run \in Run /\ run.departed \subseteq Users
    BY DEF SyncTypeOK, Run
<1>2. CASE Quiet
    BY <1>2 DEF Quiet, OneIsSpared, ActiveHolders, RunDecided
<1>3. CASE RunBegins
    BY <1>3, BeginsIs DEF RunBegins, OneIsSpared, RunDecided
<1>4. CASE ResolveDeparted
    BY <1>4, ResolveIs, EndsIs DEF OneIsSpared, RunDecided
<1>5. CASE Guarded
  <2> DEFINE holders == { u \in ActiveHolders : run.listed[u] \in Enabled }
  <2>1. PICK departed \in SUBSET run.departed :
            /\ ToGather(departed) /\ status' = status
            /\ \/ unguarded' = TRUE
               \/ unguarded' = (ActiveHolders = {}) /\ departed = Spared(run.departed, holders)
      BY <1>5, SpareIs
  <2>2. run'.departed \subseteq departed
      BY <2>1, ToGatherIs, EndsIs
  <2>3. CASE unguarded'
      BY <2>3 DEF OneIsSpared
  <2>4. CASE ~unguarded'
    <3>1. ActiveHolders # {} /\ departed = Spared(run.departed, holders)
        BY <2>1, <2>4
    <3>2. \A u \in run.departed : run.listed[u] \in Enabled
        BY DEF SyncTypeOK
    <3>3. \E u \in ActiveHolders : u \notin departed
      <4>1. CASE holders = {}
          BY <2>1, <3>1, <3>2, <4>1
      <4>2. CASE holders # {} /\ holders \subseteq run.departed
          BY <3>1, <4>2 DEF Spared
      <4>3. CASE ~(holders \subseteq run.departed)
          BY <2>1, <4>3
      <4> QED
          BY <4>1, <4>2, <4>3
    <3> QED
        BY <2>1, <2>2, <3>3 DEF OneIsSpared, ActiveHolders
  <2> QED
      BY <2>3, <2>4
<1>6. CASE RunGivesUp
    BY <1>6, EndsIs DEF RunGivesUp, GatherFails, RunStops, OneIsSpared, RunDecided
<1>7. ASSUME NEW u \in Users, Written(u) PROVE OneIsSpared'
  <2>1. /\ run.pc = "write" /\ u \in run.departed /\ Done(u) /\ unguarded' = unguarded
        /\ \A v \in Users \ { u } : status'[v] = status[v]
      BY <1>1, <1>7, WriteIs
  <2>2. run'.departed \subseteq run.departed
      BY <2>1, DoneIs, EndsIs
  <2>3. CASE unguarded
      BY <2>1, <2>3 DEF OneIsSpared
  <2>4. CASE ~unguarded
    <3>1. PICK v \in ActiveHolders : v \notin run.departed
        BY <2>1, <2>4 DEF OneIsSpared, RunDecided
    <3>2. v \in Users \ { u } /\ v \in Holders /\ status'[v] = "ACTIVE"
        BY <2>1, <3>1, SyncAssumption DEF ActiveHolders
    <3> QED
        BY <2>2, <3>1, <3>2 DEF OneIsSpared, ActiveHolders
  <2> QED
      BY <2>3, <2>4
<1>8. ASSUME NEW q \in requests, WriteStatus(q) PROVE OneIsSpared'
  <2> DEFINE u == q.user
  <2>0. u \in Users /\ q.to \in Enabled
      BY DEF SyncTypeOK, StatusChange
  <2>1. /\ run' = run
        /\ (unguarded' <=> unguarded \/ (RunDecided /\ u \in ActiveHolders /\ q.to = "INACTIVE"))
        /\ status' = [ status EXCEPT ![u] = q.to ]
      BY <1>8, <2>0 DEF WriteStatus
  <2>2. CASE unguarded' \/ ~RunDecided
      BY <2>1, <2>2 DEF OneIsSpared, RunDecided
  <2>3. CASE ~unguarded' /\ RunDecided
    <3>1. ~unguarded
        BY <2>1, <2>3
    <3>2. PICK v \in ActiveHolders : v \notin run.departed
        BY <2>3, <3>1 DEF OneIsSpared
    <3>3. v \in Users /\ v \in Holders /\ status[v] = "ACTIVE"
        BY <3>2, SyncAssumption DEF ActiveHolders
    <3>4. status'[v] = "ACTIVE"
      <4>1. CASE v = u
        <5>1. q.to # "INACTIVE"
            BY <2>1, <2>3, <3>2, <4>1
        <5> QED
            BY <1>1, <2>0, <2>1, <4>1, <5>1 DEF Enabled
      <4>2. CASE v # u
          BY <1>1, <2>1, <3>3, <4>2
      <4> QED
          BY <4>1, <4>2
    <3> QED
        BY <2>1, <3>2, <3>3, <3>4 DEF OneIsSpared, ActiveHolders
  <2> QED
      BY <2>2, <2>3
<1>9. ASSUME NEW u \in Users, NEW h \in Hubs, Assign(u, h) \/ Unassign(u, h) PROVE OneIsSpared'
    BY <1>9 DEF Assign, Unassign, history, OneIsSpared, ActiveHolders, RunDecided
<1>10. ASSUME NEW h \in Hubs, GatherAssignments(h) \/ SendDigest(h) PROVE OneIsSpared'
  <2>1. UNCHANGED <<status, unguarded>> /\ RunDecided
      BY <1>10 DEF GatherAssignments, SendDigest, history, RunDecided
  <2>2. run'.departed = run.departed
      BY <1>10, GatherIs, SendIs
  <2> QED
      BY <2>1, <2>2 DEF OneIsSpared, ActiveHolders
<1> QED
    BY <1>2, <1>3, <1>4, <1>5, <1>6, <1>7, <1>8, <1>9, <1>10, Steps

LEMMA OnceOrRetryNext ==
    SyncTypeOK /\ StillEnabled /\ OnceOrRetry /\ [Next]_vars => OnceOrRetry'
<1> SUFFICES ASSUME SyncTypeOK, StillEnabled, OnceOrRetry, [Next]_vars PROVE OnceOrRetry'
    OBVIOUS
<1>1. /\ status \in [ Users -> Statuses ] /\ run \in Run /\ run.departed \subseteq Users
      /\ told \in [ Users -> [ Hubs -> SUBSET Users ] ]
    BY DEF SyncTypeOK, Run
<1>2. CASE Quiet
    BY <1>2 DEF Quiet, OnceOrRetry
<1>3. CASE RunBegins
  <2>1. run.pc = "idle" /\ UNCHANGED <<status, told, again, retry>>
      BY <1>3 DEF RunBegins, Begins, history
  <2> QED
      BY <2>1 DEF OnceOrRetry
<1>4. CASE ResolveDeparted
  <2>1. run.pc = "resolve" /\ UNCHANGED <<status, told, again, retry>>
      BY <1>4 DEF ResolveDeparted, history
  <2> QED
      BY <2>1 DEF OnceOrRetry
<1>5. CASE Guarded
  <2>1. run.pc = "spare" /\ UNCHANGED <<status, told, again, retry>>
      BY <1>5, SpareIs
  <2> QED
      BY <2>1 DEF OnceOrRetry
<1>6. CASE RunGivesUp
  <2>1. CASE GatherFails
    <3>1. run.pc = "gather" /\ UNCHANGED <<status, told, again, retry>>
        BY <2>1 DEF GatherFails, history
    <3> QED
        BY <3>1 DEF OnceOrRetry
  <2>2. CASE RunStops
      BY <2>2 DEF RunStops, OnceOrRetry
  <2> QED
      BY <1>6, <2>1, <2>2 DEF RunGivesUp
<1>7. ASSUME NEW u \in Users, Written(u) PROVE OnceOrRetry'
  <2>1. /\ run.pc = "write" /\ u \in run.departed /\ Done(u) /\ UNCHANGED <<told, again>>
        /\ \/ status'[u] = "DISABLED" \/ u \in retry'
        /\ \A v \in Users \ { u } : status'[v] = status[v]
        /\ retry \subseteq retry'
      BY <1>1, <1>7, WriteIs
  <2>2. \A v \in run.departed \ { u } : v \in run'.departed /\ run'.pc = "write"
      BY <2>1, DoneIs
  <2>3. "DISABLED" \notin Enabled
      BY DEF Enabled
  <2> QED
      BY <1>1, <2>1, <2>2, <2>3 DEF OnceOrRetry
<1>8. ASSUME NEW q \in requests, WriteStatus(q) PROVE OnceOrRetry'
  <2> DEFINE u == q.user
  <2>0. u \in Users /\ q.to \in Enabled
      BY DEF SyncTypeOK, StatusChange
  <2>1. run' = run /\ \A v \in Users \ { u } : status'[v] = status[v]
      BY <1>1, <1>8, <2>0 DEF WriteStatus
  <2>2. CASE status[u] = "DISABLED"
    <3>1. /\ again' = again \ { u } /\ retry' = retry \ { u }
          /\ told' = [ told EXCEPT ![u] = [ h \in Hubs |-> {} ] ]
        BY <1>8, <2>2 DEF WriteStatus
    <3>2. /\ \A h \in Hubs : told'[u][h] = {}
          /\ \A v \in Users \ { u } : told'[v] = told[v]
        BY <1>1, <2>0, <3>1
    <3> QED
        BY <2>1, <3>1, <3>2 DEF OnceOrRetry
  <2>3. CASE status[u] # "DISABLED"
    <3>1. UNCHANGED <<told, again, retry>> /\ status[u] \in Enabled
        BY <1>1, <1>8, <2>0, <2>3 DEF WriteStatus, Statuses, Enabled
    <3> QED
        BY <2>1, <3>1 DEF OnceOrRetry
  <2> QED
      BY <2>2, <2>3
<1>9. ASSUME NEW u \in Users, NEW h \in Hubs, Assign(u, h) \/ Unassign(u, h) PROVE OnceOrRetry'
  <2>1. UNCHANGED <<status, run, again, retry>>
      BY <1>9 DEF Assign, Unassign, history
  <2>2. told' = told \/ told' = [ told EXCEPT ![u][h] = {} ]
      BY <1>9 DEF Assign, Unassign, history
  <2>3. ASSUME NEW v \in Users, NEW g \in Hubs, told'[v][g] # {}
        PROVE  told[v][g] # {}
      BY <1>1, <2>2, <2>3
  <2> QED
      BY <2>1, <2>3 DEF OnceOrRetry
<1>10. ASSUME NEW h \in Hubs, GatherAssignments(h) PROVE OnceOrRetry'
  <2>1. run.pc = "gather" /\ UNCHANGED <<status, told, again, retry>>
      BY <1>10 DEF GatherAssignments, history
  <2> QED
      BY <2>1 DEF OnceOrRetry
<1>11. ASSUME NEW h \in Hubs, SendDigest(h) PROVE OnceOrRetry'
  <2>1. UNCHANGED <<status, retry>> /\ run.pc = "notify" /\ h \in run.toAsk
      BY <1>11 DEF SendDigest, around
  <2>2. PICK reached \in SUBSET Recipients(h) :
          /\ run'.departed = run.departed
          /\ run'.toAsk = run.toAsk \ { h }
          /\ run'.pc = "notify" \/ (run'.pc = "write" /\ run.toAsk = { h })
          /\ told' = [ u \in Users |-> IF u \in InDigest(h)
                         THEN [ told[u] EXCEPT ![h] = @ \cup reached ] ELSE told[u] ]
          /\ again' = again \cup { u \in InDigest(h) : told[u][h] # {} /\ reached # {} }
      BY <1>11, SendIs
  <2>3. ASSUME NEW u \in InDigest(h), told[u][h] # {} PROVE u \in retry
    <3>1. u \in run.departed /\ u \in Users /\ status[u] \in Enabled
        BY <1>1 DEF InDigest, StillEnabled
    <3> QED
        BY <2>1, <2>3, <3>1 DEF OnceOrRetry
  <2>4. ASSUME NEW u \in Users, NEW g \in Hubs, status[u] \in Enabled, told'[u][g] # {}, u \notin retry
        PROVE  u \in run'.departed /\ (run'.pc = "write" \/ g \notin run'.toAsk)
    <3>1. CASE u \in InDigest(h) /\ g = h
        BY <2>1, <2>2, <3>1 DEF InDigest
    <3>2. CASE ~(u \in InDigest(h) /\ g = h)
      <4>1. told'[u][g] = told[u][g]
          BY <1>1, <2>2, <3>2
      <4>2. u \in run.departed /\ g \notin run.toAsk
          BY <2>1, <2>4, <4>1 DEF OnceOrRetry
      <4> QED
          BY <2>2, <4>2
    <3> QED
        BY <3>1, <3>2
  <2>5. again' \subseteq retry'
      BY <2>1, <2>2, <2>3 DEF OnceOrRetry
  <2> QED
      BY <2>1, <2>2, <2>4, <2>5 DEF OnceOrRetry
<1> QED
    BY <1>2, <1>3, <1>4, <1>5, <1>6, <1>7, <1>8, <1>9, <1>10, <1>11, Steps

\* What a step disables was announced.
LEMMA NoticeStep ==
    ASSUME IInv, [Next]_vars, NEW u \in Users, status[u] # "DISABLED", status'[u] = "DISABLED",
           run.emails, NEW h \in work[u]
    PROVE  told[u][h] # {} \/ u \in late
<1>1. status \in [ Users -> Statuses ] /\ run \in Run /\ work \in [ Users -> SUBSET Hubs ]
    BY DEF IInv, SyncTypeOK
<1>2. PICK v \in Users : Written(v)
  <2>1. ASSUME NEW q \in requests, WriteStatus(q) PROVE FALSE
    <3>1. q.user \in Users /\ q.to \in Enabled
        BY DEF IInv, SyncTypeOK, StatusChange
    <3> QED
        BY <1>1, <2>1, <3>1 DEF WriteStatus, Enabled
  <2>2. (\E w \in Users : Written(w)) \/ status' = status
    <3>1. RunBegins \/ ResolveDeparted \/ Guarded \/ RunGivesUp => status' = status
        BY SpareIs DEF IInv, RunBegins, ResolveDeparted, RunGivesUp, GatherFails, RunStops
    <3> QED
        BY <2>1, <3>1, Steps DEF Quiet, Assign, Unassign, GatherAssignments, SendDigest
  <2> QED
      BY <2>2
<1>3. /\ run.pc = "write" /\ v \in run.departed
      /\ status' = [ status EXCEPT ![v] = "DISABLED" ] /\ ~NotifyPending(v)
    BY <1>2, WriteIs DEF IInv
<1>4. u = v /\ run.hubWork[u] \subseteq run.delivered
    BY <1>1, <1>3 DEF NotifyPending
<1>5. h \in run.hubWork[u] \/ u \in late
    BY <1>3, <1>4 DEF IInv, Looked
<1> QED
    BY <1>3, <1>4, <1>5 DEF IInv, Heard

\* The last active holder is lost to a write only, or by a run.
LEMMA LastHolderStep ==
    ASSUME IInv, [Next]_vars, ActiveHolders # {}, ActiveHolders' = {}
    PROVE  (\E q \in requests \ requests' : q.by \notin ActiveHolders) \/ unguarded
<1>1. status \in [ Users -> Statuses ]
    BY DEF IInv, SyncTypeOK
<1>2. status' # status
    BY DEF ActiveHolders
<1>3. ASSUME NEW u \in Users, Written(u) PROVE unguarded
  <2>1. RunDecided /\ u \in run.departed /\ \A v \in Users \ { u } : status'[v] = status[v]
      BY <1>1, <1>3, WriteIs DEF IInv, RunDecided
  <2>2. ASSUME NEW v \in ActiveHolders, v \notin run.departed PROVE FALSE
    <3>1. v \in Users \ { u } /\ v \in Holders /\ status[v] = "ACTIVE"
        BY <2>1, <2>2, SyncAssumption DEF ActiveHolders
    <3> QED
        BY <2>1, <3>1 DEF ActiveHolders
  <2> QED
      BY <2>1, <2>2 DEF IInv, OneIsSpared
<1>4. ASSUME NEW q \in requests, WriteStatus(q) PROVE q \in requests \ requests' /\ q.by \notin ActiveHolders
  <2>1. q.by \in Users /\ q.by # q.user
      BY DEF IInv, SyncTypeOK, StatusChange
  <2>2. status'[q.by] = status[q.by] /\ requests' = requests \ { q }
      BY <1>1, <1>4, <2>1 DEF WriteStatus
  <2> QED
      BY <2>2 DEF ActiveHolders
<1>5. (\E u \in Users : Written(u)) \/ (\E q \in requests : WriteStatus(q)) \/ status' = status
  <2>1. RunBegins \/ ResolveDeparted \/ Guarded \/ RunGivesUp => status' = status
      BY SpareIs DEF IInv, RunBegins, ResolveDeparted, RunGivesUp, GatherFails, RunStops
  <2> QED
      BY <2>1, Steps DEF Quiet, Assign, Unassign, GatherAssignments, SendDigest
<1> QED
    BY <1>2, <1>3, <1>4, <1>5

-----------------------------------------------------------------------------
(* The theorems. *)

THEOREM Inductive == Spec => []IInv
<1>1. Init => IInv
  <2> SUFFICES ASSUME Init PROVE StillEnabled /\ Looked /\ Heard /\ OneIsSpared /\ OnceOrRetry
      BY TypeInit DEF IInv
  <2>1. run = Idle /\ run.pc = "idle" /\ run.departed = {} /\ run.delivered = {}
      BY IdleIs DEF Init
  <2>2. ~RunDecided
      BY <2>1 DEF RunDecided
  <2>3. \A u \in Users, h \in Hubs : told[u][h] = {}
      BY DEF Init
  <2> QED
      BY <2>1, <2>2, <2>3 DEF Init, StillEnabled, Looked, Heard, OneIsSpared, OnceOrRetry
<1>2. IInv /\ [Next]_vars => IInv'
    BY TypeNext, StillEnabledNext, LookedNext, HeardNext, OneIsSparedNext, OnceOrRetryNext DEF IInv
<1> QED
    BY <1>1, <1>2, PTL DEF Spec

\* The last active holder of MANAGE_USERS is lost to the write of an admin who is
\* none any more, or to a run whose guard was evaded.
THEOREM SyncLeavesAnAdmin == Spec => AnAdminRemains
<1>1. IInv /\ [Next]_vars =>
        [ActiveHolders # {} /\ ActiveHolders' = {} =>
            \/ \E q \in requests \ requests' : q.by \notin ActiveHolders
            \/ unguarded]_vars
    BY LastHolderStep
<1> QED
    BY <1>1, Inductive, PTL DEF Spec, AnAdminRemains

\* A hub is told again only of somebody a run left to the next one.
THEOREM SyncTellsOnce == Spec => []ToldTwiceOnlyForRetry
<1>1. IInv => ToldTwiceOnlyForRetry
    BY DEF IInv, OnceOrRetry, ToldTwiceOnlyForRetry
<1> QED
    BY <1>1, Inductive, PTL

\* The status is written only after every hub of the work was told, unless
\* notifications are off.
THEOREM SyncTellsFirst == Spec => NoticeBeforeDisable
<1>1. IInv /\ [Next]_vars =>
        [\A u \in Users :
            (status[u] # "DISABLED" /\ status'[u] = "DISABLED") =>
                \/ ~run.emails
                \/ \A h \in work[u] : told[u][h] # {} \/ u \in late]_vars
    BY NoticeStep
<1> QED
    BY <1>1, Inductive, PTL DEF Spec, NoticeBeforeDisable

-----------------------------------------------------------------------------
(* The cache of users (EntityCache). *)

\* A key is among those still to come.
Left(keys, k) == \E i \in 1..Len(keys) : keys[i] = k

\* Only contents with a uuid are kept, or looked for, under one.
Fits(c, k) == k = "byUUID" => c.uuid

Newer(c, v) == c.row >= v.row /\ c.teams >= v.teams

\* A read that has its row, and whose user no write has forgotten since, has found
\* these versions or later ones.
ReadAbove(q, v) ==
    q.pc \in { "teams", "remember" } /\ ~q.raced =>
        /\ q.found.row >= v.row
        /\ q.pc = "remember" => q.found.teams >= v.teams

KeptAbove(e, v) == e # Missing /\ ~e.raced => Newer(e.user, v)

RowOK(row, left) ==
    IF row = Missing THEN left.row = 0 /\ left.teams = 0
    ELSE row.teams <= row.row /\ Newer(row, left)

EntryOK(e, k, row, left) ==
    /\ e # Missing => Fits(e.user, k) /\ row # Missing /\ e.user.uuid = row.uuid
    /\ KeptAbove(e, left)

FlightOK(q, row, left) ==
    /\ q.pc \in { "teams", "remember", "read back", "forget" } =>
          row # Missing /\ q.found.uuid = row.uuid /\ Newer(row, q.found)
    /\ q.pc \in { "remember", "forgetOld", "forget" } => q.keys # <<>>
    /\ q.pc = "remember" => \A i \in 1..Len(q.keys) : Fits(q.found, q.keys[i])
    /\ ReadAbove(q, left)

\* A write that has already deleted the entry its user had under this key.
Ousted(q, k) == q.pc = "forget" /\ Fits(q.found, k) /\ ~Left(q.keys, k)

\* What has been put there since, and what is on its way, is not older than the write.
OustedOK(q, k) ==
    Ousted(q, k) =>
        /\ KeptAbove(cache[k][q.user], q.found)
        /\ \A g \in Requests : request[g].user = q.user => ReadAbove(request[g], q.found)

CacheInv ==
    /\ CacheTypeOK
    /\ \A u \in People : RowOK(db[u], settled[u])
    /\ \A k \in CacheKeys, u \in People : EntryOK(cache[k][u], k, db[u], settled[u])
    /\ \A h \in Requests :
          FlightOK(request[h], db[request[h].user], settled[request[h].user])
    /\ \A h \in Requests, k \in CacheKeys : OustedOK(request[h], k)

-----------------------------------------------------------------------------

LEMMA KeysAre ==
    ASSUME NEW c \in Contents
    PROVE  /\ KeysOf(c) \in Seq(CacheKeys) /\ KeysOf(c) # <<>>
           /\ \A i \in 1..Len(KeysOf(c)) : Fits(c, KeysOf(c)[i])
           /\ \A k \in CacheKeys : Fits(c, k) => Left(KeysOf(c), k)
<1>1. CASE c.uuid
  <2>1. KeysOf(c) = <<"byID", "byUUID">>
      BY <1>1 DEF KeysOf
  <2>2. Left(KeysOf(c), "byID") /\ Left(KeysOf(c), "byUUID")
    <3>1. KeysOf(c)[1] = "byID" /\ KeysOf(c)[2] = "byUUID" /\ 1 \in 1..Len(KeysOf(c)) /\ 2 \in 1..Len(KeysOf(c))
        BY <2>1
    <3> QED
        BY <3>1 DEF Left
  <2> QED
      BY <1>1, <2>1, <2>2 DEF Fits, CacheKeys
<1>2. CASE ~c.uuid
  <2>1. KeysOf(c) = <<"byID">>
      BY <1>2 DEF KeysOf
  <2>2. Left(KeysOf(c), "byID")
    <3>1. KeysOf(c)[1] = "byID" /\ 1 \in 1..Len(KeysOf(c))
        BY <2>1
    <3> QED
        BY <3>1 DEF Left
  <2> QED
      BY <1>2, <2>1, <2>2 DEF Fits, CacheKeys
<1> QED
    BY <1>1, <1>2

LEMMA TailLeft ==
    ASSUME NEW keys \in Seq(CacheKeys), keys # <<>>
    PROVE  /\ Head(keys) = keys[1] /\ Head(keys) \in CacheKeys /\ 1 \in 1..Len(keys)
           /\ Tail(keys) \in Seq(CacheKeys) /\ (Len(keys) # 1 => Tail(keys) # <<>>)
           /\ \A i \in 1..Len(Tail(keys)) : i + 1 \in 1..Len(keys) /\ Tail(keys)[i] = keys[i + 1]
           /\ \A k \in CacheKeys \ { Head(keys) } : Left(keys, k) => Left(Tail(keys), k)
<1>1. /\ Head(keys) = keys[1] /\ Head(keys) \in CacheKeys /\ Len(keys) \in Nat \ { 0 }
      /\ Tail(keys) \in Seq(CacheKeys) /\ Len(Tail(keys)) = Len(keys) - 1
      /\ \A i \in 1..Len(Tail(keys)) : Tail(keys)[i] = keys[i + 1]
    OBVIOUS
<1>2. ASSUME NEW k \in CacheKeys \ { Head(keys) }, Left(keys, k) PROVE Left(Tail(keys), k)
  <2>1. PICK i \in 1..Len(keys) : keys[i] = k
      BY <1>2 DEF Left
  <2>2. i # 1 /\ i - 1 \in 1..Len(Tail(keys)) /\ (i - 1) + 1 = i
      BY <1>1, <2>1
  <2>3. Tail(keys)[i - 1] = k
      BY <1>1, <2>1, <2>2
  <2> QED
      BY <2>2, <2>3 DEF Left
<1>3. Len(keys) # 1 => Tail(keys) # <<>>
    BY <1>1
<1> QED
    BY <1>1, <1>2, <1>3

LEMMA BothLeft ==
    ASSUME NEW a \in Seq(CacheKeys), NEW b \in Seq(CacheKeys)
    PROVE  /\ a \o b \in Seq(CacheKeys) /\ (b # <<>> => a \o b # <<>>)
           /\ \A k \in CacheKeys : Left(b, k) => Left(a \o b, k)
<1>1. /\ a \o b \in Seq(CacheKeys) /\ Len(a \o b) = Len(a) + Len(b) /\ Len(a) \in Nat /\ Len(b) \in Nat
      /\ \A i \in 1..Len(b) : (a \o b)[Len(a) + i] = b[i]
    OBVIOUS
<1>2. ASSUME NEW k \in CacheKeys, Left(b, k) PROVE Left(a \o b, k)
  <2>1. PICK i \in 1..Len(b) : b[i] = k
      BY <1>2 DEF Left
  <2>2. Len(a) + i \in 1..Len(a \o b) /\ (a \o b)[Len(a) + i] = k
      BY <1>1, <2>1
  <2> QED
      BY <2>2 DEF Left
<1>3. b # <<>> => a \o b # <<>>
  <2>1. ASSUME b # <<>> PROVE Len(b) # 0
      BY <2>1
  <2>2. ASSUME b # <<>> PROVE Len(a \o b) # 0
      BY <1>1, <2>1, <2>2
  <2> QED
      BY <2>2
<1> QED
    BY <1>1, <1>2, <1>3

LEMMA NoRequestType ==
    /\ NoRequest \in Request /\ NoRequest.pc = "idle" /\ NoRequest.keys = <<>> /\ ~NoRequest.raced
    /\ NewUser \in Contents /\ LegacyUser \in Contents
<1>1. NewUser \in Contents /\ LegacyUser \in Contents
  <2>1. 0 \in 0..MaxWrites
      BY CacheAssumption
  <2>2. NewUser \in Contents
      BY <2>1 DEF NewUser, Contents
  <2>3. LegacyUser \in Contents
      BY <2>2 DEF LegacyUser, Contents
  <2> QED
      BY <2>2, <2>3
<1>2. (CHOOSE u \in People : TRUE) \in People
    BY CacheAssumption
<1>3. <<>> \in Seq(CacheKeys)
    OBVIOUS
<1> QED
    BY <1>1, <1>2, <1>3 DEF NoRequest, Request

LEMMA NewType ==
    ASSUME NEW op \in { "byID", "byUUID", "create", "update" }, NEW u \in People,
           NEW pc \in { "row", "forgetOld", "write" }
    PROVE  /\ New(op, u, pc) \in Request /\ New(op, u, pc).pc = pc
           /\ \A keys \in Seq(CacheKeys) : [ New(op, u, pc) EXCEPT !.keys = keys ] \in Request
BY NoRequestType DEF New, Request

LEMMA CacheInitial == CacheInit => CacheInv
<1> SUFFICES ASSUME CacheInit PROVE CacheInv
    OBVIOUS
<1>1. CacheTypeOK
    BY NoRequestType, CacheAssumption
    DEF CacheInit, CacheTypeOK, NothingCached, Versions
<1>2. \A u \in People : RowOK(db[u], settled[u])
    BY NoRequestType DEF CacheInit, RowOK, Newer, NewUser, LegacyUser, Contents
<1>3. \A k \in CacheKeys, u \in People : cache[k][u] = Missing
    BY DEF CacheInit, NothingCached
<1>4. \A h \in Requests : request[h].pc = "idle"
    BY NoRequestType DEF CacheInit
<1> QED
    BY <1>1, <1>2, <1>3, <1>4
    DEF CacheInv, EntryOK, KeptAbove, FlightOK, ReadAbove, OustedOK, Ousted

-----------------------------------------------------------------------------

\* A row that is written keeps its uuid and gets later versions.
Grows(row, new) ==
    /\ new # Missing
    /\ row # Missing => new.uuid = row.uuid /\ Newer(new, row)

\* A request that arrives, or goes on, and has not deleted anything of its user after
\* a write.
Arrived(q) ==
    /\ FlightOK(q, db'[q.user], settled[q.user])
    /\ \A k \in CacheKeys : ~Ousted(q, k)
    /\ \A g \in Requests, k \in CacheKeys :
          Ousted(request[g], k) /\ request[g].user = q.user => ReadAbove(q, request[g].found)

\* The steps that put nothing into the cache and settle nothing.
LEMMA OthersKeepInv ==
    ASSUME CacheInv, CacheTypeOK', settled' = settled,
           \A u \in People : db'[u] = db[u] \/ (Grows(db[u], db'[u]) /\ RowOK(db'[u], settled[u])),
           \A k \in CacheKeys, u \in People :
              cache'[k][u] # Missing => /\ cache[k][u] # Missing
                                        /\ cache'[k][u].user = cache[k][u].user
                                        /\ cache'[k][u].raced = cache[k][u].raced,
           \A h \in Requests : request'[h] = request[h] \/ Arrived(request'[h])
    PROVE  CacheInv'
<1>1. CacheTypeOK
    BY DEF CacheInv
<1>2. ASSUME NEW u \in People PROVE RowOK(db[u], settled[u])'
    BY <1>2 DEF CacheInv
<1>3. ASSUME NEW k \in CacheKeys, NEW u \in People
      PROVE  EntryOK(cache[k][u], k, db[u], settled[u])'
  <2>1. EntryOK(cache[k][u], k, db[u], settled[u])
      BY DEF CacheInv
  <2> QED
      BY <2>1 DEF EntryOK, KeptAbove, Grows
<1>4. ASSUME NEW h \in Requests
      PROVE  FlightOK(request'[h], db'[request'[h].user], settled'[request'[h].user])
  <2>1. CASE request'[h] = request[h]
    <3>1. FlightOK(request[h], db[request[h].user], settled[request[h].user]) /\ request[h] \in Request
        BY <1>1 DEF CacheInv, CacheTypeOK
    <3>2. request[h].user \in People /\ request[h].found \in Contents
        BY <3>1 DEF Request
    <3>3. db[request[h].user] # Missing => db[request[h].user] \in Contents
        BY <1>1, <3>2 DEF CacheTypeOK
    <3>4. db'[request[h].user] # Missing => db'[request[h].user] \in Contents
        BY <3>2 DEF CacheTypeOK
    <3> DEFINE q == request[h]
               old == db[q.user]
               new == db'[q.user]
    <3>5. new = old \/ Grows(old, new)
        BY <3>2
    <3>6. old # Missing /\ Newer(old, q.found) =>
              new # Missing /\ (q.found.uuid = old.uuid => q.found.uuid = new.uuid) /\ Newer(new, q.found)
        BY <3>2, <3>3, <3>4, <3>5 DEF Grows, Newer, Contents
    <3> QED
        BY <2>1, <3>1, <3>6 DEF FlightOK
  <2>2. CASE Arrived(request'[h])
      BY <2>2 DEF Arrived
  <2> QED
      BY <2>1, <2>2
<1>5. ASSUME NEW h \in Requests, NEW k \in CacheKeys, Ousted(request'[h], k)
      PROVE  /\ KeptAbove(cache'[k][request'[h].user], request'[h].found)
             /\ \A g \in Requests :
                   request'[g].user = request'[h].user => ReadAbove(request'[g], request'[h].found)
  <2>1. request'[h] = request[h] /\ Ousted(request[h], k)
      BY <1>5 DEF Arrived
  <2>2. OustedOK(request[h], k) /\ request[h].user \in People
      BY <1>1 DEF CacheInv, CacheTypeOK, Request
  <2>3. KeptAbove(cache'[k][request[h].user], request[h].found)
      BY <2>1, <2>2 DEF OustedOK, KeptAbove
  <2>4. ASSUME NEW g \in Requests, request'[g].user = request[h].user
        PROVE  ReadAbove(request'[g], request[h].found)
      BY <2>1, <2>2, <2>4 DEF OustedOK, Arrived
  <2> QED
      BY <2>1, <2>3, <2>4
<1> QED
    BY <1>2, <1>3, <1>4, <1>5 DEF CacheInv, OustedOK

-----------------------------------------------------------------------------
(* The steps. *)

\* What the invariant says of one request.
LEMMA OneRequest ==
    ASSUME CacheInv, NEW h \in Requests
    PROVE  /\ request[h] \in Request /\ request[h].user \in People
           /\ request[h].found \in Contents /\ request[h].keys \in Seq(CacheKeys)
           /\ FlightOK(request[h], db[request[h].user], settled[request[h].user])
           /\ \A k \in CacheKeys : OustedOK(request[h], k)
           /\ RowOK(db[request[h].user], settled[request[h].user])
           /\ db[request[h].user] \in Contents \cup { Missing }
           /\ settled[request[h].user] \in Versions
BY DEF CacheInv, CacheTypeOK, Request

\* The type of what changes with a request alone.
LEMMA RequestType ==
    ASSUME CacheTypeOK, NEW h \in Requests, NEW v \in Request,
           request' = [ request EXCEPT ![h] = v ]
    PROVE  /\ request' \in [ Requests -> Request ] /\ request'[h] = v
           /\ \A g \in Requests \ { h } : request'[g] = request[g]
BY DEF CacheTypeOK

LEMMA RequestMoves ==
    ASSUME CacheInv, NEW h \in Requests, NEW v \in Request,
           request' = [ request EXCEPT ![h] = v ], UNCHANGED <<db, cache, settled>>,
           FlightOK(v, db[v.user], settled[v.user]),
           \A k \in CacheKeys : ~Ousted(v, k),
           \A g \in Requests, k \in CacheKeys :
              Ousted(request[g], k) /\ request[g].user = v.user => ReadAbove(v, request[g].found)
    PROVE  CacheInv'
<1>1. CacheTypeOK
    BY DEF CacheInv
<1>2. CacheTypeOK'
    BY <1>1, RequestType DEF CacheTypeOK
<1>3. \A g \in Requests : request'[g] = request[g] \/ Arrived(request'[g])
    BY <1>1, RequestType DEF Arrived
<1>4. \A u \in People : db'[u] = db[u] \/ (Grows(db[u], db'[u]) /\ RowOK(db'[u], settled[u]))
  <2>1. \A u \in People : db'[u] = db[u]
      OBVIOUS
  <2> QED
      BY <2>1
<1>5. \A k \in CacheKeys, u \in People :
          cache'[k][u] # Missing => /\ cache[k][u] # Missing
                                    /\ cache'[k][u].user = cache[k][u].user
                                    /\ cache'[k][u].raced = cache[k][u].raced
    OBVIOUS
<1>6. settled' = settled
    OBVIOUS
<1> HIDE DEF CacheInv
<1> QED
    BY <1>2, <1>3, <1>4, <1>5, <1>6, OthersKeepInv

\* A request that has read nothing and deletes nothing is nobody's concern.
LEMMA Unconcerned ==
    ASSUME NEW v, v.pc \in { "idle", "row", "forgetOld", "write" },
           v.pc = "forgetOld" => v.keys # <<>>
    PROVE  /\ \A row, left : FlightOK(v, row, left)
           /\ \A k : ~Ousted(v, k) /\ \A w : ReadAbove(v, w)
BY DEF FlightOK, Ousted, ReadAbove

LEMMA UnconcernedMoves ==
    ASSUME CacheInv, NEW h \in Requests, NEW v \in Request,
           request' = [ request EXCEPT ![h] = v ], UNCHANGED <<db, cache, settled>>,
           v.pc \in { "idle", "row", "forgetOld", "write" },
           v.pc = "forgetOld" => v.keys # <<>>
    PROVE  CacheInv'
<1>1. /\ FlightOK(v, db[v.user], settled[v.user])
      /\ \A k \in CacheKeys : ~Ousted(v, k)
      /\ \A g \in Requests : ReadAbove(v, request[g].found)
    BY Unconcerned
<1> QED
    BY <1>1, RequestMoves

LEMMA ArrivesInv ==
    ASSUME CacheInv, NEW h \in Requests, Arrives(h)
    PROVE  CacheInv'
<1>1. CacheTypeOK
    BY DEF CacheInv
<1>2. ASSUME NEW u \in People, NEW k \in CacheKeys, Miss(h, k, u) PROVE CacheInv'
  <2>1. New(k, u, "row") \in Request /\ New(k, u, "row").pc = "row"
      BY NewType DEF CacheKeys
  <2> QED
      BY <1>2, <2>1, UnconcernedMoves DEF Miss, Begin
<1>3. ASSUME NEW u \in People, StartCreate(h, u) PROVE CacheInv'
  <2>1. New("create", u, "write") \in Request /\ New("create", u, "write").pc = "write"
      BY NewType
  <2>2. ASSUME Cached("byUUID", u)
        PROVE  LET v == [ New("create", u, "forgetOld") EXCEPT
                             !.keys = KeysOf(cache["byUUID"][u].user) ]
               IN  v \in Request /\ v.pc = "forgetOld" /\ v.keys # <<>>
    <3>1. cache["byUUID"][u].user \in Contents
        BY <1>1, <2>2 DEF CacheTypeOK, CacheKeys, Cached, Entry
    <3>2. KeysOf(cache["byUUID"][u].user) \in Seq(CacheKeys) /\ KeysOf(cache["byUUID"][u].user) # <<>>
        BY <3>1, KeysAre
    <3>3. New("create", u, "forgetOld") \in Request /\ New("create", u, "forgetOld").pc = "forgetOld"
        BY NewType
    <3> QED
        BY <3>2, <3>3 DEF Request
  <2> QED
      BY <1>3, <2>1, <2>2, UnconcernedMoves DEF StartCreate, Begin
<1>4. ASSUME NEW u \in People, StartUpdate(h, u) PROVE CacheInv'
  <2> DEFINE keys == IF Cached("byID", u) THEN KeysOf(cache["byID"][u].user) ELSE <<>>
  <2>1. keys \in Seq(CacheKeys)
    <3>1. Cached("byID", u) => cache["byID"][u].user \in Contents
        BY <1>1 DEF CacheTypeOK, CacheKeys, Cached, Entry
    <3> QED
        BY <3>1, KeysAre
  <2> HIDE DEF keys
  <2>2. New("update", u, "write") \in Request /\ New("update", u, "write").pc = "write"
      BY NewType
  <2>3. [ New("update", u, "write") EXCEPT !.keys = keys ] \in Request
        /\ [ New("update", u, "write") EXCEPT !.keys = keys ].pc = "write"
      BY <2>1, <2>2 DEF Request
  <2>4. request' = [ request EXCEPT ![h] = [ New("update", u, "write") EXCEPT !.keys = keys ] ]
        /\ UNCHANGED <<db, cache, settled>>
      BY <1>4 DEF StartUpdate, Begin, keys
  <2> QED
      BY <2>3, <2>4, UnconcernedMoves
<1> QED
    BY <1>2, <1>3, <1>4 DEF Arrives

LEMMA ReadRowInv ==
    ASSUME CacheInv, NEW h \in Requests, ReadRow(h)
    PROVE  CacheInv'
<1> DEFINE q == request[h]
           row == db[q.user]
<1>1. q \in Request /\ q.user \in People /\ row \in Contents \cup { Missing } /\ RowOK(row, settled[q.user])
      /\ settled[q.user] \in Versions
    BY OneRequest
<1>2. CASE Selects(q.op, q.user)
  <2> DEFINE found == [ row EXCEPT !.teams = 0 ]
             v == [ q EXCEPT !.pc = "teams", !.found = found ]
  <2>1. row # Missing /\ row \in Contents
      BY <1>1, <1>2 DEF Selects
  <2>2. found \in Contents /\ found.uuid = row.uuid /\ found.row = row.row /\ found.teams = 0
      BY <2>1, CacheAssumption DEF Contents
  <2> HIDE DEF found
  <2>3. v \in Request /\ v.pc = "teams" /\ v.user = q.user /\ v.found = found
      BY <1>1, <2>2 DEF Request
  <2>4. request' = [ request EXCEPT ![h] = v ] /\ UNCHANGED <<db, cache, settled>>
      BY <1>1, <1>2 DEF ReadRow, found, CacheInv, CacheTypeOK, Request
  <2>5. FlightOK(v, row, settled[q.user])
      BY <1>1, <2>1, <2>2, <2>3 DEF FlightOK, ReadAbove, RowOK, Newer, Contents
  <2>6. ASSUME NEW g \in Requests, NEW k \in CacheKeys, Ousted(request[g], k), request[g].user = q.user
        PROVE  ReadAbove(v, request[g].found)
    <3>1. Newer(row, request[g].found)
        BY <2>6, OneRequest DEF FlightOK, Ousted
    <3> QED
        BY <2>2, <2>3, <3>1 DEF ReadAbove, Newer
  <2>7. \A k \in CacheKeys : ~Ousted(v, k)
      BY <2>3 DEF Ousted
  <2> HIDE DEF v
  <2> QED
      BY <2>3, <2>4, <2>5, <2>6, <2>7, RequestMoves
<1>3. CASE ~Selects(q.op, q.user)
    BY <1>3, NoRequestType, UnconcernedMoves DEF ReadRow, End
<1> QED
    BY <1>2, <1>3

LEMMA ReadTeamsInv ==
    ASSUME CacheInv, NEW h \in Requests, ReadTeams(h)
    PROVE  CacheInv'
<1> DEFINE q == request[h]
           row == db[q.user]
           found == [ q.found EXCEPT !.teams = row.teams ]
           keys == KeysOf(q.found)
           v == [ q EXCEPT !.pc = "remember", !.found = found, !.keys = keys ]
<1>1. q \in Request /\ q.user \in People /\ row \in Contents \cup { Missing } /\ RowOK(row, settled[q.user])
      /\ q.found \in Contents /\ settled[q.user] \in Versions /\ FlightOK(q, row, settled[q.user])
      /\ q.pc = "teams"
    BY OneRequest DEF ReadTeams
<1>2. row # Missing /\ row \in Contents /\ q.found.uuid = row.uuid /\ Newer(row, q.found)
    BY <1>1 DEF FlightOK
<1>3. found \in Contents /\ found.uuid = q.found.uuid /\ found.row = q.found.row /\ found.teams = row.teams
    BY <1>1, <1>2 DEF Contents
<1>4. keys \in Seq(CacheKeys) /\ keys # <<>> /\ \A i \in 1..Len(keys) : Fits(found, keys[i])
    BY <1>1, <1>3, KeysAre DEF Fits
<1> HIDE DEF found, keys
<1>5. v \in Request /\ v.pc = "remember" /\ v.user = q.user /\ v.found = found /\ v.keys = keys /\ v.raced = q.raced
    BY <1>1, <1>3, <1>4 DEF Request
<1>6. request' = [ request EXCEPT ![h] = v ] /\ UNCHANGED <<db, cache, settled>>
    BY <1>1 DEF ReadTeams, found, keys, CacheInv, CacheTypeOK, Request
<1>7. FlightOK(v, row, settled[q.user])
  <2>1. Newer(row, found)
      BY <1>2, <1>3 DEF Newer, Contents
  <2>2. ReadAbove(v, settled[q.user])
      BY <1>1, <1>2, <1>3, <1>5 DEF FlightOK, ReadAbove, RowOK, Newer
  <2> QED
      BY <1>2, <1>3, <1>4, <1>5, <2>1, <2>2 DEF FlightOK
<1>8. ASSUME NEW g \in Requests, NEW k \in CacheKeys, Ousted(request[g], k), request[g].user = q.user
      PROVE  ReadAbove(v, request[g].found)
  <2>1. Newer(row, request[g].found)
      BY <1>8, OneRequest DEF FlightOK, Ousted
  <2>2. ReadAbove(q, request[g].found)
      BY <1>8, OneRequest DEF OustedOK
  <2> QED
      BY <1>1, <1>3, <1>5, <2>1, <2>2 DEF ReadAbove, Newer
<1>9. \A k \in CacheKeys : ~Ousted(v, k)
    BY <1>5 DEF Ousted
<1> HIDE DEF v
<1> QED
    BY <1>5, <1>6, <1>7, <1>8, <1>9, RequestMoves

LEMMA ReadBackInv ==
    ASSUME CacheInv, NEW h \in Requests, ReadBack(h)
    PROVE  CacheInv'
<1> DEFINE q == request[h]
           keys == KeysToForget(q)
           v == [ q EXCEPT !.pc = "forget", !.keys = keys ]
<1>1. /\ q \in Request /\ q.user \in People /\ q.found \in Contents /\ q.keys \in Seq(CacheKeys)
      /\ FlightOK(q, db[q.user], settled[q.user]) /\ q.pc = "read back"
    BY OneRequest DEF ReadBack
<1>2. keys \in Seq(CacheKeys) /\ keys # <<>> /\ \A k \in CacheKeys : Fits(q.found, k) => Left(keys, k)
    BY <1>1, KeysAre, BothLeft DEF KeysToForget
<1> HIDE DEF keys
<1>3. v \in Request /\ v.pc = "forget" /\ v.user = q.user /\ v.found = q.found /\ v.keys = keys
    BY <1>1, <1>2 DEF Request
<1>4. request' = [ request EXCEPT ![h] = v ] /\ UNCHANGED <<db, cache, settled>>
    BY <1>1 DEF ReadBack, keys, CacheInv, CacheTypeOK, Request
<1> HIDE DEF v
<1>5. FlightOK(v, db[q.user], settled[q.user])
    BY <1>1, <1>2, <1>3 DEF FlightOK, ReadAbove
<1>6. \A k \in CacheKeys : ~Ousted(v, k)
    BY <1>2, <1>3 DEF Ousted
<1>7. \A w : ReadAbove(v, w)
    BY <1>3 DEF ReadAbove
<1> QED
    BY <1>3, <1>4, <1>5, <1>6, <1>7, RequestMoves

\* What a transaction leaves of a row.
LEMMA CommittedRow ==
    ASSUME CacheInv, NEW u \in People, NEW op \in { "byID", "byUUID", "create", "update" },
           NEW c \in Committed(op, u), MayWrite(u)
    PROVE  c \in Contents /\ Grows(db[u], c) /\ RowOK(c, settled[u])
<1>1. /\ db[u] \in Contents \cup { Missing } /\ settled[u] \in Versions /\ RowOK(db[u], settled[u])
    BY DEF CacheInv, CacheTypeOK
<1>2. CASE db[u] = Missing
  <2>1. c = NewUser
      BY <1>2 DEF Committed
  <2>2. c \in Contents /\ c.row = 0 /\ c.teams = 0
      BY <2>1, NoRequestType DEF NewUser
  <2> QED
      BY <1>1, <1>2, <2>2, CacheAssumption DEF Grows, RowOK, Newer
<1>3. CASE db[u] # Missing
  <2> DEFINE old == db[u]
  <2>1. old \in Contents /\ old.row < MaxWrites /\ old.teams <= old.row /\ Newer(old, settled[u])
      BY <1>1, <1>3 DEF MayWrite, RowOK
  <2>2. PICK s \in { "ACTIVE", "INACTIVE" }, t \in { old.teams, old.row + 1 } :
            c = [ old EXCEPT !.status = s, !.row = @ + 1, !.teams = t ]
    <3>1. CASE op = "create"
      <4>1. c = [ old EXCEPT !.row = @ + 1 ]
          BY <1>3, <3>1 DEF Committed
      <4>2. old.status \in { "ACTIVE", "INACTIVE" }
            /\ c = [ old EXCEPT !.status = old.status, !.row = @ + 1, !.teams = old.teams ]
          BY <2>1, <4>1 DEF Contents
      <4> QED
          BY <4>2
    <3>2. CASE op # "create"
        BY <1>3, <3>2 DEF Committed
    <3> QED
        BY <3>1, <3>2
  <2>3. old.row + 1 \in 0..MaxWrites /\ t \in 0..MaxWrites /\ t >= old.teams /\ t <= old.row + 1
      BY <2>1, CacheAssumption DEF Contents
  <2>4. c \in Contents /\ c.uuid = old.uuid /\ c.row = old.row + 1 /\ c.teams = t
      BY <2>1, <2>2, <2>3 DEF Contents
  <2>5. c # Missing
      BY <2>4, CacheAssumption
  <2> HIDE DEF old
  <2>6. Newer(c, old)
      BY <2>1, <2>3, <2>4 DEF Newer, Contents
  <2>7. Newer(c, settled[u]) /\ c.teams <= c.row
      BY <1>1, <2>1, <2>3, <2>4 DEF Newer, Contents, Versions
  <2> QED
      BY <2>4, <2>5, <2>6, <2>7 DEF Grows, RowOK, old
<1> QED
    BY <1>2, <1>3

\* A step that commits a row.
LEMMA CommitInv ==
    ASSUME CacheInv, NEW u \in People, NEW op \in { "byID", "byUUID", "create", "update" },
           NEW c \in Committed(op, u), MayWrite(u), db' = [ db EXCEPT ![u] = c ],
           UNCHANGED <<cache, settled>>, request' \in [ Requests -> Request ],
           \A h \in Requests : request'[h] = request[h] \/ Arrived(request'[h])
    PROVE  CacheInv'
<1>1. CacheTypeOK
    BY DEF CacheInv
<1>2. c \in Contents /\ Grows(db[u], c) /\ RowOK(c, settled[u])
    BY CommittedRow
<1>3. CacheTypeOK'
    BY <1>1, <1>2 DEF CacheTypeOK
<1>4. \A w \in People : db'[w] = db[w] \/ (Grows(db[w], db'[w]) /\ RowOK(db'[w], settled[w]))
    BY <1>1, <1>2 DEF CacheTypeOK
<1>5. \A k \in CacheKeys, w \in People :
          cache'[k][w] # Missing => /\ cache[k][w] # Missing
                                    /\ cache'[k][w].user = cache[k][w].user
                                    /\ cache'[k][w].raced = cache[k][w].raced
  <2>1. cache' = cache
      OBVIOUS
  <2> QED
      BY <2>1
<1>6. settled' = settled
    OBVIOUS
<1> QED
    BY <1>3, <1>4, <1>5, <1>6, OthersKeepInv

LEMMA WriteInv ==
    ASSUME CacheInv, NEW h \in Requests, Write(h)
    PROVE  CacheInv'
<1> DEFINE q == request[h]
<1>1. CacheTypeOK /\ q \in Request /\ q.user \in People /\ q.pc = "write"
      /\ q.op \in { "byID", "byUUID", "create", "update" } /\ MayWrite(q.user) /\ UNCHANGED <<cache, settled>>
    BY OneRequest DEF Write, CacheInv, Request
<1>2. PICK c \in Committed(q.op, q.user) :
          /\ db' = [ db EXCEPT ![q.user] = c ]
          /\ request' = [ request EXCEPT ![h].pc = "read back", ![h].found = c ]
    BY DEF Write
<1>3. c \in Contents /\ c # Missing
    BY <1>1, <1>2, CommittedRow DEF Grows
<1> DEFINE v == [ q EXCEPT !.pc = "read back", !.found = c ]
<1>4. v \in Request /\ v.pc = "read back" /\ v.user = q.user /\ v.found = c
    BY <1>1, <1>3 DEF Request
<1>5. request' = [ request EXCEPT ![h] = v ]
    BY <1>1, <1>2 DEF CacheTypeOK, Request
<1> HIDE DEF v
<1>6. request' \in [ Requests -> Request ] /\ request'[h] = v /\ \A g \in Requests \ { h } : request'[g] = request[g]
    BY <1>1, <1>4, <1>5, RequestType
<1>7. db'[q.user] = c
    BY <1>1, <1>2 DEF CacheTypeOK
<1>8. Arrived(v)
  <2>1. FlightOK(v, c, settled[q.user])
    <3>1. Newer(c, c)
        BY <1>3 DEF Newer, Contents
    <3> QED
        BY <1>3, <1>4, <3>1 DEF FlightOK, ReadAbove
  <2> QED
      BY <1>4, <1>7, <2>1 DEF Arrived, Ousted, ReadAbove
<1> QED
    BY <1>1, <1>2, <1>6, <1>8, CommitInv

LEMMA WriteElsewhereInv ==
    ASSUME CacheInv, NEW u \in People, WriteElsewhere(u)
    PROVE  CacheInv'
<1>1. PICK op \in { "create", "update" } : \E c \in Committed(op, u) : db' = [ db EXCEPT ![u] = c ]
    BY DEF WriteElsewhere
<1>2. MayWrite(u) /\ request' = request /\ UNCHANGED <<cache, settled>> /\ request \in [ Requests -> Request ]
    BY DEF WriteElsewhere, CacheInv, CacheTypeOK
<1> QED
    BY <1>1, <1>2, CommitInv

-----------------------------------------------------------------------------

LEMMA TickInv ==
    ASSUME CacheInv, Tick
    PROVE  CacheInv'
<1>1. CacheTypeOK
    BY DEF CacheInv
<1>2. ASSUME NEW k \in CacheKeys, NEW u \in People, cache'[k][u] # Missing
      PROVE  /\ cache'[k][u] \in Entry /\ cache[k][u] # Missing
             /\ cache'[k][u].user = cache[k][u].user /\ cache'[k][u].raced = cache[k][u].raced
  <2>1. cache'[k][u] = Aged(cache[k][u]) /\ cache[k][u] \in Entry \cup { Missing }
      BY <1>1, <1>2 DEF Tick, CacheTypeOK
  <2>2. cache[k][u] # Missing /\ cache[k][u] \in Entry /\ cache[k][u].left # 1
        /\ cache'[k][u] = [ cache[k][u] EXCEPT !.left = @ - 1 ]
      BY <1>2, <2>1 DEF Aged
  <2>3. cache[k][u].left \in 1..TTL /\ cache[k][u].left - 1 \in 1..TTL
      BY <2>2, CacheAssumption DEF Entry
  <2> QED
      BY <2>2, <2>3 DEF Entry
<1>3. cache' \in [ CacheKeys -> [ People -> Entry \cup { Missing } ] ]
    BY <1>2 DEF Tick
<1>4. CacheTypeOK'
    BY <1>1, <1>3 DEF Tick, CacheTypeOK
<1>5. settled' = settled /\ db' = db /\ request' = request
    BY DEF Tick
<1> QED
    BY <1>2, <1>4, <1>5, OthersKeepInv

LEMMA RestartInv ==
    ASSUME CacheInv, Restart
    PROVE  CacheInv'
<1>1. CacheTypeOK
    BY DEF CacheInv
<1>2. \A k \in CacheKeys, u \in People : cache'[k][u] = Missing
    BY DEF Restart, NothingCached
<1>3. \A h \in Requests : request'[h] = NoRequest
    BY DEF Restart
<1>4. CacheTypeOK'
    BY <1>1, NoRequestType DEF Restart, NothingCached, CacheTypeOK
<1>5. Arrived(NoRequest)
    BY NoRequestType, Unconcerned DEF Arrived
<1>6. settled' = settled /\ db' = db
    BY DEF Restart
<1> QED
    BY <1>2, <1>3, <1>4, <1>5, <1>6, OthersKeepInv

-----------------------------------------------------------------------------
(* The steps on the cache. *)

LEMMA RememberInv ==
    ASSUME CacheInv, NEW h \in Requests, Remember(h)
    PROVE  CacheInv'
<1> DEFINE q == request[h]
           key == Head(q.keys)
           entry == [ user |-> q.found, left |-> TTL, raced |-> q.raced ]
           next == request'[h]
<1>1. /\ CacheTypeOK /\ q \in Request /\ q.user \in People /\ q.pc = "remember" /\ q.found \in Contents
      /\ q.keys \in Seq(CacheKeys) /\ FlightOK(q, db[q.user], settled[q.user])
      /\ UNCHANGED <<db, settled>> /\ cache' = [ cache EXCEPT ![key][q.user] = entry ]
    BY OneRequest DEF Remember, CacheInv
<1>2. /\ q.keys # <<>> /\ key = q.keys[1] /\ key \in CacheKeys /\ 1 \in 1..Len(q.keys)
      /\ Tail(q.keys) \in Seq(CacheKeys) /\ (Len(q.keys) # 1 => Tail(q.keys) # <<>>)
      /\ \A i \in 1..Len(Tail(q.keys)) : i + 1 \in 1..Len(q.keys) /\ Tail(q.keys)[i] = q.keys[i + 1]
    BY <1>1, TailLeft DEF FlightOK
<1>3. entry \in Entry /\ entry.user = q.found /\ entry.raced = q.raced
  <2>1. q.raced \in BOOLEAN
      BY <1>1 DEF Request
  <2>2. TTL \in 1..TTL
      BY CacheAssumption
  <2> QED
      BY <1>1, <2>1, <2>2 DEF Entry
<1> HIDE DEF key, entry
<1>4. /\ cache' \in [ CacheKeys -> [ People -> Entry \cup { Missing } ] ]
      /\ cache'[key][q.user] = entry
      /\ \A k \in CacheKeys, u \in People : k # key \/ u # q.user => cache'[k][u] = cache[k][u]
    BY <1>1, <1>2, <1>3 DEF CacheTypeOK
<1> DEFINE v == IF Len(q.keys) = 1 THEN NoRequest ELSE [ q EXCEPT !.keys = Tail(q.keys) ]
<1>5. /\ v \in Request
      /\ \/ v = NoRequest
         \/ /\ v.pc = "remember" /\ v.user = q.user /\ v.found = q.found /\ v.raced = q.raced
            /\ v.keys = Tail(q.keys) /\ Len(q.keys) # 1
    BY <1>1, <1>2, NoRequestType DEF Request
<1>6. request' = [ request EXCEPT ![h] = v ]
    BY <1>1 DEF Remember, End, CacheTypeOK, Request
<1> HIDE DEF v
<1>7. request' \in [ Requests -> Request ] /\ request'[h] = v /\ \A g \in Requests \ { h } : request'[g] = request[g]
    BY <1>1, <1>5, <1>6, RequestType
<1>8. CacheTypeOK'
    BY <1>1, <1>4, <1>7 DEF CacheTypeOK
<1>9. /\ FlightOK(v, db[v.user], settled[v.user]) /\ \A k \in CacheKeys : ~Ousted(v, k)
      /\ \A g \in Requests, k \in CacheKeys :
            Ousted(request[g], k) /\ request[g].user = v.user => ReadAbove(v, request[g].found)
  <2>1. CASE v = NoRequest
      BY <2>1, NoRequestType, Unconcerned
  <2>2. CASE v # NoRequest
    <3>1. \A w : ReadAbove(v, w) <=> ReadAbove(q, w)
        BY <1>1, <1>5, <2>2 DEF ReadAbove
    <3>2. FlightOK(v, db[v.user], settled[v.user])
        BY <1>1, <1>2, <1>5, <2>2, <3>1 DEF FlightOK
    <3>3. \A k \in CacheKeys : ~Ousted(v, k)
        BY <1>5, <2>2 DEF Ousted
    <3>4. ASSUME NEW g \in Requests, NEW k \in CacheKeys, Ousted(request[g], k), request[g].user = q.user
          PROVE  ReadAbove(q, request[g].found)
        BY <3>4, OneRequest DEF OustedOK
    <3> QED
        BY <1>5, <2>2, <3>1, <3>2, <3>3, <3>4
  <2> QED
      BY <2>1, <2>2
<1>10. ASSUME NEW k \in CacheKeys, NEW u \in People
       PROVE  EntryOK(cache[k][u], k, db[u], settled[u])'
  <2>1. CASE k = key /\ u = q.user
    <3>1. Fits(q.found, key) /\ db[u] # Missing /\ q.found.uuid = db[u].uuid
        BY <1>1, <1>2, <2>1 DEF FlightOK
    <3>2. KeptAbove(entry, settled[u])
        BY <1>1, <1>3, <2>1 DEF FlightOK, ReadAbove, KeptAbove, Newer
    <3> QED
        BY <1>1, <1>3, <1>4, <2>1, <3>1, <3>2 DEF EntryOK
  <2>2. CASE k # key \/ u # q.user
    <3>1. EntryOK(cache[k][u], k, db[u], settled[u])
        BY DEF CacheInv
    <3> QED
        BY <1>1, <1>4, <2>2, <3>1
  <2> QED
      BY <2>1, <2>2
<1>11. ASSUME NEW g \in Requests
       PROVE  FlightOK(request'[g], db'[request'[g].user], settled'[request'[g].user])
    BY <1>1, <1>7, <1>9, OneRequest
<1>12. ASSUME NEW p \in Requests, NEW k \in CacheKeys, Ousted(request'[p], k)
       PROVE  /\ KeptAbove(cache'[k][request'[p].user], request'[p].found)
              /\ \A g \in Requests :
                    request'[g].user = request'[p].user => ReadAbove(request'[g], request'[p].found)
  <2>1. request'[p] = request[p] /\ Ousted(request[p], k)
      BY <1>7, <1>9, <1>12
  <2>2. OustedOK(request[p], k) /\ request[p].user \in People
      BY OneRequest
  <2>3. KeptAbove(cache'[k][request[p].user], request[p].found)
    <3>1. CASE k = key /\ request[p].user = q.user
      <4>1. ReadAbove(q, request[p].found)
          BY <2>1, <2>2, <3>1 DEF OustedOK
      <4>2. KeptAbove(entry, request[p].found)
          BY <1>1, <1>3, <4>1 DEF ReadAbove, KeptAbove, Newer
      <4> QED
          BY <1>4, <3>1, <4>2
    <3>2. CASE k # key \/ request[p].user # q.user
        BY <1>4, <2>1, <2>2, <3>2 DEF OustedOK
    <3> QED
        BY <3>1, <3>2
  <2>4. ASSUME NEW g \in Requests, request'[g].user = request[p].user
        PROVE  ReadAbove(request'[g], request[p].found)
      BY <1>7, <1>9, <2>1, <2>2, <2>4 DEF OustedOK
  <2> QED
      BY <2>1, <2>3, <2>4
<1>13. \A u \in People : RowOK(db[u], settled[u])'
    BY <1>1 DEF CacheInv
<1> QED
    BY <1>8, <1>10, <1>11, <1>12, <1>13 DEF CacheInv, OustedOK

LEMMA ForgetOldInv ==
    ASSUME CacheInv, NEW h \in Requests, ForgetOld(h)
    PROVE  CacheInv'
<1> DEFINE q == request[h]
           v == [ q EXCEPT !.keys = Tail(@), !.pc = IF Len(q.keys) = 1 THEN "write" ELSE @ ]
<1>1. /\ CacheTypeOK /\ q \in Request /\ q.user \in People /\ q.pc = "forgetOld"
      /\ q.keys \in Seq(CacheKeys) /\ q.keys # <<>>
      /\ UNCHANGED <<db, settled>> /\ cache' = Forgotten(q)
    BY OneRequest DEF ForgetOld, CacheInv, FlightOK
<1>2. Head(q.keys) \in CacheKeys /\ Tail(q.keys) \in Seq(CacheKeys) /\ (Len(q.keys) # 1 => Tail(q.keys) # <<>>)
    BY <1>1, TailLeft
<1>3. v \in Request /\ v.pc \in { "write", "forgetOld" } /\ (v.pc = "forgetOld" => v.keys # <<>>)
    BY <1>1, <1>2 DEF Request
<1>4. request' = [ request EXCEPT ![h] = v ]
    BY <1>1 DEF ForgetOld, CacheTypeOK, Request
<1> HIDE DEF v
<1>5. request' \in [ Requests -> Request ] /\ request'[h] = v /\ \A g \in Requests \ { h } : request'[g] = request[g]
    BY <1>1, <1>3, <1>4, RequestType
<1>6. /\ cache' \in [ CacheKeys -> [ People -> Entry \cup { Missing } ] ]
      /\ \A k \in CacheKeys, u \in People : cache'[k][u] # Missing => cache'[k][u] = cache[k][u]
    BY <1>1, <1>2 DEF Forgotten, CacheTypeOK
<1>7. CacheTypeOK'
    BY <1>1, <1>5, <1>6 DEF CacheTypeOK
<1>8. Arrived(v)
    BY <1>3, Unconcerned DEF Arrived
<1>9. settled' = settled /\ db' = db
    BY <1>1
<1> QED
    BY <1>5, <1>6, <1>7, <1>8, <1>9, OthersKeepInv

LEMMA ForgetInv ==
    ASSUME CacheInv, NEW h \in Requests, Forget(h)
    PROVE  CacheInv'
<1> DEFINE q == request[h]
           key == Head(q.keys)
           done == Len(q.keys) = 1
<1>1. /\ CacheTypeOK /\ q \in Request /\ q.user \in People /\ q.pc = "forget" /\ q.found \in Contents
      /\ q.keys \in Seq(CacheKeys) /\ FlightOK(q, db[q.user], settled[q.user])
      /\ cache' = Forgotten(q) /\ db' = db
    BY OneRequest DEF Forget, CacheInv
<1>2. /\ q.keys # <<>> /\ key = q.keys[1] /\ key \in CacheKeys
      /\ Tail(q.keys) \in Seq(CacheKeys) /\ (~done => Tail(q.keys) # <<>>)
      /\ \A k \in CacheKeys \ { key } : Left(q.keys, k) => Left(Tail(q.keys), k)
      /\ \A k \in CacheKeys \ { key } : done => ~Left(q.keys, k)
  <2>1. q.keys # <<>>
      BY <1>1 DEF FlightOK
  <2>2. /\ key = q.keys[1] /\ key \in CacheKeys
        /\ Tail(q.keys) \in Seq(CacheKeys) /\ (~done => Tail(q.keys) # <<>>)
        /\ \A k \in CacheKeys \ { key } : Left(q.keys, k) => Left(Tail(q.keys), k)
      BY <1>1, <2>1, TailLeft
  <2>3. ASSUME NEW k \in CacheKeys \ { key }, done PROVE ~Left(q.keys, k)
      BY <2>2, <2>3 DEF Left
  <2> QED
      BY <2>1, <2>2, <2>3
<1>3. /\ cache' \in [ CacheKeys -> [ People -> Entry \cup { Missing } ] ]
      /\ cache'[key][q.user] = Missing
      /\ \A k \in CacheKeys, u \in People : k # key \/ u # q.user => cache'[k][u] = cache[k][u]
    BY <1>1, <1>2 DEF Forgotten, CacheTypeOK
<1>4. /\ request'[h] = IF done THEN NoRequest ELSE [ q EXCEPT !.keys = Tail(q.keys) ]
      /\ \A g \in Requests \ { h } :
            request'[g] = [ request[g] EXCEPT !.raced = @ \/ Overtaken(g, q) ]
      /\ request' = [ g \in Requests |-> request'[g] ]
    BY DEF Forget
<1>5. /\ request'[h] \in Request
      /\ \/ request'[h] = NoRequest
         \/ /\ ~done /\ request'[h].pc = "forget" /\ request'[h].user = q.user
            /\ request'[h].found = q.found /\ request'[h].keys = Tail(q.keys)
    BY <1>1, <1>2, <1>4, NoRequestType DEF Request
<1>6. ASSUME NEW g \in Requests \ { h }
      PROVE  /\ request'[g] \in Request
             /\ request'[g].pc = request[g].pc /\ request'[g].user = request[g].user
             /\ request'[g].found = request[g].found /\ request'[g].keys = request[g].keys
             /\ \A w : ReadAbove(request[g], w) => ReadAbove(request'[g], w)
             /\ request[g].user = q.user => \A w : ReadAbove(request'[g], w)
  <2>1. request[g] \in Request
      BY <1>6, OneRequest
  <2>2. request[g].raced \in BOOLEAN /\ Overtaken(g, q) \in BOOLEAN
      BY <2>1 DEF Request, Overtaken
  <2>3. request'[g] \in Request
      BY <1>4, <1>6, <2>1, <2>2 DEF Request
  <2>4. /\ request'[g].pc = request[g].pc /\ request'[g].user = request[g].user
        /\ request'[g].found = request[g].found /\ request'[g].keys = request[g].keys
        /\ request'[g].raced = (request[g].raced \/ Overtaken(g, q))
      BY <1>4, <1>6, <2>1 DEF Request
  <2> QED
      BY <2>3, <2>4 DEF ReadAbove, Overtaken
<1>7. \A w : ReadAbove(request'[h], w)
    BY <1>5, NoRequestType DEF ReadAbove
<1>8. /\ \A u \in People : settled'[u] = settled[u] \/ (u = q.user /\ done /\ settled'[u].row = q.found.row
                                                        /\ settled'[u].teams = q.found.teams)
      /\ settled' \in [ People -> Versions ]
  <2>1. [ row |-> q.found.row, teams |-> q.found.teams ] \in Versions
      BY <1>1 DEF Contents, Versions
  <2> QED
      BY <1>1, <2>1 DEF Forget, CacheTypeOK
<1> HIDE DEF key, done
<1>9. CacheTypeOK'
  <2>1. request' \in [ Requests -> Request ]
      BY <1>4, <1>5, <1>6
  <2> QED
      BY <1>1, <1>3, <1>8, <2>1 DEF CacheTypeOK
<1>10. Newer(db[q.user], q.found) /\ db[q.user] # Missing /\ q.found.uuid = db[q.user].uuid
    BY <1>1 DEF FlightOK
<1>11. ASSUME NEW u \in People PROVE RowOK(db[u], settled[u])'
  <2>1. RowOK(db[u], settled[u])
      BY DEF CacheInv
  <2> QED
      BY <1>1, <1>8, <1>10, <2>1 DEF RowOK, Newer
<1>12. ASSUME NEW k \in CacheKeys, NEW u \in People
       PROVE  EntryOK(cache[k][u], k, db[u], settled[u])'
  <2>1. EntryOK(cache[k][u], k, db[u], settled[u])
      BY DEF CacheInv
  <2>2. CASE k = key /\ u = q.user
      BY <1>3, <2>2 DEF EntryOK, KeptAbove
  <2>3. CASE u # q.user
      BY <1>1, <1>3, <1>8, <2>1, <2>3
  <2>4. CASE k # key /\ u = q.user
    <3>1. cache'[k][u] = cache[k][u]
        BY <1>3, <2>4
    <3>2. CASE settled'[u] = settled[u]
        BY <1>1, <2>1, <3>1, <3>2
    <3>3. CASE done /\ settled'[u].row = q.found.row /\ settled'[u].teams = q.found.teams
      <4>1. ASSUME cache[k][u] # Missing PROVE KeptAbove(cache[k][u], q.found)
        <5>1. Fits(q.found, k)
            BY <1>10, <2>1, <2>4, <4>1 DEF EntryOK, Fits
        <5>2. ~Left(q.keys, k)
            BY <1>2, <2>4, <3>3
        <5> QED
            BY <1>1, <2>4, <5>1, <5>2, OneRequest DEF OustedOK, Ousted
      <4>2. KeptAbove(cache[k][u], settled'[u])
          BY <3>3, <4>1 DEF KeptAbove, Newer
      <4> QED
          BY <1>1, <2>1, <3>1, <4>2 DEF EntryOK
    <3> QED
        BY <1>8, <3>2, <3>3
  <2> QED
      BY <2>2, <2>3, <2>4
<1>13. ASSUME NEW g \in Requests
       PROVE  FlightOK(request'[g], db'[request'[g].user], settled'[request'[g].user])
  <2>1. CASE g = h
    <3>1. CASE request'[h] = NoRequest
        BY <2>1, <3>1, NoRequestType, Unconcerned
    <3>2. CASE request'[h] # NoRequest
        BY <1>1, <1>2, <1>5, <1>7, <2>1, <3>2 DEF FlightOK
    <3> QED
        BY <3>1, <3>2
  <2>2. CASE g # h
    <3>1. FlightOK(request[g], db[request[g].user], settled[request[g].user]) /\ request[g].user \in People
        BY OneRequest
    <3>2. ReadAbove(request'[g], settled'[request[g].user])
        BY <1>6, <1>8, <2>2, <3>1 DEF FlightOK
    <3> QED
        BY <1>1, <1>6, <2>2, <3>1, <3>2 DEF FlightOK
  <2> QED
      BY <2>1, <2>2
<1>14. ASSUME NEW p \in Requests, NEW k \in CacheKeys, Ousted(request'[p], k)
       PROVE  /\ KeptAbove(cache'[k][request'[p].user], request'[p].found)
              /\ \A g \in Requests :
                    request'[g].user = request'[p].user => ReadAbove(request'[g], request'[p].found)
  <2>1. CASE p = h
    <3>1. /\ request'[h].user = q.user /\ request'[h].found = q.found
          /\ Fits(q.found, k) /\ ~Left(Tail(q.keys), k)
        BY <1>5, <1>14, <2>1, NoRequestType DEF Ousted
    <3>2. KeptAbove(cache'[k][q.user], q.found)
      <4>1. CASE k = key
          BY <1>3, <4>1 DEF KeptAbove
      <4>2. CASE k # key
        <5>1. Ousted(q, k)
            BY <1>1, <1>2, <3>1, <4>2 DEF Ousted
        <5> QED
            BY <1>1, <1>3, <4>2, <5>1, OneRequest DEF OustedOK
      <4> QED
          BY <4>1, <4>2
    <3>3. ASSUME NEW g \in Requests, request'[g].user = q.user PROVE ReadAbove(request'[g], q.found)
        BY <1>6, <1>7, <3>3
    <3> QED
        BY <2>1, <3>1, <3>2, <3>3
  <2>2. CASE p # h
    <3>1. /\ request'[p].user = request[p].user /\ request'[p].found = request[p].found
          /\ Ousted(request[p], k) /\ request[p].user \in People
        BY <1>6, <1>14, <2>2, OneRequest DEF Ousted
    <3>2. OustedOK(request[p], k)
        BY OneRequest
    <3>3. KeptAbove(cache'[k][request[p].user], request[p].found)
      <4>1. KeptAbove(cache[k][request[p].user], request[p].found)
          BY <3>1, <3>2 DEF OustedOK
      <4> QED
          BY <1>3, <3>1, <4>1 DEF KeptAbove
    <3>4. ASSUME NEW g \in Requests, request'[g].user = request[p].user
          PROVE  ReadAbove(request'[g], request[p].found)
        BY <1>6, <1>7, <3>1, <3>2, <3>4 DEF OustedOK
    <3> QED
        BY <3>1, <3>3, <3>4
  <2> QED
      BY <2>1, <2>2
<1> QED
    BY <1>9, <1>11, <1>12, <1>13, <1>14 DEF CacheInv, OustedOK

-----------------------------------------------------------------------------

LEMMA CacheStep == CacheInv /\ [CacheNext]_cacheVars => CacheInv'
<1> SUFFICES ASSUME CacheInv, [CacheNext]_cacheVars PROVE CacheInv'
    OBVIOUS
<1>1. CASE UNCHANGED cacheVars
    BY <1>1
    DEF cacheVars, CacheInv, CacheTypeOK, OustedOK
<1>2. ASSUME NEW h \in Requests, Proceeds(h) PROVE CacheInv'
  <2>1. CASE QueryFails(h)
      BY <2>1, NoRequestType, UnconcernedMoves DEF QueryFails, End
  <2> QED
      BY <1>2, <2>1, ReadRowInv, ReadTeamsInv, RememberInv, ForgetOldInv, WriteInv, ReadBackInv, ForgetInv
      DEF Proceeds
<1> QED
    BY <1>1, <1>2, ArrivesInv, TickInv, WriteElsewhereInv, RestartInv DEF CacheNext

\* Rows only grow, entries and reads that nothing overtook are not older than what was
\* settled, and what a write has forgotten does not come back older than the write.
THEOREM CacheIsInvariant == CacheSpec => []CacheInv
BY CacheInitial, CacheStep, PTL DEF CacheSpec

\* Whatever the number of requests and of users and the TTL: a lookup after a write
\* this replica answered finds the write or a later one, unless the entry it hits was
\* on its way while the write was (remember and forget of cachedUserService).
THEOREM CacheShowsOwnWrites == CacheSpec => []OwnWriteIsSeen
<1>1. CacheInv => OwnWriteIsSeen
    BY DEF CacheInv, EntryOK, KeptAbove, Newer, OwnWriteIsSeen, Cached
<1> QED
    BY <1>1, CacheIsInvariant, PTL

=============================================================================
