--------------------------- MODULE DirectorySync ---------------------------
(***************************************************************************)
(* The Directory Status Sync of one server: every day, or when an admin     *)
(* triggers it, it asks the identity directory which platform users have    *)
(* been disabled there, tells the admins of each hub (audit, risk) which     *)
(* open work these people leave, and then sets their status to DISABLED.     *)
(*                                                                         *)
(* Internal users are looked up in a snapshot that is refreshed daily,       *)
(* external ones live.  Any call of a run can fail and the server can stop   *)
(* at any point; admins keep changing statuses and handing out work.         *)
(***************************************************************************)
EXTENDS Naturals, FiniteSets

CONSTANTS
    Users,
    External,       \* the users of the external organisation
    Holders,        \* who hold MANAGE_USERS
    Hubs,
    RecipientsOf,   \* [Hubs -> SUBSET Users], who may reassign a hub's work
    DeparturesPerRun,
    MaxTriggers,    \* bound: manual triggers
    MaxChanges,     \* bound: changes of the directory, of statuses, of work
    MaxFaults       \* bound: failed calls, restarts

ASSUME SyncAssumption ==
    /\ IsFiniteSet(Users) /\ IsFiniteSet(Hubs)
    /\ External \subseteq Users /\ Holders \subseteq Users
    /\ RecipientsOf \in [ Hubs -> SUBSET Users ]
    /\ DeparturesPerRun \in Nat /\ MaxTriggers \in Nat
    /\ MaxChanges \in Nat /\ MaxFaults \in Nat

VARIABLES
    status,      \* user.status
    dir,         \* what the directory knows of each account
    snap,        \* the snapshot: its age and its contents
    requests,    \* the admins' requests that have passed the privilege check
    work,        \* the hubs in which each user is named on open work
    run,         \* the run in progress
    told,        \* who has been told of this work, by user and hub
    again,       \* history: the users of whom a hub was told twice
    retry,       \* history: the users whom a run has left to the next one
    unguarded,   \* history: an admin was made inactive since the latest run chose
                 \* whom to spare, or it could not tell who the admins are
    late,        \* history: the users who got work after a run had looked
    triggers, changes, faults

vars == <<status, dir, snap, requests, work, run, told, again, retry, unguarded, late,
          triggers, changes, faults>>

Statuses == { "ACTIVE", "INACTIVE", "DISABLED" }
Enabled  == { "ACTIVE", "INACTIVE" }

\* Absent, or carrying no attribute: no information.
AccountStates == { "active", "disabled", "unknown" }

Internal == Users \ External

Run == [ pc : { "idle", "resolve", "spare", "gather", "notify", "write" },
         override : BOOLEAN,
         emails : BOOLEAN,                         \* EmailEnabled
         listed : [ Users -> Statuses ],           \* the users, as listed
         departed : SUBSET Users,                  \* still to be disabled
         hubWork : [ Users -> SUBSET Hubs ],
         toAsk : SUBSET Hubs,                      \* hubs whose step is to come
         delivered : SUBSET Hubs ]

NoWork == [ u \in Users |-> {} ]

Idle == [ pc |-> "idle", override |-> FALSE, emails |-> FALSE, listed |-> [ u \in Users |-> "ACTIVE" ],
          departed |-> {}, hubWork |-> NoWork, toAsk |-> {}, delivered |-> {} ]

\* A change of a user's status, and who asked for it.
StatusChange == { q \in [ by : Users, user : Users, to : Enabled ] : q.by # q.user }

SyncTypeOK ==
    /\ status \in [ Users -> Statuses ]
    /\ dir \in [ Users -> AccountStates ]
    /\ snap \in [ fresh : BOOLEAN, state : [ Users -> AccountStates ] ]
    /\ requests \subseteq StatusChange
    /\ work \in [ Users -> SUBSET Hubs ]
    /\ run \in Run
    /\ told \in [ Users -> [ Hubs -> SUBSET Users ] ]
    /\ again \subseteq Users /\ retry \subseteq Users /\ late \subseteq Users
    /\ unguarded \in BOOLEAN
    /\ triggers \in 0..MaxTriggers /\ changes \in 0..MaxChanges /\ faults \in 0..MaxFaults
    /\ run.pc \in { "idle", "resolve" } => run.departed = {} /\ run.delivered = {}
    /\ \A u \in run.departed : run.listed[u] \in Enabled

Init ==
    /\ status = [ u \in Users |-> "ACTIVE" ]
    /\ dir = [ u \in Users |-> "active" ]
    /\ snap = [ fresh |-> FALSE, state |-> [ u \in Users |-> "unknown" ] ]
    /\ requests = {}
    /\ work \in [ Users -> SUBSET Hubs ]
    /\ run = Idle
    /\ told = [ u \in Users |-> [ h \in Hubs |-> {} ] ]
    /\ again = {} /\ retry = {} /\ late = {} /\ unguarded = FALSE
    /\ triggers = 0 /\ changes = 0 /\ faults = 0

Fault  == faults < MaxFaults /\ faults' = faults + 1
Change == changes < MaxChanges /\ changes' = changes + 1

history == <<told, again, retry, unguarded, late>>

-----------------------------------------------------------------------------
(* Around the sync. *)

\* The directory disables an account, takes it back, or loses the attribute.
DirectoryChanges(u, state) ==
    /\ dir[u] # state /\ Change
    /\ dir' = [ dir EXCEPT ![u] = state ]
    /\ UNCHANGED <<status, snap, requests, work, run, history, triggers, faults>>

Refresh ==
    /\ snap' = [ fresh |-> TRUE,
                 state |-> [ u \in Users |-> IF u \in Internal THEN dir[u] ELSE "unknown" ] ]
    /\ snap' # snap
    /\ UNCHANGED <<status, dir, requests, work, run, history, triggers, changes, faults>>

\* 26 hours of failing refreshes.
SnapshotAges ==
    /\ snap.fresh /\ Fault
    /\ snap' = [ snap EXCEPT !.fresh = FALSE ]
    /\ UNCHANGED <<status, dir, requests, work, run, history, triggers, changes>>

ActiveHolders == { u \in Holders : status[u] = "ACTIVE" }

RunDecided == run.pc \in { "gather", "notify", "write" }

\* handleUpdateUserStatus: RequirePrivilege finds an active admin, who may ask for
\* ACTIVE or INACTIVE, of anyone but himself, ...
AskStatus(by, u, s) ==
    /\ by \in ActiveHolders /\ by # u /\ s \in Enabled /\ Change
    /\ requests' = requests \cup { [ by |-> by, user |-> u, to |-> s ] }
    /\ UNCHANGED <<status, dir, snap, work, run, history, triggers, faults>>

\* ... and UpdateStatus writes, whoever is an admin by then.  Who returns from
\* DISABLED starts anew.
WriteStatus(q) ==
    /\ requests' = requests \ { q }
    /\ status' = [ status EXCEPT ![q.user] = q.to ]
    /\ IF status[q.user] = "DISABLED"
       THEN /\ told' = [ told EXCEPT ![q.user] = [ h \in Hubs |-> {} ] ]
            /\ again' = again \ { q.user } /\ retry' = retry \ { q.user }
            /\ late' = late \ { q.user }
       ELSE UNCHANGED <<told, again, retry, late>>
    /\ unguarded' = (unguarded \/ (RunDecided /\ q.user \in ActiveHolders /\ q.to = "INACTIVE"))
    /\ UNCHANGED <<dir, snap, work, run, triggers, changes, faults>>

\* Someone gets work of a hub, which nobody has been told of.
Assign(u, h) ==
    /\ status[u] \in Enabled /\ h \notin work[u] /\ Change
    /\ work' = [ work EXCEPT ![u] = @ \cup { h } ]
    /\ told' = [ told EXCEPT ![u][h] = {} ]
    /\ late' = late \cup IF RunDecided THEN { u } ELSE {}
    /\ UNCHANGED <<status, dir, snap, requests, run, again, retry, unguarded, triggers, faults>>

Unassign(u, h) ==
    /\ h \in work[u] /\ Change
    /\ work' = [ work EXCEPT ![u] = @ \ { h } ]
    /\ UNCHANGED <<status, dir, snap, requests, run, history, triggers, faults>>

-----------------------------------------------------------------------------
(* The run. *)

around == <<dir, snap, requests, work, triggers, changes>>

\* The server was started with notifications on or off.
Begins(override) ==
    /\ run.pc = "idle"
    /\ \E emails \in BOOLEAN :
          run' = [ Idle EXCEPT !.pc = "resolve", !.override = override, !.emails = emails,
                               !.listed = status ]

\* RunOnce, by the scheduler.  A run in progress refuses it.
RunOnce ==
    /\ Begins(FALSE)
    /\ UNCHANGED <<status, around, history, faults>>

Trigger(override) ==
    /\ triggers < MaxTriggers
    /\ Begins(override)
    /\ triggers' = triggers + 1
    /\ UNCHANGED <<status, dir, snap, requests, work, changes, history, faults>>

\* Mutant: the users who are DISABLED already are not skipped.
ListsDisabled(unheard) ==
    { u \in Users :
        IF u \in External THEN dir[u] = "disabled" /\ u \notin unheard
        ELSE snap.fresh /\ snap.state[u] = "disabled" }

\* Whom the snapshot, if it can be trusted, or the live lookup calls disabled.
ReportedDisabled(unheard) ==
    { u \in Users :
        /\ run.listed[u] \in Enabled
        /\ IF u \in External THEN dir[u] = "disabled" /\ u \notin unheard
           ELSE snap.fresh /\ snap.state[u] = "disabled" }

Ends == run' = Idle

TooMany(departed) ==
    ~run.override /\ Cardinality(departed) > DeparturesPerRun

\* resolveDeparted: a lookup that fails says nothing about this person.
ResolveDeparted ==
    /\ run.pc = "resolve"
    /\ \E unheard \in SUBSET External :
          /\ IF unheard = {} THEN UNCHANGED faults ELSE Fault
          /\ LET departed == ReportedDisabled(unheard)
             IN  IF departed = {} \/ TooMany(departed) THEN Ends
                 ELSE run' = [ run EXCEPT !.pc = "spare", !.departed = departed ]
    /\ UNCHANGED <<status, around, history>>

\* Mutant: one holder outside the run is not asked for.
SparesOne(departed, holders) ==
    IF Cardinality(holders \cap departed) > Cardinality(holders)
    THEN departed \ holders ELSE departed

\* All holders at once is bad data: none of them is touched.
Spared(departed, holders) ==
    IF holders # {} /\ holders \subseteq departed THEN departed \ holders ELSE departed

ToGather(departed) ==
    IF departed = {} THEN Ends
    ELSE run' = [ run EXCEPT !.pc = "gather", !.departed = departed, !.toAsk = Hubs ]

\* spareAdmins
SpareAdmins ==
    /\ run.pc = "spare"
    /\ ToGather(Spared(run.departed,
                       { u \in ActiveHolders : run.listed[u] \in Enabled }))
    /\ unguarded' = (ActiveHolders = {})
    /\ UNCHANGED <<status, around, told, again, retry, late, faults>>

\* The holders cannot be read: the run goes on without the guard.
HoldersUnread ==
    /\ run.pc = "spare" /\ Fault
    /\ ToGather(run.departed)
    /\ unguarded' = TRUE
    /\ UNCHANGED <<status, around, told, again, retry, late>>

GatherAssignments(h) ==
    /\ run.pc = "gather" /\ h \in run.toAsk
    /\ LET asked == [ run EXCEPT
              !.toAsk = @ \ { h },
              !.hubWork = [ u \in Users |->
                  @[u] \cup IF u \in run.departed THEN work[u] \cap { h } ELSE {} ] ]
       IN  run' = IF asked.toAsk = {} THEN [ asked EXCEPT !.pc = "notify", !.toAsk = Hubs ]
                  ELSE asked
    /\ UNCHANGED <<status, around, history, faults>>

\* Without knowing what a hub holds, nothing is sent or written.
GatherFails ==
    /\ run.pc = "gather" /\ Fault
    /\ Ends
    /\ UNCHANGED <<status, around, history>>

InDigest(h) == { u \in run.departed : h \in run.hubWork[u] }

\* Only active users have an address the digest is sent to.
Recipients(h) == { r \in RecipientsOf[h] : status[r] = "ACTIVE" }

\* Nothing to send counts as delivered, and so does a digest that is not sent
\* because notifications are off.
Delivered(h, reached) == InDigest(h) = {} \/ ~run.emails \/ reached # {}

\* sendDigest: every recipient who can be reached is told.
SendDigest(h) ==
    /\ run.pc = "notify" /\ h \in run.toAsk
    /\ \E reached \in SUBSET Recipients(h) :
          /\ ~run.emails => reached = {}
          /\ IF InDigest(h) = {} \/ ~run.emails \/ reached = Recipients(h)
             THEN UNCHANGED faults ELSE Fault
          /\ run' = [ run EXCEPT
                !.toAsk = @ \ { h },
                !.delivered = @ \cup IF Delivered(h, reached) THEN { h } ELSE {},
                !.pc = IF run.toAsk = { h } THEN "write" ELSE @ ]
          /\ told' = [ u \in Users |-> IF u \in InDigest(h)
                          THEN [ told[u] EXCEPT ![h] = @ \cup reached ] ELSE told[u] ]
          /\ again' = again \cup
                { u \in InDigest(h) : told[u][h] # {} /\ reached # {} }
    /\ UNCHANGED <<status, around, retry, unguarded, late>>

\* Mutant: a digest that was not delivered holds nobody back.
NeverPending(u) == FALSE

\* notifyPending
NotifyPending(u) == ~(run.hubWork[u] \subseteq run.delivered)

\* One of those left is done with; the run ends after the last.
Done(u) ==
    run' = IF run.departed = { u } THEN Idle ELSE [ run EXCEPT !.departed = @ \ { u } ]

\* Mutant: the status is not written.
NeverDisabled(u) ==
    /\ run.pc = "write" /\ u \in run.departed /\ ~NotifyPending(u)
    /\ Done(u)
    /\ UNCHANGED <<status, around, history, faults>>

\* Disable
Disable(u) ==
    /\ run.pc = "write" /\ u \in run.departed /\ ~NotifyPending(u)
    /\ status' = [ status EXCEPT ![u] = "DISABLED" ]
    /\ Done(u)
    /\ UNCHANGED <<around, history, faults>>

LeaveForRetry(u) ==
    /\ run.pc = "write" /\ u \in run.departed /\ NotifyPending(u)
    /\ retry' = retry \cup { u }
    /\ Done(u)
    /\ UNCHANGED <<status, around, told, again, unguarded, late, faults>>

DisableFails(u) ==
    /\ run.pc = "write" /\ u \in run.departed /\ ~NotifyPending(u) /\ Fault
    /\ retry' = retry \cup { u }
    /\ Done(u)
    /\ UNCHANGED <<status, around, told, again, unguarded, late>>

\* The listing of the users fails, the 30 minutes are over, a panic, or the
\* server restarts, its snapshot gone.
RunStops ==
    /\ run.pc # "idle" /\ Fault
    /\ Ends
    /\ retry' = retry \cup run.departed
    /\ snap' \in { snap, [ fresh |-> FALSE, state |-> [ u \in Users |-> "unknown" ] ] }
    /\ UNCHANGED <<status, dir, requests, work, triggers, changes, told, again, unguarded, late>>

RunStep ==
    \/ ResolveDeparted \/ SpareAdmins
    \/ \E h \in Hubs : GatherAssignments(h) \/ SendDigest(h)
    \/ \E u \in Users : Disable(u) \/ LeaveForRetry(u)

RunFault ==
    HoldersUnread \/ GatherFails \/ RunStops \/ \E u \in Users : DisableFails(u)

Around ==
    \/ \E u \in Users :
          \/ \E state \in AccountStates : DirectoryChanges(u, state)
          \/ \E by \in Users, s \in Enabled : AskStatus(by, u, s)
          \/ \E h \in Hubs : Assign(u, h) \/ Unassign(u, h)
    \/ \E q \in requests : WriteStatus(q)
    \/ SnapshotAges

Next ==
    \/ Around \/ Refresh \/ RunOnce
    \/ \E override \in BOOLEAN : Trigger(override)
    \/ RunStep \/ RunFault

Spec == Init /\ [][Next]_vars

\* The daily refresh and the daily run take place, and a run goes on.
Fairness == WF_vars(Refresh) /\ WF_vars(RunOnce) /\ WF_vars(RunStep)

FairSpec == Spec /\ Fairness

=============================================================================
