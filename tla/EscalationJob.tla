---------------------------- MODULE EscalationJob ---------------------------
(***************************************************************************)
(* The sweep that escalates overdue risks.  Every backend server runs it    *)
(* once a day and whenever an administrator triggers it; a sweep lists one  *)
(* page of risks that can be escalated, escalates and announces them one by *)
(* one, and lists again from the start until there is nothing left or a     *)
(* whole page has failed.                                                   *)
(*                                                                         *)
(* Risks are numbered in the order of their creation.  A risk is here       *)
(* "away" (not under remediation), "scheduled" (under remediation, its date *)
(* still to come), "overdue" (under remediation past its date), each with   *)
(* no OPEN escalation; "escalated", or "answered" (its escalation still     *)
(* OPEN although a comment has returned it to remediation, and it stays so  *)
(* while it is amended and given another date).                             *)
(*                                                                         *)
(* A call to escalate is carried out by the entity in three steps that      *)
(* others come between: the check of status and date, the count of OPEN     *)
(* escalations, and the guarded flip.  A call that fails, times out or is   *)
(* cancelled is one that fails, and since its check and its count change    *)
(* nothing it fails here before them; one given up that the entity still    *)
(* carries out is a call of one of the Hands.  The sweep's 30 minutes       *)
(* running out are failures from then on.                                   *)
(***************************************************************************)
EXTENDS Naturals, FiniteSets

CONSTANTS
    Servers,       \* the backend replicas
    Requests,      \* the manual triggers a server can be answering at once
    Hands,         \* the people who can be clicking Escalate at once
    Risks,         \* a set of numbers: the newer, the larger
    PageLimit,     \* risks on one page of the search
    MaxEpisodes,   \* bound: how often a risk comes under remediation
    MaxFaults      \* bound: panics and crashes, answers and emails lost

ASSUME JobAssumption ==
    /\ IsFiniteSet(Servers) /\ IsFiniteSet(Requests)
    /\ Risks \subseteq Nat /\ IsFiniteSet(Risks)
    /\ PageLimit \in Nat \ { 0 } /\ MaxEpisodes \in Nat /\ MaxFaults \in Nat
    /\ "daily" \notin Requests
    /\ IsFiniteSet(Hands) /\ Hands \cap (Servers \X (Requests \cup { "daily" })) = {}

VARIABLES
    state,       \* of each risk
    sweeps,      \* what each sweeper, and each of the Hands, is doing
    running,     \* per server, EscalationJob.running
    triggered,   \* per server, escalationJobHandler.running
    episodes,    \* history: how often each risk came under remediation
    escalations, \* history: how often it was escalated,
    notices,     \* ... and how many announcements of that were sent
    overtaken,   \* history: who has counted, and another has flipped his risk since
    repeats,     \* history: how often such a one flipped a risk already answered
    faults

vars == <<state, sweeps, running, triggered, episodes, escalations, notices, overtaken, repeats,
          faults>>

Sweepers     == Servers \X (Requests \cup { "daily" })
Actors       == Sweepers \cup Hands
Server(a)    == a[1]
Manual(a)    == a[2] \in Requests
Sweeping(a)  == sweeps[a].pc \in { "list", "page", "count", "flip", "notify" }
Triggered(a) == Manual(a) /\ sweeps[a].pc # "idle"

Idle == [ pc |-> "idle", page |-> {}, progressed |-> FALSE ]

Sweep == [ pc : { "idle", "accepted", "list", "page", "count", "flip", "notify", "return" },
           page : SUBSET Risks, progressed : BOOLEAN ]

States == { "away", "scheduled", "overdue", "escalated", "answered" }

JobTypeOK ==
    /\ state \in [ Risks -> States ]
    /\ sweeps \in [ Actors -> Sweep ]
    /\ \A a \in Actors : Cardinality(sweeps[a].page) <= PageLimit
    /\ running \in [ Servers -> BOOLEAN ]
    /\ triggered \in [ Servers -> BOOLEAN ]
    /\ episodes \in [ Risks -> 0..MaxEpisodes ]
    /\ escalations \in [ Risks -> Nat ] /\ repeats \in [ Risks -> Nat ]
    /\ notices \in [ Risks -> Nat ]
    /\ overtaken \subseteq Actors
    /\ faults \in 0..MaxFaults

Init ==
    /\ state = [ r \in Risks |-> "away" ]
    /\ sweeps = [ a \in Actors |-> Idle ]
    /\ running = [ s \in Servers |-> FALSE ]
    /\ triggered = [ s \in Servers |-> FALSE ]
    /\ episodes = [ r \in Risks |-> 0 ]
    /\ escalations = [ r \in Risks |-> 0 ] /\ repeats = [ r \in Risks |-> 0 ]
    /\ notices = [ r \in Risks |-> 0 ]
    /\ overtaken = {}
    /\ faults = 0

-----------------------------------------------------------------------------
(* The risks, as everyone else moves them. *)

\* What the escalations have come to.
record == <<escalations, notices, overtaken, repeats>>

Moved(r, from, to) ==
    /\ state[r] \in from
    /\ state' = [ state EXCEPT ![r] = to ]
    /\ UNCHANGED <<sweeps, running, triggered, record, faults>>

\* It comes (back) under remediation, before its date or past it.
ComesUnderRemediation(r) ==
    /\ episodes[r] < MaxEpisodes
    /\ \E to \in { "scheduled", "overdue" } : Moved(r, { "away" }, to)
    /\ episodes' = [ episodes EXCEPT ![r] = @ + 1 ]

FallsDue(r) == Moved(r, { "scheduled" }, "overdue") /\ UNCHANGED episodes

\* It is amended, which another date takes, or submitted for completion.
IsPutOff(r) == Moved(r, { "scheduled", "overdue" }, "away") /\ UNCHANGED episodes

IsAnswered(r) == Moved(r, { "escalated" }, "answered") /\ UNCHANGED episodes

\* The submission for completion approval resolves the escalations.
IsSubmitted(r) == Moved(r, { "answered" }, "away") /\ UNCHANGED episodes

Environment ==
    \E r \in Risks : ComesUnderRemediation(r) \/ FallsDue(r) \/ IsPutOff(r)
                     \/ IsAnswered(r) \/ IsSubmitted(r)

-----------------------------------------------------------------------------
(* Starting and ending a sweep. *)

Set(a, sweep) == sweeps' = [ sweeps EXCEPT ![a] = sweep ]

\* The CompareAndSwap of RunOnce.
Free(s) == ~running[s]

RunOnce(a) ==
    /\ Free(Server(a))
    /\ running' = [ running EXCEPT ![Server(a)] = TRUE ]
    /\ Set(a, [ Idle EXCEPT !.pc = "list" ])

\* The daily timer; the sweep it starts while another runs is refused, and lost.
Tick(s) ==
    /\ sweeps[<<s, "daily">>].pc = "idle"
    /\ RunOnce(<<s, "daily">>)
    /\ UNCHANGED <<state, triggered, episodes, record, faults>>

\* POST /risks/escalations/run: 409 when a trigger is still running, else 202.
Trigger(a) ==
    /\ Manual(a) /\ sweeps[a].pc = "idle"
    /\ ~triggered[Server(a)]
    /\ triggered' = [ triggered EXCEPT ![Server(a)] = TRUE ]
    /\ Set(a, [ Idle EXCEPT !.pc = "accepted" ])
    /\ UNCHANGED <<state, running, episodes, record, faults>>

\* ... and the goroutine it leaves behind.
Start(a) ==
    /\ sweeps[a].pc = "accepted"
    /\ RunOnce(a)
    /\ UNCHANGED <<state, triggered, episodes, record, faults>>

Refused(a) ==
    /\ sweeps[a].pc = "accepted"
    /\ ~Free(Server(a))
    /\ Set(a, [ Idle EXCEPT !.pc = "return" ])
    /\ UNCHANGED <<state, running, triggered, episodes, record, faults>>

Return(a) ==
    /\ sweeps[a].pc = "return"
    /\ triggered' = [ triggered EXCEPT ![Server(a)] = FALSE ]
    /\ Set(a, Idle)
    /\ UNCHANGED <<state, running, episodes, record, faults>>

\* RunOnce returns: its deferred release comes first.
Finish(a) ==
    /\ running' = [ running EXCEPT ![Server(a)] = FALSE ]
    /\ Set(a, IF Manual(a) THEN [ Idle EXCEPT !.pc = "return" ] ELSE Idle)

-----------------------------------------------------------------------------
(* A sweep. *)

OnlySweep == UNCHANGED <<state, triggered, episodes, record, faults>>

\* Mutant: the search has no ExcludeOpenEscalation.
ListedWithAnswered == { r \in Risks : state[r] \in { "overdue", "answered" } }

\* The filter of the search.
Listed == { r \in Risks : state[r] = "overdue" }

\* SearchRisks at offset 0: the newest first.
Page == { r \in Listed : Cardinality({ q \in Listed : q > r }) < PageLimit }

ListPage(a) ==
    /\ sweeps[a].pc = "list"
    /\ Page # {}
    /\ Set(a, [ pc |-> "page", page |-> Page, progressed |-> FALSE ])
    /\ UNCHANGED running /\ OnlySweep

\* The list is empty, or the search fails.
ListEnds(a) ==
    /\ sweeps[a].pc = "list"
    /\ Finish(a)
    /\ OnlySweep

Current(a, r) == r \in sweeps[a].page /\ \A q \in sweeps[a].page : q <= r

At(a, r, pc) == sweeps[a].pc = pc /\ Current(a, r)

Goes(a, pc) == Set(a, [ sweeps[a] EXCEPT !.pc = pc ])

\* A sweep goes on to the next risk of its page; whoever clicked has his answer.
LeaveRisk(a, r) ==
    Set(a, IF a \in Sweepers THEN [ sweeps[a] EXCEPT !.pc = "page", !.page = @ \ { r } ] ELSE Idle)

InCall == UNCHANGED <<state, running, triggered, episodes, escalations, notices, repeats, faults>>

Fault == faults < MaxFaults /\ faults' = faults + 1

\* The entity's check, outside the transaction: under remediation, and past its date.
Checked(r) == state[r] \in { "overdue", "answered" }

Check(a, r) ==
    /\ At(a, r, "page")
    /\ Checked(r)
    /\ Goes(a, "count")
    /\ InCall /\ UNCHANGED overtaken

\* Somebody clicks Escalate, and passes the check.
Click(h, r) ==
    /\ sweeps[h].pc = "idle"
    /\ Checked(r)
    /\ Set(h, [ pc |-> "count", page |-> { r }, progressed |-> FALSE ])
    /\ InCall /\ UNCHANGED overtaken

\* Mutant: the entity does not look for an OPEN escalation.
CountsNothing(r) == TRUE

NoneOpen(r) == state[r] \notin { "escalated", "answered" }

\* The snapshot count that begins the transaction.
Count(a, r) ==
    /\ At(a, r, "count")
    /\ NoneOpen(r)
    /\ Goes(a, "flip")
    /\ InCall /\ UNCHANGED overtaken

\* The flip, guarded by the status alone, its insert and its commit.  The answer comes,
\* and there is an announcement to make, or it is lost.
Flip(a, r) ==
    /\ At(a, r, "flip")
    /\ state[r] \in { "scheduled", "overdue", "answered" }
    /\ state' = [ state EXCEPT ![r] = "escalated" ]
    /\ escalations' = [ escalations EXCEPT ![r] = @ + 1 ]
    /\ repeats' = IF state[r] = "answered" /\ a \in overtaken
                  THEN [ repeats EXCEPT ![r] = @ + 1 ] ELSE repeats
    /\ overtaken' = (overtaken \cup { b \in Actors : At(b, r, "flip") }) \ { a }
    /\ \/ Set(a, [ sweeps[a] EXCEPT !.pc = "notify", !.progressed = TRUE ]) /\ UNCHANGED faults
       \/ LeaveRisk(a, r) /\ Fault
    /\ UNCHANGED <<running, triggered, episodes, notices>>

\* Refused by one of the three, or never reached the entity.
EscalateFails(a, r) ==
    /\ \/ At(a, r, "page")
       \/ At(a, r, "count") /\ ~NoneOpen(r)
       \/ At(a, r, "flip") /\ state[r] \notin { "scheduled", "overdue", "answered" }
    /\ LeaveRisk(a, r)
    /\ overtaken' = overtaken \ { a }
    /\ InCall

\* The email is sent, or fails and is only counted.
Notify(a, r) ==
    /\ At(a, r, "notify")
    /\ \/ notices' = [ notices EXCEPT ![r] = @ + 1 ] /\ UNCHANGED faults
       \/ Fault /\ UNCHANGED notices
    /\ LeaveRisk(a, r)
    /\ UNCHANGED <<state, running, triggered, episodes, escalations, repeats, overtaken>>

Call(a, r) == Check(a, r) \/ Count(a, r) \/ Flip(a, r) \/ EscalateFails(a, r) \/ Notify(a, r)

\* Mutant: the sweep lists again whatever became of the page.
Whatever(a) == TRUE

Progressed(a) == sweeps[a].progressed

EndPage(a) ==
    /\ sweeps[a].pc = "page"
    /\ sweeps[a].page = {}
    /\ IF Progressed(a) THEN Set(a, [ Idle EXCEPT !.pc = "list" ]) /\ UNCHANGED running
                        ELSE Finish(a)
    /\ OnlySweep

-----------------------------------------------------------------------------
(* Faults. *)

\* The calls of these sweepers are given up, and what they were to announce is not.
Abandon(who) ==
    /\ Fault
    /\ overtaken' = overtaken \ who
    /\ UNCHANGED <<state, episodes, escalations, notices, repeats>>

\* Mutant: the flag is released at the end of RunOnce, and not deferred.
PanicKeepsFlag(a) ==
    /\ Sweeping(a)
    /\ Abandon({ a })
    /\ Set(a, IF Manual(a) THEN [ Idle EXCEPT !.pc = "return" ] ELSE Idle)
    /\ UNCHANGED <<running, triggered>>

\* Recovered by runOnce.
Panic(a) ==
    /\ Sweeping(a)
    /\ Abandon({ a })
    /\ Finish(a)
    /\ UNCHANGED triggered

On(s) == { a \in Sweepers : Server(a) = s }

\* The process restarts.
Crash(s) ==
    /\ Abandon(On(s))
    /\ sweeps' = [ a \in Actors |-> IF a \in On(s) THEN Idle ELSE sweeps[a] ]
    /\ running' = [ running EXCEPT ![s] = FALSE ]
    /\ triggered' = [ triggered EXCEPT ![s] = FALSE ]

SweepStep(a) ==
    \/ Start(a) \/ Refused(a) \/ Return(a)
    \/ ListPage(a) \/ ListEnds(a) \/ EndPage(a)
    \/ \E r \in Risks : Call(a, r)

Next ==
    \/ Environment
    \/ \E s \in Servers : Tick(s) \/ Crash(s)
    \/ \E a \in Sweepers : Trigger(a) \/ SweepStep(a) \/ Panic(a)
    \/ \E h \in Hands, r \in Risks : Click(h, r) \/ Call(h, r)

Spec == Init /\ [][Next]_vars

\* A goroutine that can run does.
SweepsRun == \A a \in Sweepers : WF_vars(SweepStep(a))

\* The daily timer of a server goes off while its last sweep is over.
TimersFire == \A s \in Servers : WF_vars(Tick(s))

\* A call made again and again does not fail for ever.
CallsSucceed ==
    /\ SF_vars(\E a \in Sweepers : ListPage(a))
    /\ \A r \in Risks : SF_vars(\E a \in Sweepers : Check(a, r))

RunningSpec == Spec /\ SweepsRun

=============================================================================
