------------------------- MODULE EscalationJobProofs ------------------------
(***************************************************************************)
(* Proofs, for any servers, triggers, risks and bounds, of the safety       *)
(* properties that hold of EscalationJob.  Its liveness stays with TLC.     *)
(***************************************************************************)
EXTENDS EscalationJobProperties, FiniteSetTheorems, TLAPS

-----------------------------------------------------------------------------
(* A page. *)

\* A finite set of numbers has a smallest one: the one with the least numbers below.
LEMMA Smallest ==
    ASSUME NEW S \in SUBSET Nat, IsFiniteSet(S), S # {}
    PROVE  \E m \in S : \A q \in S : m <= q
<1> DEFINE Below(x) == { q \in S : q < x }
           Belows   == { Below(x) : x \in S }
<1>1. Belows \subseteq FiniteSubsetsOf(S) /\ Belows # {}
  <2>1. ASSUME NEW x \in S PROVE Below(x) \in FiniteSubsetsOf(S)
      BY FS_Subset DEF FiniteSubsetsOf
  <2> QED
      BY <2>1
<1>2. PICK B \in Belows : \A C \in Belows : <<C, B>> \notin StrictSubsetOrdering(S)
  <2> HIDE DEF Belows
  <2> QED
      BY <1>1, FS_StrictSubsetOrderingWellFounded, WFMin
<1>3. PICK m \in S : B = Below(m)
    OBVIOUS
<1>4. ASSUME NEW q \in S, q < m PROVE FALSE
  <2>1. Below(q) \subseteq B /\ q \in B /\ q \notin Below(q) /\ B \subseteq S
    <3>1. S \subseteq Nat /\ q \in Nat /\ m \in Nat
        OBVIOUS
    <3>2. \A x : (x \in B <=> x \in S /\ x < m) /\ (x \in Below(q) <=> x \in S /\ x < q)
        BY <1>3
    <3>3. q \in B /\ q \notin Below(q) /\ B \subseteq S
        BY <1>4, <3>1, <3>2
    <3>4. ASSUME NEW x \in Below(q) PROVE x \in B
        BY <1>4, <3>1, <3>2
    <3> QED
        BY <3>3, <3>4
  <2>2. <<Below(q), B>> \in StrictSubsetOrdering(S)
      BY <2>1 DEF StrictSubsetOrdering
  <2> QED
      BY <1>2, <2>2
<1> QED
    BY <1>4

LEMMA PageBound ==
    ASSUME JobTypeOK
    PROVE  Page \subseteq Risks /\ Cardinality(Page) <= PageLimit
<1> USE JobAssumption
<1>1. Page \subseteq Listed /\ Listed \subseteq Risks
    BY DEF Page, Listed
<1>2. IsFiniteSet(Listed) /\ IsFiniteSet(Page)
    BY <1>1, FS_Subset
<1>3. CASE Page = {}
    BY <1>1, <1>3, FS_EmptySet
<1>4. CASE Page # {}
  <2>1. PICK m \in Page : \A q \in Page : m <= q
      BY <1>1, <1>2, <1>4, Smallest
  <2>2. m \in Nat /\ \A q \in Page : q \in Nat /\ (q > m \/ q = m)
      BY <1>1, <2>1
  <2> DEFINE Newer == { q \in Listed : q > m }
  <2>3. Cardinality(Newer) < PageLimit
      BY <2>1 DEF Page
  <2>4. IsFiniteSet(Newer)
      BY <1>2, FS_Subset
  <2>5. IsFiniteSet(Newer \cup { m }) /\ Cardinality(Newer \cup { m }) <= Cardinality(Newer) + 1
    <3> HIDE DEF Newer
    <3>1. Cardinality(Newer) \in Nat
        BY <2>4, FS_CardinalityType
    <3>2. /\ IsFiniteSet(Newer \cup { m })
          /\ Cardinality(Newer \cup { m }) =
                IF m \in Newer THEN Cardinality(Newer) ELSE Cardinality(Newer) + 1
        BY <2>4, FS_AddElement, Zenon
    <3> QED
        BY <3>1, <3>2
  <2>6. Page \subseteq Newer \cup { m }
      BY <1>1, <2>2
  <2>7. Cardinality(Page) <= Cardinality(Newer \cup { m })
      BY <2>5, <2>6, FS_Subset
  <2>8. /\ Cardinality(Page) \in Nat /\ Cardinality(Newer) \in Nat
        /\ Cardinality(Newer \cup { m }) \in Nat
      BY <1>2, <2>4, <2>5, FS_CardinalityType
  <2> HIDE DEF Newer
  <2> QED
      BY <1>1, <2>3, <2>5, <2>7, <2>8
<1> QED
    BY <1>3, <1>4

LEMMA PageShrinks ==
    ASSUME JobTypeOK, NEW a \in Actors, NEW r
    PROVE  Cardinality(sweeps[a].page \ { r }) <= PageLimit
<1>1. sweeps[a].page \subseteq Risks /\ Cardinality(sweeps[a].page) <= PageLimit
    BY DEF JobTypeOK, Sweep
<1>2. IsFiniteSet(sweeps[a].page)
    BY <1>1, JobAssumption, FS_Subset
<1>3. /\ Cardinality(sweeps[a].page \ { r }) <= Cardinality(sweeps[a].page)
      /\ IsFiniteSet(sweeps[a].page \ { r })
    BY <1>2, FS_Subset
<1>4. Cardinality(sweeps[a].page \ { r }) \in Nat /\ Cardinality(sweeps[a].page) \in Nat
    BY <1>2, <1>3, FS_CardinalityType
<1> QED
    BY <1>1, <1>3, <1>4, JobAssumption

LEMMA IdleType == Idle \in Sweep /\ Cardinality(Idle.page) <= PageLimit
BY FS_EmptySet, JobAssumption DEF Idle, Sweep

-----------------------------------------------------------------------------
(* Type correctness. *)

\* Every value a sweeper is given has its type, and a page that is short enough.
LEMMA SetType ==
    ASSUME JobTypeOK, NEW a \in Actors, NEW w \in Sweep, Cardinality(w.page) <= PageLimit,
           Set(a, w)
    PROVE  /\ sweeps' \in [ Actors -> Sweep ]
           /\ \A b \in Actors : Cardinality(sweeps'[b].page) <= PageLimit
BY DEF JobTypeOK, Set

LEMMA FinishType ==
    ASSUME JobTypeOK, NEW a \in Sweepers, Finish(a)
    PROVE  /\ sweeps' \in [ Actors -> Sweep ]
           /\ \A b \in Actors : Cardinality(sweeps'[b].page) <= PageLimit
           /\ running' \in [ Servers -> BOOLEAN ]
<1> DEFINE w == IF Manual(a) THEN [ Idle EXCEPT !.pc = "return" ] ELSE Idle
<1>1. w \in Sweep /\ w.page = Idle.page
    BY IdleType DEF Idle, Sweep
<1>2. Set(a, w) /\ running' = [ running EXCEPT ![Server(a)] = FALSE ]
    BY DEF Finish
<1> HIDE DEF w
<1> QED
    BY <1>1, <1>2, IdleType, SetType DEF JobTypeOK, Actors

LEMMA RunOnceType ==
    ASSUME JobTypeOK, NEW a \in Sweepers, RunOnce(a)
    PROVE  /\ sweeps' \in [ Actors -> Sweep ]
           /\ \A b \in Actors : Cardinality(sweeps'[b].page) <= PageLimit
           /\ running' \in [ Servers -> BOOLEAN ]
<1> DEFINE w == [ Idle EXCEPT !.pc = "list" ]
<1>1. w \in Sweep /\ w.page = Idle.page
    BY DEF Idle, Sweep
<1>2. Set(a, w) /\ running' = [ running EXCEPT ![Server(a)] = TRUE ]
    BY DEF RunOnce
<1> HIDE DEF w
<1> QED
    BY <1>1, <1>2, IdleType, SetType DEF JobTypeOK, Actors

LEMMA TypeInit == Init => JobTypeOK
BY IdleType, JobAssumption DEF Init, JobTypeOK, States

LEMMA EnvironmentType == JobTypeOK /\ Environment => JobTypeOK'
<1> SUFFICES ASSUME JobTypeOK, NEW r \in Risks,
                    \/ ComesUnderRemediation(r) \/ FallsDue(r) \/ IsPutOff(r)
                    \/ IsAnswered(r) \/ IsSubmitted(r)
             PROVE  JobTypeOK'
    BY DEF Environment
<1> USE DEF JobTypeOK, Moved, record, States
<1>1. CASE ComesUnderRemediation(r)
  <2>1. episodes' \in [ Risks -> 0..MaxEpisodes ]
      BY <1>1, JobAssumption DEF ComesUnderRemediation
  <2>2. PICK to \in { "scheduled", "overdue" } : Moved(r, { "away" }, to)
      BY <1>1 DEF ComesUnderRemediation
  <2>3. state' \in [ Risks -> States ]
      BY <2>2
  <2> QED
      BY <2>1, <2>2, <2>3
<1>2. CASE FallsDue(r) \/ IsPutOff(r) \/ IsAnswered(r) \/ IsSubmitted(r)
    BY <1>2 DEF FallsDue, IsPutOff, IsAnswered, IsSubmitted
<1> QED
    BY <1>1, <1>2

LEMMA FaultType ==
    ASSUME JobTypeOK, Fault
    PROVE  faults' \in 0..MaxFaults /\ faults' = faults + 1
BY JobAssumption DEF JobTypeOK, Fault

LEMMA AbandonType ==
    ASSUME JobTypeOK, NEW who, Abandon(who), sweeps' \in [ Actors -> Sweep ],
           \A b \in Actors : Cardinality(sweeps'[b].page) <= PageLimit,
           running' \in [ Servers -> BOOLEAN ], triggered' \in [ Servers -> BOOLEAN ]
    PROVE  JobTypeOK'
<1>1. faults' \in 0..MaxFaults
    BY FaultType DEF Abandon
<1> QED
    BY <1>1 DEF Abandon, JobTypeOK

\* Whoever leaves a risk goes on with the rest of his page, or is done.
LEMMA LeaveMoves ==
    ASSUME JobTypeOK, NEW a \in Actors, NEW r, LeaveRisk(a, r)
    PROVE  \E w \in Sweep :
              /\ Set(a, w) /\ Cardinality(w.page) <= PageLimit
              /\ w.pc = (IF a \in Sweepers THEN "page" ELSE "idle")
<1>1. sweeps[a] \in Sweep
    BY DEF JobTypeOK
<1>2. CASE a \in Sweepers
  <2> DEFINE w == [ sweeps[a] EXCEPT !.pc = "page", !.page = @ \ { r } ]
  <2>1. w \in Sweep /\ w.page = sweeps[a].page \ { r } /\ w.pc = "page"
      BY <1>1 DEF Sweep
  <2>2. Set(a, w)
      BY <1>2 DEF LeaveRisk
  <2> HIDE DEF w
  <2> QED
      BY <1>2, <2>1, <2>2, PageShrinks
<1>3. CASE a \notin Sweepers
  <2>1. Set(a, Idle) /\ Idle.pc = "idle"
      BY <1>3 DEF LeaveRisk, Idle
  <2> QED
      BY <1>3, <2>1, IdleType
<1> QED
    BY <1>2, <1>3

\* What a step of one's call leaves one doing.
LEMMA CallMoves ==
    ASSUME JobTypeOK, NEW a \in Actors, NEW r \in Risks, Call(a, r)
    PROVE  \E w \in Sweep :
              /\ Set(a, w) /\ Cardinality(w.page) <= PageLimit
              /\ a \in Sweepers => w.pc \in { "page", "count", "flip", "notify" }
              /\ w.pc = "flip" => Count(a, r) /\ w.page = sweeps[a].page
              /\ w.pc = "notify" => Flip(a, r) /\ faults' = faults /\ w.page = sweeps[a].page
              /\ Flip(a, r) => w.pc = "notify" \/ Fault
<1>1. sweeps[a] \in Sweep /\ Cardinality(sweeps[a].page) <= PageLimit
    BY DEF JobTypeOK
<1>2. ASSUME NEW pc \in { "count", "flip" }, Goes(a, pc), pc = "flip" => Count(a, r),
             sweeps[a].pc # "flip"
      PROVE  \E w \in Sweep :
              /\ Set(a, w) /\ Cardinality(w.page) <= PageLimit
              /\ a \in Sweepers => w.pc \in { "page", "count", "flip", "notify" }
              /\ w.pc = "flip" => Count(a, r) /\ w.page = sweeps[a].page
              /\ w.pc = "notify" => Flip(a, r) /\ faults' = faults /\ w.page = sweeps[a].page
              /\ Flip(a, r) => w.pc = "notify" \/ Fault
  <2> DEFINE w == [ sweeps[a] EXCEPT !.pc = pc ]
  <2>1. w \in Sweep /\ w.page = sweeps[a].page /\ w.pc = pc
      BY <1>1 DEF Sweep
  <2>2. Set(a, w)
      BY <1>2 DEF Goes
  <2>3. ~Flip(a, r)
      BY <1>2 DEF Flip, At
  <2> HIDE DEF w
  <2> QED
      BY <1>1, <1>2, <2>1, <2>2, <2>3
<1>3. CASE Check(a, r)
  <2>1. Goes(a, "count") /\ sweeps[a].pc # "flip"
      BY <1>3 DEF Check, At
  <2> QED
      BY <1>2, <2>1
<1>4. CASE Count(a, r)
  <2>1. Goes(a, "flip") /\ sweeps[a].pc # "flip"
      BY <1>4 DEF Count, At
  <2> QED
      BY <1>2, <1>4, <2>1
<1>5. CASE Flip(a, r)
  <2>1. CASE Set(a, [ sweeps[a] EXCEPT !.pc = "notify", !.progressed = TRUE ]) /\ UNCHANGED faults
    <3> DEFINE w == [ sweeps[a] EXCEPT !.pc = "notify", !.progressed = TRUE ]
    <3>1. w \in Sweep /\ w.page = sweeps[a].page /\ w.pc = "notify"
        BY <1>1 DEF Sweep
    <3>2. Set(a, w)
        BY <2>1
    <3> HIDE DEF w
    <3> QED
        BY <1>1, <1>5, <2>1, <3>1, <3>2
  <2>2. CASE LeaveRisk(a, r) /\ Fault
      BY <2>2, LeaveMoves
  <2> QED
      BY <1>5, <2>1, <2>2 DEF Flip
<1>6. CASE EscalateFails(a, r) \/ Notify(a, r)
  <2>1. LeaveRisk(a, r)
      BY <1>6 DEF EscalateFails, Notify
  <2>2. ~Flip(a, r)
    <3>1. ASSUME Flip(a, r) PROVE escalations' # escalations
      <4>1. escalations[r] \in Nat /\ escalations'[r] = escalations[r] + 1
          BY <3>1 DEF Flip, JobTypeOK
      <4> QED
          BY <4>1
    <3>2. escalations' = escalations
        BY <1>6 DEF EscalateFails, Notify, InCall
    <3> QED
        BY <3>1, <3>2
  <2> QED
      BY <2>1, <2>2, LeaveMoves
<1> QED
    BY <1>3, <1>4, <1>5, <1>6 DEF Call

LEMMA CallType ==
    ASSUME JobTypeOK, NEW a \in Actors, NEW r \in Risks, Call(a, r)
    PROVE  JobTypeOK'
<1>1. /\ sweeps' \in [ Actors -> Sweep ]
      /\ \A b \in Actors : Cardinality(sweeps'[b].page) <= PageLimit
    BY CallMoves, SetType
<1>2. UNCHANGED <<running, triggered, episodes>>
    BY DEF Call, Check, Count, Flip, EscalateFails, Notify, InCall
<1>3. CASE Check(a, r) \/ Count(a, r) \/ EscalateFails(a, r)
    BY <1>1, <1>2, <1>3 DEF Check, Count, EscalateFails, InCall, JobTypeOK
<1>4. faults' \in 0..MaxFaults
    BY FaultType DEF Call, Check, Count, Flip, EscalateFails, Notify, InCall, JobTypeOK
<1>5. CASE Flip(a, r)
  <2>1. state' \in [ Risks -> States ]
      BY <1>5 DEF Flip, JobTypeOK, States
  <2>2. escalations' \in [ Risks -> Nat ] /\ repeats' \in [ Risks -> Nat ]
      BY <1>5 DEF Flip, JobTypeOK
  <2>3. overtaken' \subseteq Actors /\ notices' \in [ Risks -> Nat ]
      BY <1>5 DEF Flip, JobTypeOK
  <2> QED
      BY <1>1, <1>2, <1>4, <2>1, <2>2, <2>3 DEF JobTypeOK
<1>6. CASE Notify(a, r)
  <2>1. notices' \in [ Risks -> Nat ]
      BY <1>6 DEF Notify, JobTypeOK
  <2> QED
      BY <1>1, <1>2, <1>4, <1>6, <2>1 DEF Notify, JobTypeOK
<1> QED
    BY <1>3, <1>5, <1>6 DEF Call

LEMMA ClickType ==
    ASSUME JobTypeOK, NEW h \in Hands, NEW r \in Risks, Click(h, r)
    PROVE  JobTypeOK'
<1> DEFINE w == [ pc |-> "count", page |-> { r }, progressed |-> FALSE ]
<1>1. w \in Sweep /\ w.page = { r }
    BY DEF Sweep
<1>2. Set(h, w) /\ h \in Actors
    BY DEF Click, Actors
<1>3. Cardinality({ r }) <= PageLimit
    BY FS_Singleton, JobAssumption
<1> HIDE DEF w
<1> QED
    BY <1>1, <1>2, <1>3, SetType DEF Click, InCall, JobTypeOK

LEMMA ListPageType ==
    ASSUME JobTypeOK, NEW a \in Sweepers, ListPage(a)
    PROVE  JobTypeOK'
<1> DEFINE w == [ pc |-> "page", page |-> Page, progressed |-> FALSE ]
<1>1. w \in Sweep /\ w.page = Page
    BY PageBound DEF Sweep
<1>2. Set(a, w) /\ a \in Actors
    BY DEF ListPage, Actors
<1> HIDE DEF w
<1> QED
    BY <1>1, <1>2, PageBound, SetType DEF ListPage, OnlySweep, record, JobTypeOK

\* A step that starts a sweep, ends one, or comes between the two.
LEMMA TurnType ==
    ASSUME JobTypeOK, NEW a \in Sweepers,
           Trigger(a) \/ Start(a) \/ Refused(a) \/ Return(a) \/ ListEnds(a) \/ EndPage(a) \/ Panic(a)
    PROVE  JobTypeOK'
<1> USE DEF JobTypeOK, OnlySweep, record, Actors
<1>1. \A pc \in { "accepted", "list", "return" } :
         LET w == [ Idle EXCEPT !.pc = pc ] IN w \in Sweep /\ Cardinality(w.page) <= PageLimit
    BY IdleType DEF Idle, Sweep
<1>2. CASE Trigger(a)
    BY <1>1, <1>2, SetType DEF Trigger
<1>3. CASE Start(a)
    BY <1>3, RunOnceType DEF Start
<1>4. CASE Refused(a)
    BY <1>1, <1>4, SetType DEF Refused
<1>5. CASE Return(a)
    BY <1>5, IdleType, SetType DEF Return
<1>6. CASE ListEnds(a)
    BY <1>6, FinishType DEF ListEnds
<1>7. CASE EndPage(a)
  <2>1. CASE Finish(a)
      BY <1>7, <2>1, FinishType DEF EndPage
  <2>2. CASE Set(a, [ Idle EXCEPT !.pc = "list" ]) /\ UNCHANGED running
      BY <1>1, <1>7, <2>2, SetType DEF EndPage
  <2> QED
      BY <1>7, <2>1, <2>2 DEF EndPage
<1>8. CASE Panic(a)
  <2>1. Abandon({ a }) /\ Finish(a) /\ UNCHANGED triggered
      BY <1>8 DEF Panic
  <2> QED
      BY <2>1, FinishType, AbandonType
<1> QED
    BY <1>2, <1>3, <1>4, <1>5, <1>6, <1>7, <1>8

LEMMA TypeNext == JobTypeOK /\ [Next]_vars => JobTypeOK'
<1> SUFFICES ASSUME JobTypeOK, [Next]_vars PROVE JobTypeOK'
    OBVIOUS
<1>1. CASE UNCHANGED vars
    BY <1>1 DEF vars, JobTypeOK
<1>2. CASE Environment
    BY <1>2, EnvironmentType
<1>3. ASSUME NEW s \in Servers, Tick(s) PROVE JobTypeOK'
  <2>1. <<s, "daily">> \in Sweepers
      BY DEF Sweepers
  <2> QED
      BY <1>3, <2>1, RunOnceType DEF Tick, record, JobTypeOK
<1>4. ASSUME NEW s \in Servers, Crash(s) PROVE JobTypeOK'
  <2>1. /\ sweeps' \in [ Actors -> Sweep ]
        /\ \A b \in Actors : Cardinality(sweeps'[b].page) <= PageLimit
      BY <1>4, IdleType DEF Crash, JobTypeOK
  <2>2. running' \in [ Servers -> BOOLEAN ] /\ triggered' \in [ Servers -> BOOLEAN ]
      BY <1>4 DEF Crash, JobTypeOK
  <2> QED
      BY <1>4, <2>1, <2>2, AbandonType DEF Crash
<1>5. ASSUME NEW a \in Sweepers, Trigger(a) \/ SweepStep(a) \/ Panic(a) PROVE JobTypeOK'
    BY <1>5, CallType, ListPageType, TurnType DEF SweepStep, Actors
<1>6. ASSUME NEW h \in Hands, NEW r \in Risks, Click(h, r) \/ Call(h, r) PROVE JobTypeOK'
    BY <1>6, CallType, ClickType DEF Actors
<1> QED
    BY <1>1, <1>2, <1>3, <1>4, <1>5, <1>6 DEF Next

\* The risks, the sweeps and the flags keep their types, and a page its limit.
THEOREM TypeCorrect == Spec => []JobTypeOK
BY TypeInit, TypeNext, PTL DEF Spec

-----------------------------------------------------------------------------
(* The flags. *)

\* The servers whose flag is up are those with one of their sweepers in a set, and no
\* server has two in it.
Held(in, up) ==
    /\ \A a, b \in in : Server(a) = Server(b) => a = b
    /\ up = { Server(a) : a \in in }

\* The daily sweep neither waits for nor answers a request.
DailyHasNoTrigger == \A a \in Sweepers : ~Manual(a) => sweeps[a].pc \notin { "accepted", "return" }

SweepingNow  == { a \in Sweepers : Sweeping(a) }
TriggeredNow == { a \in Sweepers : Triggered(a) }
RunningNow   == { s \in Servers : running[s] }
HandlingNow  == { s \in Servers : triggered[s] }

FlagsInv == Held(SweepingNow, RunningNow) /\ Held(TriggeredNow, HandlingNow) /\ DailyHasNoTrigger

\* One sweeper enters the set when its server's flag is down, and raises it, or
\* leaves the set, and lowers it, or stays where it is, and the flag too.
LEMMA Handover ==
    ASSUME NEW in, NEW in2, NEW up, NEW up2, NEW a, Held(in, up),
           \/ a \notin in /\ in2 = in \cup { a } /\ Server(a) \notin up /\ up2 = up \cup { Server(a) }
           \/ a \in in /\ in2 = in \ { a } /\ up2 = up \ { Server(a) }
           \/ in2 = in /\ up2 = up
    PROVE  Held(in2, up2)
BY DEF Held

LEMMA FlagsAreEnough == JobTypeOK /\ FlagsInv => FlagsAreHeld
<1> SUFFICES ASSUME JobTypeOK, FlagsInv PROVE FlagsAreHeld
    OBVIOUS
<1>1. OneAtATime
    BY DEF FlagsInv, Held, SweepingNow, TriggeredNow, OneAtATime
<1>2. ASSUME NEW s \in Servers
      PROVE  /\ running[s] = (\E a \in Sweepers : Server(a) = s /\ Sweeping(a))
             /\ triggered[s] = (\E a \in Sweepers : Server(a) = s /\ Triggered(a))
  <2>1. running[s] \in BOOLEAN /\ triggered[s] \in BOOLEAN
      BY DEF JobTypeOK
  <2>2. /\ running[s] <=> \E a \in Sweepers : Server(a) = s /\ Sweeping(a)
        /\ triggered[s] <=> \E a \in Sweepers : Server(a) = s /\ Triggered(a)
      BY DEF FlagsInv, Held, SweepingNow, TriggeredNow, RunningNow, HandlingNow
  <2> QED
      BY <2>1, <2>2
<1> QED
    BY <1>1, <1>2 DEF FlagsAreHeld

\* A step of one sweeper that leaves both flags to the rules of Handover.
LEMMA FlagsStep ==
    ASSUME JobTypeOK, FlagsInv, NEW a \in Sweepers, NEW w, Set(a, w),
           ~Manual(a) => w.pc \notin { "accepted", "return" },
           \A s \in Servers : s # Server(a) => running'[s] = running[s] /\ triggered'[s] = triggered[s],
           LET is  == w.pc \in { "list", "page", "count", "flip", "notify" }
               s   == Server(a)
           IN  \/ is /\ ~Sweeping(a) /\ ~running[s] /\ running'[s]
               \/ ~is /\ Sweeping(a) /\ ~running'[s]
               \/ (is <=> Sweeping(a)) /\ running'[s] = running[s],
           LET is  == Manual(a) /\ w.pc # "idle"
               s   == Server(a)
           IN  \/ is /\ ~Triggered(a) /\ ~triggered[s] /\ triggered'[s]
               \/ ~is /\ Triggered(a) /\ ~triggered'[s]
               \/ (is <=> Triggered(a)) /\ triggered'[s] = triggered[s]
    PROVE  FlagsInv'
<1>1. Server(a) \in Servers
    BY DEF Sweepers, Server
<1>2. sweeps'[a] = w /\ \A b \in Sweepers : b # a => sweeps'[b] = sweeps[b]
    BY DEF Set, JobTypeOK, Actors
<1>3. Held(SweepingNow', RunningNow')
  <2>1. /\ \A b \in Sweepers : b # a => (b \in SweepingNow' <=> b \in SweepingNow)
        /\ a \in SweepingNow <=> Sweeping(a)
        /\ a \in SweepingNow' <=> w.pc \in { "list", "page", "count", "flip", "notify" }
      BY <1>2 DEF SweepingNow, Sweeping
  <2>2. /\ \A s \in Servers : s # Server(a) => (s \in RunningNow' <=> s \in RunningNow)
        /\ Server(a) \in RunningNow <=> running[Server(a)]
        /\ Server(a) \in RunningNow' <=> running'[Server(a)]
      BY <1>1 DEF RunningNow
  <2>3. /\ SweepingNow \subseteq Sweepers /\ SweepingNow' \subseteq Sweepers
        /\ RunningNow \subseteq Servers /\ RunningNow' \subseteq Servers
      BY DEF SweepingNow, RunningNow, Sweepers
  <2>4. Held(SweepingNow, RunningNow) /\ (a \in SweepingNow => Server(a) \in RunningNow)
      BY DEF FlagsInv, Held
  <2> HIDE DEF SweepingNow, RunningNow
  <2>5. CASE a \in SweepingNow' /\ a \notin SweepingNow
    <3>1. SweepingNow' = SweepingNow \cup { a }
        BY <2>1, <2>3, <2>5
    <3>2. Server(a) \notin RunningNow /\ RunningNow' = RunningNow \cup { Server(a) }
        BY <1>1, <2>1, <2>2, <2>3, <2>5
    <3> QED
        BY <2>4, <2>5, <3>1, <3>2, Handover
  <2>6. CASE a \notin SweepingNow' /\ a \in SweepingNow
    <3>1. SweepingNow' = SweepingNow \ { a }
        BY <2>1, <2>3, <2>6
    <3>2. RunningNow' = RunningNow \ { Server(a) }
        BY <1>1, <2>1, <2>2, <2>3, <2>6
    <3> QED
        BY <2>4, <2>6, <3>1, <3>2, Handover
  <2>7. CASE a \in SweepingNow' <=> a \in SweepingNow
    <3>1. SweepingNow' = SweepingNow /\ RunningNow' = RunningNow
        BY <1>1, <2>1, <2>2, <2>3, <2>7
    <3> QED
        BY <2>4, <3>1
  <2> QED
      BY <2>5, <2>6, <2>7
<1>4. Held(TriggeredNow', HandlingNow')
  <2>1. /\ \A b \in Sweepers : b # a => (b \in TriggeredNow' <=> b \in TriggeredNow)
        /\ a \in TriggeredNow <=> Triggered(a)
        /\ a \in TriggeredNow' <=> Manual(a) /\ w.pc # "idle"
      BY <1>2 DEF TriggeredNow, Triggered, Manual
  <2>2. /\ \A s \in Servers : s # Server(a) => (s \in HandlingNow' <=> s \in HandlingNow)
        /\ Server(a) \in HandlingNow <=> triggered[Server(a)]
        /\ Server(a) \in HandlingNow' <=> triggered'[Server(a)]
      BY <1>1 DEF HandlingNow
  <2>3. /\ TriggeredNow \subseteq Sweepers /\ TriggeredNow' \subseteq Sweepers
        /\ HandlingNow \subseteq Servers /\ HandlingNow' \subseteq Servers
      BY DEF TriggeredNow, HandlingNow, Sweepers
  <2>4. Held(TriggeredNow, HandlingNow) /\ (a \in TriggeredNow => Server(a) \in HandlingNow)
      BY DEF FlagsInv, Held
  <2> HIDE DEF TriggeredNow, HandlingNow
  <2>5. CASE a \in TriggeredNow' /\ a \notin TriggeredNow
    <3>1. TriggeredNow' = TriggeredNow \cup { a }
        BY <2>1, <2>3, <2>5
    <3>2. Server(a) \notin HandlingNow /\ HandlingNow' = HandlingNow \cup { Server(a) }
        BY <1>1, <2>1, <2>2, <2>3, <2>5
    <3> QED
        BY <2>4, <2>5, <3>1, <3>2, Handover
  <2>6. CASE a \notin TriggeredNow' /\ a \in TriggeredNow
    <3>1. TriggeredNow' = TriggeredNow \ { a }
        BY <2>1, <2>3, <2>6
    <3>2. HandlingNow' = HandlingNow \ { Server(a) }
        BY <1>1, <2>1, <2>2, <2>3, <2>6
    <3> QED
        BY <2>4, <2>6, <3>1, <3>2, Handover
  <2>7. CASE a \in TriggeredNow' <=> a \in TriggeredNow
    <3>1. TriggeredNow' = TriggeredNow /\ HandlingNow' = HandlingNow
        BY <1>1, <2>1, <2>2, <2>3, <2>7
    <3> QED
        BY <2>4, <3>1
  <2> QED
      BY <2>5, <2>6, <2>7
<1>5. DailyHasNoTrigger'
    BY <1>2 DEF FlagsInv, DailyHasNoTrigger, Manual
<1> QED
    BY <1>3, <1>4, <1>5 DEF FlagsInv, Held, Server

LEMMA FlagsInit == Init => FlagsInv
<1> SUFFICES ASSUME Init PROVE FlagsInv
    OBVIOUS
<1>1. \A a \in Sweepers : sweeps[a].pc = "idle" /\ ~Sweeping(a) /\ ~Triggered(a)
    BY DEF Init, Idle, Sweeping, Triggered, Actors
<1>2. \A s \in Servers : ~running[s] /\ ~triggered[s]
    BY DEF Init
<1> QED
    BY <1>1, <1>2 DEF FlagsInv, Held, SweepingNow, TriggeredNow, RunningNow, HandlingNow, DailyHasNoTrigger

\* Nothing that leaves the sweeps and the flags alone matters to the flags.
LEMMA FlagsStutter ==
    ASSUME FlagsInv, UNCHANGED <<sweeps, running, triggered>>
    PROVE  FlagsInv'
BY DEF FlagsInv, Held, Server, SweepingNow, TriggeredNow, RunningNow, HandlingNow, Sweeping,
       Triggered, Manual, DailyHasNoTrigger

LEMMA FlagsCrash ==
    ASSUME JobTypeOK, FlagsInv, NEW s \in Servers, Crash(s)
    PROVE  FlagsInv'
<1>1. /\ \A a \in Sweepers : Server(a) = s => sweeps'[a].pc = "idle"
      /\ \A a \in Sweepers : Server(a) # s => sweeps'[a] = sweeps[a]
    BY DEF Crash, Idle, On, Actors
<1>2. /\ ~running'[s] /\ ~triggered'[s]
      /\ \A q \in Servers : q # s => running'[q] = running[q] /\ triggered'[q] = triggered[q]
    BY DEF Crash, JobTypeOK
<1>3. /\ SweepingNow' = { a \in SweepingNow : Server(a) # s }
      /\ TriggeredNow' = { a \in TriggeredNow : Server(a) # s }
    BY <1>1 DEF SweepingNow, TriggeredNow, Sweeping, Triggered, Manual
<1>4. RunningNow' = RunningNow \ { s } /\ HandlingNow' = HandlingNow \ { s }
    BY <1>2 DEF RunningNow, HandlingNow
<1>5. ASSUME NEW in, NEW up, Held(in, up)
      PROVE  Held({ a \in in : Server(a) # s }, up \ { s })
    BY <1>5 DEF Held
<1>6. Held(SweepingNow', RunningNow') /\ Held(TriggeredNow', HandlingNow')
    BY <1>3, <1>4, <1>5 DEF FlagsInv
<1>7. DailyHasNoTrigger'
    BY <1>1 DEF FlagsInv, DailyHasNoTrigger, Manual
<1> QED
    BY <1>6, <1>7 DEF FlagsInv, Held, Server

\* RunOnce takes the server's flag ...
LEMMA FlagsRunOnce ==
    ASSUME JobTypeOK, FlagsInv, NEW a \in Sweepers, RunOnce(a), UNCHANGED triggered,
           Manual(a) => sweeps[a].pc = "accepted"
    PROVE  FlagsInv'
<1> DEFINE w == [ Idle EXCEPT !.pc = "list" ]
<1>1. w.pc = "list" /\ Set(a, w) /\ Server(a) \in Servers
    BY DEF Idle, RunOnce, Sweepers, Server
<1>2. /\ ~running[Server(a)] /\ running'[Server(a)]
      /\ \A s \in Servers : s # Server(a) => running'[s] = running[s]
    BY <1>1 DEF RunOnce, Free, JobTypeOK
<1>3. ~Sweeping(a)
    BY <1>1, <1>2 DEF FlagsInv, Held, SweepingNow, RunningNow
<1>4. Triggered(a) <=> Manual(a) /\ w.pc # "idle"
    BY <1>1 DEF Triggered
<1> HIDE DEF w
<1> QED
    BY <1>1, <1>2, <1>3, <1>4, FlagsStep

\* ... and its end releases it, and leaves a trigger's flag to the trigger.
LEMMA FlagsFinish ==
    ASSUME JobTypeOK, FlagsInv, NEW a \in Sweepers, Sweeping(a), Finish(a), UNCHANGED triggered
    PROVE  FlagsInv'
<1> DEFINE w == IF Manual(a) THEN [ Idle EXCEPT !.pc = "return" ] ELSE Idle
<1>1. w.pc = (IF Manual(a) THEN "return" ELSE "idle") /\ Set(a, w) /\ Server(a) \in Servers
    BY DEF Idle, Finish, Sweepers, Server
<1>2. /\ ~running'[Server(a)]
      /\ \A s \in Servers : s # Server(a) => running'[s] = running[s]
    BY <1>1 DEF Finish, JobTypeOK
<1>3. Triggered(a) <=> Manual(a) /\ w.pc # "idle"
    BY <1>1 DEF Triggered, Sweeping
<1> HIDE DEF w
<1> QED
    BY <1>1, <1>2, <1>3, FlagsStep

\* A sweep goes on.
LEMMA FlagsGoOn ==
    ASSUME JobTypeOK, FlagsInv, NEW a \in Sweepers, Sweeping(a), NEW w, Set(a, w),
           w.pc \in { "list", "page", "count", "flip", "notify" }, UNCHANGED <<running, triggered>>
    PROVE  FlagsInv'
<1>1. Triggered(a) <=> Manual(a) /\ w.pc # "idle"
    BY DEF Triggered, Sweeping
<1> QED
    BY <1>1, FlagsStep

LEMMA FlagsListPage ==
    ASSUME JobTypeOK, FlagsInv, NEW a \in Sweepers, ListPage(a)
    PROVE  FlagsInv'
<1> DEFINE w == [ pc |-> "page", page |-> Page, progressed |-> FALSE ]
<1>1. Set(a, w) /\ w.pc = "page" /\ Sweeping(a) /\ UNCHANGED <<running, triggered>>
    BY DEF ListPage, Sweeping, OnlySweep
<1> HIDE DEF w
<1> QED
    BY <1>1, FlagsGoOn

LEMMA FlagsCall ==
    ASSUME JobTypeOK, FlagsInv, NEW a \in Sweepers, NEW r \in Risks, Call(a, r)
    PROVE  FlagsInv'
<1>1. a \in Actors
    BY DEF Actors
<1>2. PICK w \in Sweep : Set(a, w) /\ w.pc \in { "page", "count", "flip", "notify" }
    BY <1>1, CallMoves
<1>3. Sweeping(a) /\ UNCHANGED <<running, triggered>>
    BY DEF Call, Check, Count, Flip, EscalateFails, Notify, InCall, Sweeping, At
<1> QED
    BY <1>2, <1>3, FlagsGoOn

\* What people do is none of the flags' business.
LEMMA FlagsHand ==
    ASSUME JobTypeOK, FlagsInv, NEW h \in Hands, NEW r \in Risks, Click(h, r) \/ Call(h, r)
    PROVE  FlagsInv'
<1>1. h \in Actors /\ h \notin Sweepers
    BY JobAssumption DEF Actors, Sweepers
<1>2. \E w : Set(h, w)
    BY <1>1, CallMoves DEF Click
<1>3. \A b \in Sweepers : sweeps'[b] = sweeps[b]
    BY <1>1, <1>2 DEF Set, JobTypeOK, Actors
<1>4. UNCHANGED <<running, triggered>>
    BY DEF Click, Call, Check, Count, Flip, EscalateFails, Notify, InCall
<1>5. SweepingNow' = SweepingNow /\ TriggeredNow' = TriggeredNow
    BY <1>3 DEF SweepingNow, TriggeredNow, Sweeping, Triggered, Manual
<1>6. RunningNow' = RunningNow /\ HandlingNow' = HandlingNow
    BY <1>4 DEF RunningNow, HandlingNow
<1>7. DailyHasNoTrigger'
    BY <1>3 DEF FlagsInv, DailyHasNoTrigger, Manual
<1> QED
    BY <1>5, <1>6, <1>7 DEF FlagsInv, Held, Server

LEMMA FlagsTurn ==
    ASSUME JobTypeOK, FlagsInv, NEW a \in Sweepers,
           Trigger(a) \/ Start(a) \/ Refused(a) \/ Return(a) \/ ListEnds(a) \/ EndPage(a) \/ Panic(a)
    PROVE  FlagsInv'
<1>0. Server(a) \in Servers
    BY DEF Sweepers, Server
<1>1. CASE Trigger(a)
  <2> DEFINE w == [ Idle EXCEPT !.pc = "accepted" ]
  <2>1. w.pc = "accepted" /\ Set(a, w) /\ Manual(a) /\ ~Sweeping(a) /\ ~Triggered(a)
      BY <1>1 DEF Trigger, Idle, Sweeping, Triggered
  <2>2. /\ ~triggered[Server(a)] /\ triggered'[Server(a)] /\ UNCHANGED running
        /\ \A s \in Servers : s # Server(a) => triggered'[s] = triggered[s]
      BY <1>0, <1>1 DEF Trigger, JobTypeOK
  <2> HIDE DEF w
  <2> QED
      BY <2>1, <2>2, FlagsStep
<1>2. CASE Start(a)
    BY <1>2, FlagsRunOnce DEF Start
<1>3. CASE Refused(a)
  <2> DEFINE w == [ Idle EXCEPT !.pc = "return" ]
  <2>1. w.pc = "return" /\ Set(a, w) /\ UNCHANGED <<running, triggered>> /\ sweeps[a].pc = "accepted"
      BY <1>3 DEF Refused, Idle
  <2>2. Manual(a) /\ Triggered(a) /\ ~Sweeping(a)
      BY <2>1 DEF FlagsInv, DailyHasNoTrigger, Triggered, Sweeping
  <2> HIDE DEF w
  <2> QED
      BY <2>1, <2>2, FlagsStep
<1>4. CASE Return(a)
  <2>1. Set(a, Idle) /\ Idle.pc = "idle" /\ sweeps[a].pc = "return"
      BY <1>4 DEF Return, Idle
  <2>2. Manual(a) /\ Triggered(a) /\ ~Sweeping(a)
      BY <2>1 DEF FlagsInv, DailyHasNoTrigger, Triggered, Sweeping
  <2>3. /\ ~triggered'[Server(a)] /\ UNCHANGED running
        /\ \A s \in Servers : s # Server(a) => triggered'[s] = triggered[s]
      BY <1>0, <1>4 DEF Return, JobTypeOK
  <2> QED
      BY <2>1, <2>2, <2>3, FlagsStep
<1>5. CASE ListEnds(a)
    BY <1>5, FlagsFinish DEF ListEnds, OnlySweep, Sweeping
<1>6. CASE EndPage(a)
  <2>1. CASE Progressed(a)
    <3> DEFINE w == [ Idle EXCEPT !.pc = "list" ]
    <3>1. w.pc = "list" /\ Set(a, w) /\ UNCHANGED <<running, triggered>> /\ Sweeping(a)
        BY <1>6, <2>1 DEF EndPage, Idle, OnlySweep, Sweeping
    <3> HIDE DEF w
    <3> QED
        BY <3>1, FlagsGoOn
  <2>2. CASE ~Progressed(a)
      BY <1>6, <2>2, FlagsFinish DEF EndPage, OnlySweep, Sweeping
  <2> QED
      BY <2>1, <2>2
<1>7. CASE Panic(a)
    BY <1>7, FlagsFinish DEF Panic
<1> QED
    BY <1>1, <1>2, <1>3, <1>4, <1>5, <1>6, <1>7

LEMMA FlagsNext == JobTypeOK /\ FlagsInv /\ [Next]_vars => FlagsInv'
<1> SUFFICES ASSUME JobTypeOK, FlagsInv, [Next]_vars PROVE FlagsInv'
    OBVIOUS
<1>1. CASE UNCHANGED vars
    BY <1>1, FlagsStutter DEF vars
<1>2. CASE Environment
  <2>1. UNCHANGED <<sweeps, running, triggered>>
      BY <1>2 DEF Environment, ComesUnderRemediation, FallsDue, IsPutOff, IsAnswered, IsSubmitted,
                  Moved
  <2> QED
      BY <2>1, FlagsStutter
<1>3. ASSUME NEW s \in Servers, Tick(s) PROVE FlagsInv'
  <2>1. <<s, "daily">> \in Sweepers /\ ~Manual(<<s, "daily">>)
      BY JobAssumption DEF Sweepers, Manual
  <2> QED
      BY <1>3, <2>1, FlagsRunOnce DEF Tick
<1>4. ASSUME NEW s \in Servers, Crash(s) PROVE FlagsInv'
    BY <1>4, FlagsCrash
<1>5. ASSUME NEW a \in Sweepers, Trigger(a) \/ SweepStep(a) \/ Panic(a) PROVE FlagsInv'
    BY <1>5, FlagsCall, FlagsListPage, FlagsTurn DEF SweepStep
<1>6. ASSUME NEW h \in Hands, NEW r \in Risks, Click(h, r) \/ Call(h, r) PROVE FlagsInv'
    BY <1>6, FlagsHand
<1> QED
    BY <1>1, <1>2, <1>3, <1>4, <1>5, <1>6 DEF Next

\* One sweep at a time runs on a server, and no trigger, refusal, panic or restart
\* leaves a flag that disagrees with the sweeps.
THEOREM FlagsCorrect == Spec => []FlagsAreHeld
<1>1. Init => JobTypeOK /\ FlagsInv
    BY TypeInit, FlagsInit
<1>2. (JobTypeOK /\ FlagsInv) /\ [Next]_vars => (JobTypeOK /\ FlagsInv)'
    BY TypeNext, FlagsNext
<1>3. JobTypeOK /\ FlagsInv => FlagsAreHeld
    BY FlagsAreEnough
<1> QED
    BY <1>1, <1>2, <1>3, PTL DEF Spec

-----------------------------------------------------------------------------
(* The announcements. *)

\* Every escalation is announced, about to be, or lost to a fault.
Balanced(r) ==
    /\ notices[r] + Cardinality(Announcing(r)) <= escalations[r]
    /\ escalations[r] <= notices[r] + Cardinality(Announcing(r)) + faults

\* Time to be escalated in: a risk that waits for it has yet to spend its last one.
Waits(r) == IF state[r] \in { "scheduled", "overdue" } THEN 1 ELSE 0

PaidFor(r) == escalations[r] + Waits(r) <= episodes[r] + repeats[r]

\* Nobody is about to flip a risk whose escalation he does not know of, unless overtaken.
Aware(r) == \A a \in Actors : At(a, r, "flip") /\ a \notin overtaken => NoneOpen(r)

Settled == \A r \in Risks : Balanced(r) /\ PaidFor(r) /\ Aware(r)

LEMMA Counts ==
    ASSUME JobTypeOK, NEW r \in Risks
    PROVE  /\ notices[r] \in Nat /\ escalations[r] \in Nat /\ repeats[r] \in Nat
           /\ episodes[r] \in Nat /\ faults \in Nat /\ Waits(r) \in 0..1
BY JobAssumption DEF JobTypeOK, Waits

LEMMA CountsNext ==
    ASSUME JobTypeOK', NEW r \in Risks
    PROVE  /\ notices'[r] \in Nat /\ escalations'[r] \in Nat /\ repeats'[r] \in Nat
           /\ episodes'[r] \in Nat /\ faults' \in Nat /\ Waits(r)' \in 0..1
BY JobAssumption DEF JobTypeOK, Waits

LEMMA ActorsFinite == IsFiniteSet(Actors)
<1>1. IsFiniteSet(Requests \cup { "daily" })
    BY JobAssumption, FS_AddElement, Zenon
<1>2. IsFiniteSet(Sweepers)
    BY <1>1, JobAssumption, FS_Product DEF Sweepers
<1> QED
    BY <1>2, JobAssumption, FS_Union DEF Actors

LEMMA AnnouncingFinite == \A r : IsFiniteSet(Announcing(r)) /\ Cardinality(Announcing(r)) \in Nat
<1> SUFFICES ASSUME NEW r PROVE IsFiniteSet(Announcing(r)) /\ Cardinality(Announcing(r)) \in Nat
    OBVIOUS
<1>1. Announcing(r) \subseteq Actors
    BY DEF Announcing
<1> QED
    BY <1>1, ActorsFinite, FS_Subset, FS_CardinalityType

LEMMA SettledIsEnough == JobTypeOK /\ Settled => AnnouncedOnce
<1> SUFFICES ASSUME JobTypeOK, Settled, NEW r \in Risks
             PROVE  Balanced(r) /\ escalations[r] <= episodes[r] + repeats[r]
    BY DEF AnnouncedOnce, Balanced
<1> QED
    BY Counts DEF Settled, PaidFor

LEMMA SettledInit == Init => Settled
<1> SUFFICES ASSUME Init, NEW r \in Risks PROVE Balanced(r) /\ PaidFor(r) /\ Aware(r)
    BY DEF Settled
<1>1. Announcing(r) = {} /\ ~\E a \in Actors : At(a, r, "flip")
    BY DEF Announcing, At, Init, Idle
<1>2. Cardinality(Announcing(r)) = 0
    BY <1>1, FS_EmptySet
<1> QED
    BY <1>1, <1>2 DEF Balanced, PaidFor, Waits, Aware, Init

\* What a step of one actor makes of the places he is at.
LEMMA SetPlaces ==
    ASSUME JobTypeOK, NEW a \in Actors, NEW w, Set(a, w), NEW r, NEW pc
    PROVE  /\ \A b \in Actors : b # a => (At(b, r, pc)' <=> At(b, r, pc))
           /\ At(a, r, pc)' => w.pc = pc
           /\ w.page = sweeps[a].page => (At(a, r, pc)' <=> w.pc = pc /\ Current(a, r))
BY DEF JobTypeOK, Set, At, Current

LEMMA CurrentIsOne ==
    ASSUME JobTypeOK, NEW a \in Actors, NEW r \in Risks, NEW q \in Risks, Current(a, r), Current(a, q)
    PROVE  r = q
<1>1. r \in Nat /\ q \in Nat /\ r <= q /\ q <= r
    BY JobAssumption DEF Current
<1> QED
    BY <1>1

-----------------------------------------------------------------------------
(* The announcements are balanced. *)

\* They may be one fewer after a fault.
LEMMA BalancedFault ==
    ASSUME JobTypeOK, NEW r \in Risks, Balanced(r), faults' = faults + 1,
           escalations'[r] = escalations[r], notices'[r] = notices[r],
           Announcing(r)' \subseteq Announcing(r),
           \A a, b \in Announcing(r) \ Announcing(r)' : a = b
    PROVE  Balanced(r)'
<1> DEFINE now  == Announcing(r)
           next == Announcing(r)'
<1>1. IsFiniteSet(now) /\ next \subseteq now
    BY AnnouncingFinite
<1>2. IsFiniteSet(next) /\ Cardinality(next) <= Cardinality(now)
    BY <1>1, FS_Subset
<1>3. Cardinality(next) \in Nat /\ Cardinality(now) \in Nat
    BY <1>1, <1>2, FS_CardinalityType
<1>4. Cardinality(now) <= Cardinality(next) + 1
  <2>1. CASE next = now
      BY <1>3, <2>1
  <2>2. CASE next # now
    <3>1. PICK x \in now : x \notin next
        BY <1>1, <2>2
    <3>2. now = next \cup { x }
        BY <1>1, <3>1
    <3>3. Cardinality(next \cup { x }) = Cardinality(next) + 1
        BY <1>2, <3>1, FS_AddElement, Zenon
    <3> QED
        BY <1>3, <3>2, <3>3
  <2> QED
      BY <2>1, <2>2
<1>5. Balanced(r)' <=> /\ notices'[r] + Cardinality(next) <= escalations'[r]
                       /\ escalations'[r] <= notices'[r] + Cardinality(next) + faults'
    BY DEF Balanced
<1>6. Balanced(r) <=> /\ notices[r] + Cardinality(now) <= escalations[r]
                      /\ escalations[r] <= notices[r] + Cardinality(now) + faults
    BY DEF Balanced
<1> HIDE DEF now, next
<1> QED
    BY <1>2, <1>3, <1>4, <1>5, <1>6, Counts

\* Nothing of theirs changes.
LEMMA BalancedQuietly ==
    ASSUME JobTypeOK, NEW r \in Risks, Balanced(r), faults' = faults \/ Fault,
           escalations'[r] = escalations[r], notices'[r] = notices[r],
           Announcing(r)' = Announcing(r)
    PROVE  Balanced(r)'
<1>1. CASE faults' = faults
    BY <1>1 DEF Balanced
<1>2. CASE Fault
    BY <1>2, BalancedFault, FaultType
<1> QED
    BY <1>1, <1>2

\* An escalation and its announcer, or its lost answer.
LEMMA BalancedFlip ==
    ASSUME JobTypeOK, NEW r \in Risks, Balanced(r), NEW a \in Actors, NEW q \in Risks, Flip(a, q)
    PROVE  Balanced(r)'
<1> USE Counts
<1>1. PICK w \in Sweep :
         /\ Set(a, w)
         /\ w.pc = "notify" => faults' = faults /\ w.page = sweeps[a].page
         /\ w.pc = "notify" \/ Fault
    BY CallMoves DEF Call
<1>2. /\ At(a, q, "flip") /\ sweeps[a].pc = "flip" /\ Current(a, q) /\ notices' = notices
      /\ escalations'[r] = escalations[r] + (IF r = q THEN 1 ELSE 0)
    BY DEF Flip, At, JobTypeOK
<1>3. a \notin Announcing(r)
    BY <1>2 DEF Announcing, At
<1>4. CASE w.pc = "notify" /\ r = q
  <2>1. Announcing(r)' = Announcing(r) \cup { a }
      BY <1>1, <1>2, <1>4, SetPlaces DEF Announcing
  <2>2. Cardinality(Announcing(r) \cup { a }) = Cardinality(Announcing(r)) + 1
      BY <1>3, AnnouncingFinite, FS_AddElement, Zenon
  <2>3. Balanced(r)' <=>
           /\ notices'[r] + Cardinality(Announcing(r)') <= escalations'[r]
           /\ escalations'[r] <= notices'[r] + Cardinality(Announcing(r)') + faults'
      BY DEF Balanced
  <2> QED
      BY <1>1, <1>2, <1>4, <2>1, <2>2, <2>3, AnnouncingFinite DEF Balanced
<1>5. CASE r # q \/ w.pc # "notify"
  <2>1. ~At(a, r, "notify")'
      BY <1>1, <1>2, <1>5, SetPlaces, CurrentIsOne
  <2>2. Announcing(r)' = Announcing(r)
      BY <1>1, <1>3, <2>1, SetPlaces DEF Announcing
  <2>3. CASE r # q
      BY <1>1, <1>2, <2>2, <2>3, BalancedQuietly
  <2>4. CASE r = q
    <3>1. faults' = faults + 1
        BY <1>1, <1>5, <2>4, FaultType
    <3>2. Balanced(r)' <=>
             /\ notices'[r] + Cardinality(Announcing(r)') <= escalations'[r]
             /\ escalations'[r] <= notices'[r] + Cardinality(Announcing(r)') + faults'
        BY DEF Balanced
    <3> QED
        BY <1>2, <2>2, <2>4, <3>1, <3>2, AnnouncingFinite DEF Balanced
  <2> QED
      BY <2>3, <2>4
<1> QED
    BY <1>4, <1>5

\* An announcer announces, or his email is lost.
LEMMA BalancedNotify ==
    ASSUME JobTypeOK, NEW r \in Risks, Balanced(r), NEW a \in Actors, NEW q \in Risks, Notify(a, q)
    PROVE  Balanced(r)'
<1> USE Counts
<1>1. PICK w : Set(a, w) /\ w.pc # "notify"
    BY LeaveMoves DEF Notify
<1>2. At(a, q, "notify") /\ Current(a, q) /\ escalations' = escalations
    BY DEF Notify, At
<1>3. Announcing(r)' = Announcing(r) \ { a }
    BY <1>1, SetPlaces DEF Announcing
<1>4. /\ Cardinality(Announcing(r) \ { a }) =
            IF a \in Announcing(r) THEN Cardinality(Announcing(r)) - 1 ELSE Cardinality(Announcing(r))
      /\ IsFiniteSet(Announcing(r) \ { a })
    BY AnnouncingFinite, FS_RemoveElement, Zenon
<1>5. Cardinality(Announcing(r) \ { a }) \in Nat
    BY <1>4, FS_CardinalityType
<1>6. a \in Announcing(r) <=> r = q
    BY <1>2, CurrentIsOne DEF Announcing, At
<1>7. CASE notices' = [ notices EXCEPT ![q] = @ + 1 ] /\ UNCHANGED faults
  <2>1. notices'[r] = notices[r] + (IF r = q THEN 1 ELSE 0)
      BY <1>7 DEF JobTypeOK
  <2>2. Balanced(r)' <=>
           /\ notices'[r] + Cardinality(Announcing(r) \ { a }) <= escalations[r]
           /\ escalations[r] <= notices'[r] + Cardinality(Announcing(r) \ { a }) + faults
      BY <1>2, <1>3, <1>7 DEF Balanced
  <2> QED
      BY <1>4, <1>5, <1>6, <2>1, <2>2, AnnouncingFinite DEF Balanced
<1>8. CASE Fault /\ UNCHANGED notices
    BY <1>2, <1>3, <1>8, BalancedFault, FaultType
<1> QED
    BY <1>7, <1>8 DEF Notify

\* A step of a call that neither flips nor announces.
LEMMA BalancedCall ==
    ASSUME JobTypeOK, NEW r \in Risks, Balanced(r), NEW a \in Actors, NEW q \in Risks,
           Check(a, q) \/ Count(a, q) \/ EscalateFails(a, q)
    PROVE  Balanced(r)'
<1>1. PICK w : Set(a, w) /\ w.pc # "notify"
  <2>1. Call(a, q)
      BY DEF Call
  <2>2. ~Flip(a, q)
    <3>1. escalations' = escalations
        BY DEF Check, Count, EscalateFails, InCall
    <3>2. Flip(a, q) => escalations'[q] = escalations[q] + 1
        BY DEF Flip, JobTypeOK
    <3> QED
        BY <3>1, <3>2, Counts
  <2> QED
      BY <2>1, <2>2, CallMoves
<1>2. UNCHANGED <<escalations, notices, faults>> /\ sweeps[a].pc # "notify"
    BY DEF Check, Count, EscalateFails, InCall, At
<1>3. ~At(a, r, "notify") /\ ~At(a, r, "notify")'
    BY <1>1, <1>2, SetPlaces DEF At
<1>4. Announcing(r)' = Announcing(r)
    BY <1>1, <1>3, SetPlaces DEF Announcing
<1> QED
    BY <1>2, <1>4, BalancedQuietly

\* Those who are given up were, on a server, one at most.
LEMMA BalancedAbandon ==
    ASSUME JobTypeOK, FlagsInv, NEW r \in Risks, Balanced(r), NEW s \in Servers, NEW who \in SUBSET On(s),
           Abandon(who),
           \A b \in Actors : b \notin who => sweeps'[b] = sweeps[b],
           \A b \in who : sweeps'[b].pc # "notify"
    PROVE  Balanced(r)'
<1>1. \A b \in Actors : b \notin who => (At(b, r, "notify")' <=> At(b, r, "notify"))
    BY DEF At, Current
<1>2. \A b \in who : ~At(b, r, "notify")'
    BY DEF At
<1>3. Announcing(r)' = Announcing(r) \ who
    BY <1>1, <1>2 DEF Announcing
<1>4. ASSUME NEW b \in Announcing(r) \ Announcing(r)', NEW c \in Announcing(r) \ Announcing(r)'
      PROVE  b = c
  <2>1. b \in Sweepers /\ c \in Sweepers /\ Server(b) = Server(c)
      BY <1>3, <1>4 DEF On
  <2>2. Sweeping(b) /\ Sweeping(c)
      BY <1>4 DEF Announcing, At, Sweeping
  <2> QED
      BY <2>1, <2>2, FlagsAreEnough DEF FlagsAreHeld, OneAtATime
<1>5. faults' = faults + 1 /\ UNCHANGED <<escalations, notices>>
    BY FaultType DEF Abandon
<1> QED
    BY <1>3, <1>4, <1>5, BalancedFault

-----------------------------------------------------------------------------
(* A step that escalates nothing. *)

\* It leaves the sums alone, and may take somebody from a flip but not to it.
LEMMA SettledQuietly ==
    ASSUME JobTypeOK, NEW r \in Risks, PaidFor(r), Aware(r),
           state'[r] = state[r], overtaken' \subseteq overtaken,
           UNCHANGED <<episodes, escalations, repeats>>,
           \A a \in Actors : At(a, r, "flip")' => At(a, r, "flip") /\ (a \in overtaken => a \in overtaken')
    PROVE  PaidFor(r)' /\ Aware(r)'
<1>1. PaidFor(r)'
    BY DEF PaidFor, Waits
<1>2. Aware(r)'
    BY DEF Aware, NoneOpen
<1> QED
    BY <1>1, <1>2

LEMMA SettledEnvironment ==
    ASSUME JobTypeOK, Settled, Environment, NEW r \in Risks
    PROVE  Balanced(r)' /\ PaidFor(r)' /\ Aware(r)'
<1> USE Counts
<1>1. PICK q \in Risks : \/ ComesUnderRemediation(q) \/ FallsDue(q) \/ IsPutOff(q)
                         \/ IsAnswered(q) \/ IsSubmitted(q)
    BY DEF Environment
<1>2. UNCHANGED <<sweeps, record, faults>>
    BY <1>1 DEF ComesUnderRemediation, FallsDue, IsPutOff, IsAnswered, IsSubmitted, Moved
<1>3. /\ UNCHANGED <<sweeps, escalations, notices, overtaken, repeats, faults>>
      /\ \A a \in Actors, pc \in { "flip", "notify" } : At(a, r, pc)' <=> At(a, r, pc)
    BY <1>2 DEF record, At, Current
<1>4. Announcing(r)' = Announcing(r)
    BY <1>3 DEF Announcing
<1>5. Balanced(r)'
    BY <1>3, <1>4 DEF Balanced, Settled
<1>6. PaidFor(r)'
  <2>1. CASE ComesUnderRemediation(q)
    <3>1. Waits(r)' + episodes[r] <= Waits(r) + episodes'[r]
        BY <2>1 DEF ComesUnderRemediation, Moved, Waits, JobTypeOK
    <3>2. episodes'[r] \in Nat /\ Waits(r)' \in 0..1
        BY <2>1 DEF ComesUnderRemediation, Waits, JobTypeOK
    <3> QED
        BY <1>3, <3>1, <3>2 DEF PaidFor, Settled
  <2>2. CASE FallsDue(q) \/ IsPutOff(q) \/ IsAnswered(q) \/ IsSubmitted(q)
    <3>1. Waits(r)' <= Waits(r) /\ Waits(r)' \in 0..1 /\ episodes' = episodes
        BY <2>2 DEF FallsDue, IsPutOff, IsAnswered, IsSubmitted, Moved, Waits, JobTypeOK
    <3> QED
        BY <1>3, <3>1 DEF PaidFor, Settled
  <2> QED
      BY <1>1, <2>1, <2>2
<1>7. NoneOpen(r) => NoneOpen(r)'
    BY <1>1 DEF ComesUnderRemediation, FallsDue, IsPutOff, IsAnswered, IsSubmitted, Moved, NoneOpen,
                JobTypeOK
<1>8. Aware(r)'
    BY <1>3, <1>7 DEF Aware, Settled
<1> QED
    BY <1>5, <1>6, <1>8

-----------------------------------------------------------------------------
(* A step of a call. *)

\* Whoever counts knows of no escalation at that moment.
LEMMA SettledCount ==
    ASSUME JobTypeOK, Settled, NEW a \in Actors, NEW q \in Risks, Count(a, q), NEW r \in Risks
    PROVE  PaidFor(r)' /\ Aware(r)'
<1>1. UNCHANGED <<state, episodes, escalations, repeats, overtaken>> /\ NoneOpen(q)
    BY DEF Count, InCall
<1>2. PaidFor(r)'
    BY <1>1 DEF Settled, PaidFor, Waits
<1>3. PICK w \in Sweep : Set(a, w) /\ w.page = sweeps[a].page /\ w.pc = "flip"
  <2> DEFINE w == [ sweeps[a] EXCEPT !.pc = "flip" ]
  <2>1. w \in Sweep /\ w.page = sweeps[a].page /\ w.pc = "flip"
      BY DEF JobTypeOK, Sweep
  <2>2. Set(a, w)
      BY DEF Count, Goes
  <2> HIDE DEF w
  <2> QED
      BY <2>1, <2>2
<1>4. Current(a, q)
    BY DEF Count, At
<1>5. ASSUME NEW b \in Actors, At(b, r, "flip")', b \notin overtaken PROVE NoneOpen(r)
  <2>1. CASE b = a
    <3>1. Current(a, r)
        BY <1>3, <1>5, <2>1, SetPlaces
    <3> QED
        BY <1>1, <1>4, <3>1, CurrentIsOne
  <2>2. CASE b # a
      BY <1>3, <1>5, <2>2, SetPlaces DEF Settled, Aware
  <2> QED
      BY <2>1, <2>2
<1>6. Aware(r)'
    BY <1>1, <1>5 DEF Aware, NoneOpen
<1> QED
    BY <1>2, <1>6

\* The flip spends the risk's time, or repeats what another has done, and everybody
\* else who was about to is overtaken.
LEMMA SettledFlip ==
    ASSUME JobTypeOK, JobTypeOK', Settled, NEW a \in Actors, NEW q \in Risks, Flip(a, q), NEW r \in Risks
    PROVE  PaidFor(r)' /\ Aware(r)'
<1>1. PICK w \in Sweep : Set(a, w) /\ w.pc # "flip"
  <2>1. ~Count(a, q)
      BY DEF Count, Flip, At
  <2> QED
      BY <2>1, CallMoves DEF Call
<1>2. /\ At(a, q, "flip") /\ state[q] \in { "scheduled", "overdue", "answered" }
      /\ state' = [ state EXCEPT ![q] = "escalated" ]
      /\ escalations' = [ escalations EXCEPT ![q] = @ + 1 ]
      /\ repeats' = IF state[q] = "answered" /\ a \in overtaken
                    THEN [ repeats EXCEPT ![q] = @ + 1 ] ELSE repeats
      /\ overtaken' = (overtaken \cup { b \in Actors : At(b, q, "flip") }) \ { a }
      /\ episodes' = episodes
    BY DEF Flip
<1>3. PaidFor(r) /\ Aware(r)
    BY DEF Settled
<1>4. \A b \in Actors : At(b, r, "flip")' => b # a /\ At(b, r, "flip")
    BY <1>1, SetPlaces
<1>5. CASE r = q
  <2>1. Waits(r)' = 0 /\ escalations'[r] = escalations[r] + 1
      BY <1>2, <1>5 DEF Waits, JobTypeOK
  <2>2. state[r] = "answered" => a \in overtaken
      BY <1>2, <1>3, <1>5 DEF Aware, NoneOpen
  <2>3. PaidFor(r)'
    <3>1. CASE state[r] = "answered"
      <4>1. repeats'[r] = repeats[r] + 1 /\ Waits(r) = 0
          BY <1>2, <1>5, <2>2, <3>1 DEF JobTypeOK, Waits
      <4>2. PaidFor(r)' <=> escalations'[r] + Waits(r)' <= episodes'[r] + repeats'[r]
          BY DEF PaidFor
      <4> QED
          BY <1>2, <1>3, <2>1, <4>1, <4>2, Counts DEF PaidFor
    <3>2. CASE state[r] # "answered"
      <4>1. repeats' = repeats /\ Waits(r) = 1
          BY <1>2, <1>5, <3>2 DEF Waits
      <4>2. PaidFor(r)' <=> escalations'[r] + Waits(r)' <= episodes'[r] + repeats'[r]
          BY DEF PaidFor
      <4> QED
          BY <1>2, <1>3, <2>1, <4>1, <4>2, Counts DEF PaidFor
    <3> QED
        BY <3>1, <3>2
  <2>4. Aware(r)'
    <3>1. \A b \in Actors : At(b, r, "flip")' => b \in overtaken'
        BY <1>2, <1>4, <1>5
    <3> QED
        BY <3>1 DEF Aware
  <2> QED
      BY <2>3, <2>4
<1>6. CASE r # q
  <2>1. /\ state'[r] = state[r] /\ escalations'[r] = escalations[r] /\ repeats'[r] = repeats[r]
        /\ episodes' = episodes
      BY <1>2, <1>6 DEF JobTypeOK
  <2>2. PaidFor(r)'
      BY <1>3, <2>1 DEF PaidFor, Waits
  <2>3. \A b \in Actors : b # a /\ b \in overtaken => b \in overtaken'
      BY <1>2
  <2>4. Aware(r)'
      BY <1>3, <1>4, <2>1, <2>3 DEF Aware, NoneOpen
  <2> QED
      BY <2>2, <2>4
<1> QED
    BY <1>5, <1>6

LEMMA SettledCall ==
    ASSUME JobTypeOK, JobTypeOK', Settled, NEW a \in Actors, NEW q \in Risks, Call(a, q), NEW r \in Risks
    PROVE  Balanced(r)' /\ PaidFor(r)' /\ Aware(r)'
<1> USE DEF Settled
<1>1. CASE Count(a, q)
    BY <1>1, SettledCount, BalancedCall
<1>2. CASE Flip(a, q)
    BY <1>2, SettledFlip, BalancedFlip
<1>3. CASE Check(a, q) \/ EscalateFails(a, q) \/ Notify(a, q)
  <2>1. Balanced(r)'
      BY <1>3, BalancedCall, BalancedNotify
  <2>2. PICK w : Set(a, w) /\ w.pc # "flip"
    <3>1. CASE Check(a, q)
      <4> DEFINE w == [ sweeps[a] EXCEPT !.pc = "count" ]
      <4>1. Set(a, w) /\ w.pc = "count"
          BY <3>1 DEF Check, Goes, JobTypeOK, Sweep
      <4> HIDE DEF w
      <4> QED
          BY <4>1
    <3>2. CASE EscalateFails(a, q) \/ Notify(a, q)
      <4>1. LeaveRisk(a, q)
          BY <3>2 DEF EscalateFails, Notify
      <4> QED
          BY <4>1, LeaveMoves
    <3> QED
        BY <1>3, <3>1, <3>2
  <2>3. /\ UNCHANGED <<state, episodes, escalations, repeats>>
        /\ overtaken' = overtaken \/ overtaken' = overtaken \ { a }
      BY <1>3 DEF Check, EscalateFails, Notify, InCall
  <2>4. \A b \in Actors : At(b, r, "flip")' => b # a /\ At(b, r, "flip")
      BY <2>2, SetPlaces
  <2>5. PaidFor(r)' /\ Aware(r)'
      BY <2>3, <2>4, SettledQuietly
  <2> QED
      BY <2>1, <2>5
<1> QED
    BY <1>1, <1>2, <1>3 DEF Call

\* Somebody clicks, or a sweep starts, turns a page or ends.
LEMMA SettledTurn ==
    ASSUME JobTypeOK, Settled, NEW a \in Actors, NEW w, Set(a, w), w.pc \notin { "flip", "notify" },
           sweeps[a].pc # "notify",
           UNCHANGED <<state, episodes, record, faults>>, NEW r \in Risks
    PROVE  Balanced(r)' /\ PaidFor(r)' /\ Aware(r)'
<1>1. UNCHANGED <<escalations, notices, overtaken, repeats>>
    BY DEF record
<1>2. Announcing(r)' = Announcing(r)
    BY SetPlaces DEF Announcing, At
<1>3. Balanced(r)'
    BY <1>1, <1>2, BalancedQuietly DEF Settled
<1>4. \A b \in Actors : At(b, r, "flip")' => At(b, r, "flip")
    BY SetPlaces
<1> QED
    BY <1>1, <1>3, <1>4, SettledQuietly DEF Settled

LEMMA SettledSweep ==
    ASSUME JobTypeOK, Settled, NEW a \in Sweepers, NEW r \in Risks,
           \/ RunOnce(a) /\ sweeps[a].pc \in { "idle", "accepted" }
              /\ UNCHANGED <<state, episodes, record, faults>>
           \/ Trigger(a) \/ Refused(a) \/ Return(a) \/ ListPage(a) \/ ListEnds(a) \/ EndPage(a)
    PROVE  Balanced(r)' /\ PaidFor(r)' /\ Aware(r)'
<1>1. a \in Actors
    BY DEF Actors
<1>2. sweeps[a].pc # "notify" /\ UNCHANGED <<state, episodes, record, faults>>
    BY DEF Trigger, Refused, Return, ListPage, ListEnds, EndPage, OnlySweep
<1>3. Idle.pc = "idle" /\ \A pc \in { "accepted", "list", "return" } : [ Idle EXCEPT !.pc = pc ].pc = pc
    BY DEF Idle
<1>4. PICK w : Set(a, w) /\ w.pc \notin { "flip", "notify" }
  <2>1. CASE ListPage(a)
    <3> DEFINE w == [ pc |-> "page", page |-> Page, progressed |-> FALSE ]
    <3>1. Set(a, w) /\ w.pc = "page"
        BY <2>1 DEF ListPage
    <3> HIDE DEF w
    <3> QED
        BY <3>1
  <2>2. CASE ~ListPage(a)
      BY <1>3, <2>2 DEF RunOnce, Trigger, Refused, Return, ListEnds, EndPage, Finish
  <2> QED
      BY <2>1, <2>2
<1> QED
    BY <1>1, <1>2, <1>4, SettledTurn

LEMMA SettledAbandon ==
    ASSUME JobTypeOK, FlagsInv, Settled, NEW s \in Servers, NEW who \in SUBSET On(s), Abandon(who),
           \A b \in Actors : b \notin who => sweeps'[b] = sweeps[b],
           \A b \in who : sweeps'[b].pc \notin { "flip", "notify" }, NEW r \in Risks
    PROVE  Balanced(r)' /\ PaidFor(r)' /\ Aware(r)'
<1>1. Balanced(r)'
    BY BalancedAbandon DEF Settled
<1>2. UNCHANGED <<state, episodes, escalations, repeats>> /\ overtaken' = overtaken \ who
    BY DEF Abandon
<1>3. \A b \in Actors : At(b, r, "flip")' => b \notin who /\ At(b, r, "flip")
    BY DEF At, Current
<1> QED
    BY <1>1, <1>2, <1>3, SettledQuietly DEF Settled

LEMMA SettledNext == JobTypeOK /\ JobTypeOK' /\ FlagsInv /\ Settled /\ [Next]_vars => Settled'
<1> SUFFICES ASSUME JobTypeOK, JobTypeOK', FlagsInv, Settled, [Next]_vars, NEW r \in Risks
             PROVE  Balanced(r)' /\ PaidFor(r)' /\ Aware(r)'
    BY DEF Settled
<1>1. CASE UNCHANGED vars
    BY <1>1 DEF vars, Settled, Balanced, PaidFor, Waits, Aware, Announcing, At, Current, NoneOpen
<1>2. CASE Environment
    BY <1>2, SettledEnvironment
<1>3. ASSUME NEW s \in Servers, Tick(s) PROVE Balanced(r)' /\ PaidFor(r)' /\ Aware(r)'
  <2>1. <<s, "daily">> \in Sweepers
      BY DEF Sweepers
  <2> QED
      BY <1>3, <2>1, SettledSweep DEF Tick
<1>4. ASSUME NEW s \in Servers, Crash(s) PROVE Balanced(r)' /\ PaidFor(r)' /\ Aware(r)'
  <2>1. /\ \A b \in Actors : b \notin On(s) => sweeps'[b] = sweeps[b]
        /\ \A b \in On(s) : sweeps'[b].pc \notin { "flip", "notify" }
      BY <1>4 DEF Crash, On, Actors, Idle
  <2> QED
      BY <1>4, <2>1, SettledAbandon DEF Crash
<1>5. ASSUME NEW a \in Sweepers, Panic(a) PROVE Balanced(r)' /\ PaidFor(r)' /\ Aware(r)'
  <2>1. Server(a) \in Servers /\ { a } \in SUBSET On(Server(a)) /\ a \in Actors
      BY DEF Sweepers, Server, On, Actors
  <2>2. PICK w : Set(a, w) /\ w.pc \in { "idle", "return" }
      BY <1>5 DEF Panic, Finish, Idle
  <2>3. sweeps'[a] = w /\ \A b \in Actors : b # a => sweeps'[b] = sweeps[b]
      BY <2>1, <2>2 DEF Set, JobTypeOK
  <2> QED
      BY <1>5, <2>1, <2>2, <2>3, SettledAbandon DEF Panic
<1>6. ASSUME NEW a \in Sweepers, Trigger(a) \/ SweepStep(a)
      PROVE  Balanced(r)' /\ PaidFor(r)' /\ Aware(r)'
  <2>1. CASE \E q \in Risks : Call(a, q)
      BY <2>1, SettledCall DEF Actors
  <2>2. CASE Start(a)
      BY <2>2, SettledSweep DEF Start
  <2> QED
      BY <1>6, <2>1, <2>2, SettledSweep DEF SweepStep
<1>7. ASSUME NEW h \in Hands, NEW q \in Risks, Click(h, q)
      PROVE  Balanced(r)' /\ PaidFor(r)' /\ Aware(r)'
  <2> DEFINE w == [ pc |-> "count", page |-> { q }, progressed |-> FALSE ]
  <2>1. Set(h, w) /\ w.pc = "count" /\ h \in Actors /\ sweeps[h].pc # "notify"
      BY <1>7 DEF Click, Actors
  <2>2. UNCHANGED <<state, episodes, record, faults>>
      BY <1>7 DEF Click, InCall, record
  <2> HIDE DEF w
  <2> QED
      BY <2>1, <2>2, SettledTurn
<1>8. ASSUME NEW h \in Hands, NEW q \in Risks, Call(h, q)
      PROVE  Balanced(r)' /\ PaidFor(r)' /\ Aware(r)'
    BY <1>8, SettledCall DEF Actors
<1> QED
    BY <1>1, <1>2, <1>3, <1>4, <1>5, <1>6, <1>7, <1>8 DEF Next

\* However many servers sweep the same risks while however many people escalate them,
\* every escalation is announced unless a fault loses it, and a risk under remediation
\* is escalated once, except by those who counted before the first time and flip after
\* a comment.
THEOREM AnnouncedOncePerEpisode == Spec => []AnnouncedOnce
<1>1. Init => JobTypeOK /\ FlagsInv /\ Settled
    BY TypeInit, FlagsInit, SettledInit
<1>2. (JobTypeOK /\ FlagsInv /\ Settled) /\ [Next]_vars => (JobTypeOK /\ FlagsInv /\ Settled)'
    BY TypeNext, FlagsNext, SettledNext
<1>3. JobTypeOK /\ FlagsInv /\ Settled => AnnouncedOnce
    BY SettledIsEnough
<1> QED
    BY <1>1, <1>2, <1>3, PTL DEF Spec

=============================================================================
