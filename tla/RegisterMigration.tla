-------------------------- MODULE RegisterMigration --------------------------
(***************************************************************************)
(* The import of the historical risk register.  A run of the tool finds out  *)
(* from the entity how far earlier runs brought every row, performs the      *)
(* calls that are outstanding in the order of the Migration IDs, and then    *)
(* reads everything back; it stops at the first call that fails for a        *)
(* reason other than the row itself, and is run again.  There is no ledger:  *)
(* all a run knows is what it reads.                                        *)
(*                                                                         *)
(* Meanwhile the entity serves others.  People create risks in the same      *)
(* registers, and the nightly sweep escalates a risk whose date is past, even  *)
(* if it was not when the import began, until somebody comments.  A call can  *)
(* fail before it reaches the entity, after it was carried out, or leave a   *)
(* request behind that is carried out later.                                *)
(***************************************************************************)
EXTENDS RiskStatuses, SearchPages, Naturals, FiniteSets, FiniteSetsExt, Sequences

CONSTANTS
    Rows,          \* the Migration IDs of the rows to import
    Closed,        \* the rows with target CLOSED; the others' is IN_REMEDIATION
    Overdue,       \* the rows whose implementation date is past when the import begins
    LaterDue,      \* the rows whose implementation date passes while it goes on
    Differs,       \* the rows whose residual rating is not their gross rating
    Grants, GrantsOf(_),         \* the grants a row in remediation calls for
    Registers, RegisterOf(_),    \* the counter a row's risk code is taken from
    SearchLimit,   \* risks on one page of the search
    Connections,   \* transactions the entity's database runs at once
    MaxByHand,     \* bound: risks that people create
    MaxFaults      \* bound: calls that fail, crashes, risks created in the second of
                   \* another, and commits between the count and a page of a search

ASSUME MigrationAssumption ==
    /\ Rows \subseteq Nat \ { 0 } /\ IsFiniteSet(Rows) /\ Rows # {}
    /\ Closed \subseteq Rows /\ Overdue \subseteq Rows /\ LaterDue \subseteq Rows /\ Differs \subseteq Rows
    /\ \A r \in Rows : GrantsOf(r) \subseteq Grants /\ RegisterOf(r) \in Registers
    /\ SearchLimit \in Nat \ { 0 }
    /\ MaxByHand \in Nat /\ MaxFaults \in Nat
    /\ "none" \notin Connections

VARIABLES
    risks,       \* the risk table: of each risk, what the import reads and writes of it
    grants,      \* the grants given
    sequence,    \* risk_register_sequence and risk_customer_sequence
    creates,     \* the transactions creating a risk
    late,        \* writes left behind by a call that failed
    run,         \* what the tool is doing
    clean,       \* history: the dates, as the rows overdue on each, for which a run has
                 \* ended with nothing to report
    delayed,     \* history: the rows one of whose writes was left behind
    crossed,     \* history: the rows whose risk a search had yet to come upon when another
                 \* was committed between its count and its page
    faults

entity  == <<risks, grants, sequence, creates, late>>
history == <<clean, delayed, crossed>>
vars    == <<entity, run, history, faults>>

-----------------------------------------------------------------------------
(* The risks of the entity. *)

Fault == faults < MaxFaults /\ faults' = faults + 1

ByHand == 0   \* the row of a risk that a person creates

Born == "PENDING_RISK_OWNER_APPROVAL"

Risk == [ of : Rows \cup { ByHand }, register : Registers, number : Nat \ { 0 }, second : Nat,
          status : RiskStatuses, marked : Nat, swept : BOOLEAN,
          assessments : Nat, planDone : BOOLEAN ]

NoCreate == [ of |-> ByHand, register |-> "none", stage |-> "idle", number |-> 0, second |-> 0 ]

Idle(c) == creates[c] = NoCreate

\* Mutant: the counter read without FOR UPDATE.
LockedByNone(k) == FALSE

\* The counter's row is locked from the reservation to the end of the transaction.
Locked(k) == \E c \in Connections : creates[c].register = k /\ creates[c].stage = "numbered"

\* riskRepo.CreateRisk, in any connection that is idle (which one makes no difference):
\* the checks, then the number, then the inserts and the commit.
BeginCreate(c, r, k) ==
    /\ Idle(c) /\ c = CHOOSE d \in Connections : Idle(d)
    /\ creates' = [ creates EXCEPT ![c] =
                      [ of |-> r, register |-> k, stage |-> "checked", number |-> 0, second |-> 0 ] ]

\* The seconds of the risks and of those under way, counted as far as they tell them apart.
Seconds == { risks[i].second : i \in DOMAIN risks } \cup
           { creates[c].second : c \in { d \in Connections : creates[d].stage = "numbered" } }

\* A risk is inserted in the second of the latest, or in a new one.
Reserve(c) ==
    /\ creates[c].stage = "checked" /\ ~Locked(creates[c].register)
    /\ \E s \in Seconds \cup { t + 1 : t \in Seconds \cup { 0 } } :
          /\ \A t \in Seconds : t <= s
          /\ IF s \in Seconds THEN Fault ELSE UNCHANGED faults
          /\ creates' = [ creates EXCEPT ![c].stage = "numbered", ![c].second = s,
                                         ![c].number = sequence[creates[c].register] + 1 ]
    /\ UNCHANGED <<risks, grants, sequence, late, run, history>>

Inserted(t) ==
    /\ risks' = Append(risks, [ of |-> t.of, register |-> t.register, number |-> t.number,
                                second |-> t.second, status |-> Born, marked |-> 0, swept |-> FALSE,
                                assessments |-> 0, planDone |-> FALSE ])
    /\ sequence' = [ sequence EXCEPT ![t.register] = t.number ]

CreatedByHand == Cardinality({ i \in DOMAIN risks : risks[i].of = ByHand })
OpenByHand    == Cardinality({ c \in Connections : ~Idle(c) /\ creates[c].of = ByHand })

CreateByHand(c) ==
    /\ CreatedByHand + OpenByHand < MaxByHand
    /\ \E k \in Registers : BeginCreate(c, ByHand, k)
    /\ UNCHANGED <<risks, grants, sequence, late, run, history, faults>>

-----------------------------------------------------------------------------
(* What the tool wants of a row and reads of its risk. *)

Target(r) == IF r \in Closed THEN "CLOSED" ELSE "IN_REMEDIATION"

\* Mutant: a helper that the import and the verification share misses rows.
NeverResidual(r) == FALSE
NeedsResidualAssessment(r) == r \in Differs

\* Its implementation date is before the run's -migration-date.
WantsSuppressingEscalation(r) == r \notin Closed /\ r \in run.cutoff

ExpectedGrants(r) == IF r \in Closed THEN {} ELSE GrantsOf(r)

\* statusRank, and the hops of walkPath.
Path == << Born, "PENDING_COMPLIANCE_REVIEW", "IN_REMEDIATION",
           "PENDING_OWNER_COMPLETION_APPROVAL", "PENDING_COMPLIANCE_CLOSURE", "CLOSED" >>

Rank(s) == CHOOSE n \in DOMAIN Path : Path[n] = s

OnPath(s) == \E n \in DOMAIN Path : Path[n] = s

StatusAtLeast(current, target) == OnPath(current) /\ Rank(current) >= Rank(target)

\* The first hop that is not behind the risk; all of them are ahead of a
\* status off the path.
NextHop(current) == Path[IF OnPath(current) THEN Rank(current) + 1 ELSE 2]

HasOpenMarkerEscalation(i) == risks[i].marked > 0
HasMarkerAssessment(i)     == risks[i].assessments > 0
GrantsSatisfied(r)         == ExpectedGrants(r) \subseteq grants

\* Mutant: the status alone decides.
StageOfStatus(r, i, status) ==
    CASE ~StatusAtLeast(status, Target(r)) -> "Created"
      [] StatusAtLeast(status, Target(r)) -> "Complete"

StageOf(r, i, status) ==
    CASE ~StatusAtLeast(status, Target(r)) -> "Created"
      [] StatusAtLeast(status, Target(r)) ->
           IF \/ WantsSuppressingEscalation(r) /\ ~HasOpenMarkerEscalation(i)
              \/ r \in Closed /\ ~risks[i].planDone
           THEN "StatusWalked"
           ELSE IF ~GrantsSatisfied(r) THEN "Escalated"
           ELSE IF NeedsResidualAssessment(r) /\ ~HasMarkerAssessment(i) THEN "Granted"
           ELSE "Complete"

RisksOf(r) == { i \in DOMAIN risks : risks[i].of = r }

CreatedAt == [ i \in DOMAIN risks |-> risks[i].second ]

-----------------------------------------------------------------------------
(* A run of the tool. *)

Resume == [ stage : { "unread", "None", "Created", "StatusWalked", "Escalated",
                      "Granted", "Complete", "REJECT" },
            risk : Nat, status : RiskStatuses, assessed : BOOLEAN ]

Unread  == [ stage |-> "unread", risk |-> 0, status |-> Born, assessed |-> FALSE ]

\* A result of the search: again, that it has been on a page before.
Match == [ id : Nat, status : RiskStatuses, again : BOOLEAN ]

\* The locals of migrateRow: its row, and what is still to be done for it.
NoWork == [ row |-> 0, risk |-> 0, current |-> Born, on |-> "none", assess |-> FALSE,
            escalate |-> FALSE, grant |-> {}, plan |-> FALSE ]

\* cutoff: the rows whose date is before the run's -migration-date.
\* then, offset, total: what the search is for, and how far it is.
Off == [ pc |-> "off", cutoff |-> {}, then |-> "off", offset |-> 0, total |-> 0,
         found |-> [ r \in Rows |-> {} ], todo |-> {},
         resume |-> [ r \in Rows |-> Unread ], work |-> NoWork, findings |-> FALSE ]

First == Min(run.todo)
Work  == run.work

Init ==
    /\ risks = <<>> /\ grants = {} /\ late = {}
    /\ sequence = [ k \in Registers |-> 0 ]
    /\ creates = [ c \in Connections |-> NoCreate ]
    /\ run = Off /\ clean = {} /\ delayed = {} /\ crossed = {} /\ faults = 0

\* A call failed with a 409, a 5xx or in transport: the run stops.
Dies == Fault /\ run' = Off

\* A call was carried out: its answer arrives, or is lost and the run stops.
Answered(w) == \/ run' = [ run EXCEPT !.work = w ] /\ UNCHANGED faults
               \/ Dies

\* A 400, 404 or 422: the row is reported, and the run goes on with the next.
RejectRow == run' = [ run EXCEPT !.todo = @ \ { Work.row }, !.work = NoWork,
                                 !.findings = TRUE ]

\* The -migration-date of a run is the first one's, or its own day.
Start ==
    /\ run.pc = "off"
    /\ \E cutoff \in { Overdue, Overdue \cup LaterDue } :
        run' = [ Off EXCEPT !.pc = "count", !.then = "fetch", !.cutoff = cutoff ]
    /\ UNCHANGED <<entity, history, faults>>

\* searchMarkerRisks: the count of what there is ...
CountRisks ==
    /\ run.pc = "count"
    /\ run' = [ run EXCEPT !.pc = "select", !.total = Len(risks) ]
    /\ UNCHANGED <<entity, history, faults>>

\* The risks of a row that are on a page.
MatchesOn(page, r) ==
    { [ id |-> i, status |-> risks[i].status, again |-> \E x \in run.found[r] : x.id = i ] :
        i \in page \cap RisksOf(r) }

\* ... and, outside any transaction, a page of it; the offset moves on by what was on it.
SelectPage ==
    /\ run.pc = "select"
    /\ \E page \in PagesOf(DOMAIN risks, CreatedAt, run.offset, SearchLimit) :
          LET offset == run.offset + Cardinality(page)
              last   == page = {} \/ offset >= run.total
          IN  run' = [ run EXCEPT !.pc = IF last THEN run.then ELSE "count",
                                  !.offset = IF last THEN 0 ELSE offset,
                                  !.total = 0,
                                  !.found = [ r \in Rows |-> @[r] \cup MatchesOn(page, r) ],
                                  !.todo = IF last THEN Rows ELSE {} ]
    /\ UNCHANGED <<entity, history, faults>>

\* Mutant: a search that leaves closed risks out.
ResumeOpen(r) ==
    LET open == { x \in run.found[r] : x.status # "CLOSED" }
    IN  IF open = {} THEN [ Unread EXCEPT !.stage = "None" ]
        ELSE LET m == CHOOSE x \in open : TRUE
             IN  [ stage |-> StageOf(r, m.id, m.status), risk |-> m.id,
                   status |-> m.status, assessed |-> HasMarkerAssessment(m.id) ]

\* reconstructState: where a row is taken up.
ResumeState(r) ==
    CASE run.found[r] = {} -> [ Unread EXCEPT !.stage = "None" ]
      [] Cardinality(run.found[r]) = 1 ->
           LET m == CHOOSE x \in run.found[r] : TRUE
           IN  [ stage |-> StageOf(r, m.id, m.status), risk |-> m.id,
                 status |-> m.status, assessed |-> HasMarkerAssessment(m.id) ]
      [] Cardinality(run.found[r]) > 1 -> [ Unread EXCEPT !.stage = "REJECT" ]

Fetch ==
    /\ run.pc = "fetch"
    /\ LET rs == ResumeState(First)
            last == run.todo = { First }
       IN  run' = [ run EXCEPT
                     !.pc = IF last THEN "write" ELSE "fetch",
                     !.todo = IF last THEN Rows ELSE @ \ { First },
                     !.found[First] = {},
                     !.resume[First] = rs,
                     !.findings = @ \/ rs.stage = "REJECT" ]
    /\ UNCHANGED <<entity, history, faults>>

Writing == run.pc = "write" /\ run.todo # {}

\* The row is skipped, or migrateRow begins.
TakeRow ==
    /\ Writing /\ Work = NoWork
    /\ LET rs == run.resume[First]
       IN  run' = IF rs.stage \in { "REJECT", "Complete" }
                  THEN [ run EXCEPT !.todo = @ \ { First }, !.resume[First] = Unread ]
                  ELSE [ run EXCEPT !.resume[First] = Unread, !.work =
                           [ row |-> First, risk |-> rs.risk, current |-> rs.status,
                             on |-> "none",
                             assess |-> NeedsResidualAssessment(First) /\ ~rs.assessed,
                             escalate |-> WantsSuppressingEscalation(First),
                             grant |-> ExpectedGrants(First), plan |-> First \in Closed ] ]
    /\ UNCHANGED <<entity, history, faults>>

\* The call that is next for the row.
Due(call) ==
    /\ Writing /\ Work # NoWork
    /\ call = CASE Work.risk = 0 -> "create"
                [] Work.risk # 0 /\ Work.assess -> "assess"
                [] OTHER -> IF ~StatusAtLeast(Work.current, Target(Work.row)) THEN "walk"
                            ELSE IF Work.escalate THEN "escalate"
                            ELSE IF Work.grant # {} THEN "grant"
                            ELSE IF Work.plan THEN "plan" ELSE "nothing"

-----------------------------------------------------------------------------
(* migrateRow. *)

PostRisk(c) ==
    /\ Due("create") /\ Work.on = "none"
    /\ BeginCreate(c, Work.row, RegisterOf(Work.row))
    /\ run' = [ run EXCEPT !.work.on = c ]
    /\ UNCHANGED <<risks, grants, sequence, late, history, faults>>

\* The rows whose risk the search has yet to come upon, having counted it.
Unseen == { r \in Rows : run.pc = "select" /\ RisksOf(r) # {} /\ run.found[r] = {} }

\* The transaction commits; whoever asked for it may be gone.
Commit(c) ==
    /\ creates[c].stage = "numbered"
    /\ Inserted(creates[c])
    /\ creates' = [ creates EXCEPT ![c] = NoCreate ]
    /\ IF Work.on = c
       THEN Answered([ Work EXCEPT !.risk = Len(risks) + 1, !.on = "none" ])
       ELSE UNCHANGED run /\ IF Unseen = {} THEN UNCHANGED faults ELSE Fault
    /\ crossed' = crossed \cup Unseen
    /\ UNCHANGED <<grants, late, clean, delayed>>

\* The transaction rolls back, and its number with it: for the row's sake, or not.
Rollback(c) ==
    /\ ~Idle(c)
    /\ creates' = [ creates EXCEPT ![c] = NoCreate ]
    /\ IF Work.on = c THEN Dies \/ (Fault /\ RejectRow)
       ELSE Fault /\ UNCHANGED run
    /\ UNCHANGED <<risks, grants, sequence, late, history>>

PostAssessment ==
    /\ Due("assess")
    /\ risks' = [ risks EXCEPT ![Work.risk].assessments = @ + 1 ]
    /\ Answered([ Work EXCEPT !.assess = FALSE ])
    /\ UNCHANGED <<grants, sequence, creates, late, history>>

\* PATCH /risks/{id} with the status the tool believes the risk has.
PatchRisk ==
    /\ Due("walk")
    /\ LET hop == NextHop(Work.current)
       IN  \/ /\ IsValidRiskTransition(Work.current, hop)
              /\ risks[Work.risk].status = Work.current
              /\ risks' = [ risks EXCEPT ![Work.risk].status = hop ]
              /\ Answered([ Work EXCEPT !.current = hop ])
           \/ /\ IsValidRiskTransition(Work.current, hop)
              /\ risks[Work.risk].status # Work.current
              /\ run' = Off
              /\ UNCHANGED <<risks, faults>>
           \/ /\ ~IsValidRiskTransition(Work.current, hop)
              /\ RejectRow
              /\ UNCHANGED <<risks, faults>>
    /\ UNCHANGED <<grants, sequence, creates, late, history>>

\* Mutant: the open escalations are not looked at first.
PostEscalationUnseen ==
    /\ Due("escalate")
    /\ risks' = [ risks EXCEPT ![Work.risk].marked = @ + 1 ]
    /\ Answered([ Work EXCEPT !.escalate = FALSE ])
    /\ UNCHANGED <<grants, sequence, creates, late, history>>

PostEscalation ==
    /\ Due("escalate")
    /\ risks' = IF HasOpenMarkerEscalation(Work.risk) THEN risks
                ELSE [ risks EXCEPT ![Work.risk].marked = @ + 1 ]
    /\ Answered([ Work EXCEPT !.escalate = FALSE ])
    /\ UNCHANGED <<grants, sequence, creates, late, history>>

PostGrant(g) ==
    /\ Due("grant") /\ g \in Work.grant
    /\ grants' = grants \cup { g }
    /\ Answered([ Work EXCEPT !.grant = @ \ { g } ])
    /\ UNCHANGED <<risks, sequence, creates, late, history>>

PatchActionPlan ==
    /\ Due("plan")
    /\ risks' = [ risks EXCEPT ![Work.risk].planDone = TRUE ]
    /\ Answered([ Work EXCEPT !.plan = FALSE ])
    /\ UNCHANGED <<grants, sequence, creates, late, history>>

RowDone ==
    /\ Due("nothing")
    /\ run' = [ run EXCEPT !.todo = @ \ { Work.row }, !.work = NoWork ]
    /\ UNCHANGED <<entity, history, faults>>

\* The run stops between two calls, or at one that never reached the entity.
Stops ==
    /\ run.pc # "off" /\ Work.on = "none"
    /\ Dies
    /\ UNCHANGED <<entity, history>>

\* The run stops waiting for a call the entity has yet to carry out.
GivesUp ==
    /\ \/ Work.on # "none" /\ late' = late
       \/ /\ Due("assess") \/ (Due("escalate") /\ ~HasOpenMarkerEscalation(Work.risk))
          /\ late' = late \cup { [ what |-> IF Due("assess") THEN "assessment" ELSE "escalation",
                                   risk |-> Work.risk ] }
    /\ delayed' = delayed \cup { Work.row }
    /\ Dies
    /\ UNCHANGED <<risks, grants, sequence, creates, clean, crossed>>

\* A write left behind takes effect, or is lost after all.
Arrives(w) ==
    /\ w \in late /\ late' = late \ { w }
    /\ \/ risks' = IF w.what = "assessment"
                   THEN [ risks EXCEPT ![w.risk].assessments = @ + 1 ]
                   ELSE [ risks EXCEPT ![w.risk].marked = @ + 1 ]
       \/ risks' = risks
    /\ UNCHANGED <<grants, sequence, creates, run, history, faults>>

-----------------------------------------------------------------------------
(* verifyMigration. *)

BeginVerify ==
    /\ run.pc = "write" /\ run.todo = {}
    /\ run' = [ run EXCEPT !.pc = "count", !.then = "verify" ]
    /\ UNCHANGED <<entity, history, faults>>

VerifyRow(r, i) ==
    /\ risks[i].status = Target(r)
    /\ NeedsResidualAssessment(r) => HasMarkerAssessment(i)
    /\ HasOpenMarkerEscalation(i) <=> WantsSuppressingEscalation(r)
    /\ GrantsSatisfied(r)
    /\ r \in Closed => risks[i].planDone

Verify ==
    /\ run.pc = "verify"
    /\ LET found == run.found[First]
            bad   == ~ \E m \in found : found = { m } /\ VerifyRow(First, m.id)
       IN  IF run.todo = { First }
           THEN run' = Off /\ clean' = clean \cup (IF bad \/ run.findings THEN {} ELSE { run.cutoff })
           ELSE /\ run' = [ run EXCEPT !.todo = @ \ { First }, !.found[First] = {},
                                       !.findings = @ \/ bad ]
                /\ UNCHANGED clean
    /\ UNCHANGED <<entity, delayed, crossed, faults>>

-----------------------------------------------------------------------------
(* Everyone else. *)

\* The nightly sweep: see EscalationJob.
SweepEscalates(i) ==
    /\ risks[i].status = "IN_REMEDIATION" /\ risks[i].of \in Overdue \cup LaterDue
    /\ ~HasOpenMarkerEscalation(i) /\ ~risks[i].swept
    /\ risks' = [ risks EXCEPT ![i].status = "ESCALATED", ![i].swept = TRUE ]
    /\ UNCHANGED <<grants, sequence, creates, late, run, history, faults>>

\* A comment returns the risk; its escalation stays OPEN.
Comment(i) ==
    /\ risks[i].status = "ESCALATED"
    /\ risks' = [ risks EXCEPT ![i].status = "IN_REMEDIATION" ]
    /\ UNCHANGED <<grants, sequence, creates, late, run, history, faults>>

Tool ==
    \/ Start \/ CountRisks \/ SelectPage \/ Fetch \/ TakeRow
    \/ \E c \in Connections : PostRisk(c)
    \/ PostAssessment \/ PatchRisk \/ PostEscalation
    \/ \E g \in Grants : PostGrant(g)
    \/ PatchActionPlan \/ RowDone \/ BeginVerify \/ Verify

Next ==
    \/ Tool \/ Stops \/ GivesUp
    \/ \E c \in Connections : CreateByHand(c) \/ Reserve(c) \/ Commit(c) \/ Rollback(c)
    \/ \E w \in late : Arrives(w)
    \/ \E i \in DOMAIN risks : SweepEscalates(i) \/ Comment(i)

Spec == Init /\ [][Next]_vars

\* The operator runs the tool again, the tool does what is next, and the
\* database brings its transactions to an end.
FairSpec ==
    /\ Spec
    /\ WF_vars(Tool)
    /\ \A c \in Connections : WF_vars(Reserve(c)) /\ WF_vars(Commit(c))

=============================================================================
