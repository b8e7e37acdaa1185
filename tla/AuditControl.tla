---------------------------- MODULE AuditControl ----------------------------
(***************************************************************************)
(* One control of an audit with its population and evidence rounds, and    *)
(* the requests that work on it.                                           *)
(*                                                                         *)
(* A request of the backend is a chain of calls to the compliance entity:  *)
(* each call is a step here, and where the entity reads a row and then     *)
(* updates it on condition of the status it read, so is each of the two.   *)
(* Between any two steps other requests may run, or the request may be     *)
(* lost.  A request stands for one call of the API and is used once; the   *)
(* initial states are those in which a control can be at rest, so that any *)
(* Requests operations overlap from any of them.                           *)
(*                                                                         *)
(* Holders of ManageControls may make every request, whoever else may: the *)
(* gates of the other callers restrict no behaviour and are left out.      *)
(***************************************************************************)
EXTENDS AuditLifecycle

CONSTANTS
    Requests,   \* the requests
    MaxRounds   \* bound: rows of audit_population, and of audit_evidence

ASSUME RoundsAssumption == MaxRounds \in Nat \ { 0 }

VARIABLES
    rounds,     \* audit_population.status and audit_evidence.status by kind and id
    content,    \* the round has files, a note (attestation), or both
    req,        \* the requests
    view        \* the rounds as the override under way has read them

vars == <<lifecycle, rounds, content, req, view>>

RoundIds == 1 .. MaxRounds

Rows(kind) == { i \in RoundIds : rounds[kind][i] \notin { "NONE", "GONE" } }

\* MAX(id) of the control's rows, or the absence of a newer one.
IsLatest(kind, i) == i \in Rows(kind) /\ \A j \in Rows(kind) : j <= i

\* The id the next insert gets.
IsNew(kind, i) ==
    /\ rounds[kind][i] = "NONE"
    /\ \A j \in RoundIds : j < i => rounds[kind][j] # "NONE"

ControlExists == status \in ControlStatuses

Request ==
    [ pc : { "new", "list", "replace", "record", "insert", "open", "latest", "readRound",
             "setRound", "readControl", "setControl", "discard", "dropFile", "dropRound",
             "reconcile", "override", "demote", "remove", "done" },
      mode : { "plain", "submission", "forced" },
      kind : Kinds, id : 0 .. MaxRounds, seen : RowStatuses \cup RoundStatuses,
      rto : RoundStatuses, cto : ControlStatuses ]

Blank == [ pc |-> "new", mode |-> "plain", kind |-> "evidence", id |-> 0, seen |-> "ABSENT",
           rto |-> "SUBMITTED", cto |-> "EVIDENCE_INTERNAL_REVIEW" ]

AuditTypeOK ==
    /\ LifecycleTypeOK
    /\ rounds \in [ Kinds -> [ RoundIds -> RoundStatuses \cup { "NONE", "GONE" } ] ]
    /\ content \in [ Kinds -> [ RoundIds -> SUBSET { "files", "note" } ] ]
    /\ req \in [ Requests -> Request ]
    /\ view \in [ Kinds -> [ RoundIds -> RoundStatuses \cup { "NONE", "GONE" } ] ]

-----------------------------------------------------------------------------
(* The control at rest: the first round of each kind is where the control's *)
(* status says it is, and no later round exists.                           *)

PopulationAtRest ==
    IF type = "DESIGN" \/ status = "ABSENT" THEN { "NONE" }
    ELSE CASE status = "POPULATION_PENDING" -> { "PENDING", "COMPLIANCE_REJECTED" }
           [] status = "POPULATION_INTERNAL_REVIEW" -> { "SUBMITTED" }
           [] status = "POPULATION_UNDER_VALIDATION" -> { "COMPLIANCE_APPROVED" }
           [] status = "POPULATION_NEED_CLARIFICATION" -> { "AUDITOR_REJECTED" }
           [] OTHER -> { "APPROVED" }

EvidenceAtRest ==
    CASE status = "EVIDENCE_PENDING" -> { "NONE", "COMPLIANCE_REJECTED" }
      [] status = "EVIDENCE_INTERNAL_REVIEW" -> { "SUBMITTED" }
      [] status = "EVIDENCE_UNDER_VALIDATION" -> { "COMPLIANCE_APPROVED" }
      [] status = "EVIDENCE_NEED_CLARIFICATION" -> { "AUDITOR_REJECTED" }
      [] status = "COMPLETE" -> { "APPROVED" }
      [] OTHER -> { "NONE" }

NoView == [ k \in Kinds |-> [ i \in RoundIds |-> "NONE" ] ]

First(roundStatus) == [ i \in RoundIds |-> IF i = 1 THEN roundStatus ELSE "NONE" ]

Init ==
    /\ LifecycleInit
    /\ status # "DELETED"
    /\ audit \in { Recomputed(othersDone, status), "ARCHIVED", "REMOVED" }
    /\ type = "DESIGN" /\ ControlExists => ControlStatusRank[status] >= DesignControlFloorRank
    /\ \E p \in PopulationAtRest, e \in EvidenceAtRest :
          rounds = [ k \in Kinds |-> First(IF k = "population" THEN p ELSE e) ]
    /\ \E filed \in BOOLEAN :
          content = [ k \in Kinds |-> [ i \in RoundIds |->
                        IF i \notin Rows(k) THEN {} ELSE IF filed THEN { "files" }
                        ELSE IF k = "evidence" THEN { "note" } ELSE {} ] ]
    /\ req = [ q \in Requests |-> Blank ]
    /\ view = NoView

-----------------------------------------------------------------------------
Asked(q) == req[q].pc = "new"

At(q, pc) == req[q].pc = pc

OnlyRequests == UNCHANGED <<lifecycle, rounds, content, view>>

\* An override holds the control's row from its update until its commit: who writes
\* the row, or inserts a round that refers to it, waits.
Unlocked == \A q \in Requests : ~ At(q, "demote")

\* A request begins, and its first call is still to come.
Begin(q, r) ==
    /\ Asked(q)
    /\ req' = [ req EXCEPT ![q] = r ]
    /\ OnlyRequests

Goto(q, pc) == req' = [ req EXCEPT ![q].pc = pc ]

Finish(q) == req' = [ req EXCEPT ![q] = [ Blank EXCEPT !.pc = "done" ] ]

\* UpdateControl failed: only a submission undoes what it has done so far.
Fail(q) == IF req[q].mode = "submission" THEN Goto(q, "discard") ELSE Finish(q)

SetTo(cto) == [ Blank EXCEPT !.pc = "readControl", !.cto = cto ]

\* requireControlNotComplete
NotComplete == ControlExists /\ status # "COMPLETE"

-----------------------------------------------------------------------------
(* Populations. *)

ActivePopulation(i) ==
    /\ IsLatest("population", i)
    /\ rounds["population"][i] \in { "PENDING", "SUBMITTED" } \cup Rejected

SubmitPopulation(q) ==
    /\ NotComplete
    /\ \E i \in RoundIds :
          /\ ActivePopulation(i)
          /\ Begin(q, [ Blank EXCEPT !.pc = "list", !.kind = "population", !.id = i,
                                     !.cto = "POPULATION_INTERNAL_REVIEW" ])

\* The service lists the rounds again: only the latest is open to the team.
ListRounds(q) ==
    /\ At(q, "list")
    /\ IF ~ IsLatest("population", req[q].id) THEN Finish(q)
       ELSE Goto(q, IF rounds["population"][req[q].id] \in Rejected THEN "replace" ELSE "record")
    /\ OnlyRequests

\* createReplacementRound checks under lock that the rejected round is the latest.
StillLatest(i) == IsLatest("population", i)

CreateReplacementRound(q) ==
    /\ At(q, "replace") /\ Unlocked
    /\ IF StillLatest(req[q].id)
       THEN \E new \in RoundIds :
              /\ IsNew("population", new)
              /\ rounds' = [ rounds EXCEPT !["population"][new] = "PENDING" ]
              /\ req' = [ req EXCEPT ![q].pc = "record", ![q].id = new ]
       ELSE Finish(q) /\ UNCHANGED rounds
    /\ UNCHANGED <<lifecycle, content, view>>

\* The files of a submission are recorded, each by a call of its own: on a round
\* that is gone, or by a call that fails, none.  A population may come as a note.
RecordFiles(q) ==
    LET kind == req[q].kind
        i    == req[q].id
    IN  /\ At(q, "record")
        /\ \/ /\ i \in Rows(kind)
              /\ \E new \in { {}, { "files" } } :
                    /\ kind = "evidence" => new # {}
                    /\ content' = [ content EXCEPT ![kind][i] = @ \cup new ]
              /\ IF kind = "population" THEN Goto(q, "readRound")
                 ELSE IF req[q].mode = "submission" THEN Goto(q, "readControl")
                 ELSE Finish(q)
           \/ /\ Fail(q)
              /\ UNCHANGED content
        /\ UNCHANGED <<lifecycle, rounds, view>>

-----------------------------------------------------------------------------
(* Evidence. *)

SubmitEvidence(q) ==
    /\ NotComplete
    /\ Begin(q, [ Blank EXCEPT !.pc = "insert", !.mode = "submission" ])

\* Every submission starts a round, SUBMITTED from its insert; without files it is
\* an attestation.
CreateEvidence(q) ==
    /\ At(q, "insert") /\ Unlocked
    /\ IF ControlExists
       THEN \E i \in RoundIds, note \in { {}, { "note" } } :
              /\ IsNew("evidence", i)
              /\ rounds' = [ rounds EXCEPT !["evidence"][i] = "SUBMITTED" ]
              /\ content' = [ content EXCEPT !["evidence"][i] = note ]
              /\ req' = [ req EXCEPT ![q].id = i,
                            ![q].pc = IF note = {} THEN "record" ELSE "readControl" ]
       ELSE Finish(q) /\ UNCHANGED <<rounds, content>>
    /\ UNCHANGED <<lifecycle, view>>

AddEvidenceFiles(q) == NotComplete /\ Begin(q, [ Blank EXCEPT !.pc = "open" ])

\* AddFiles looks for the round under review; the files follow.
OpenRound(q) ==
    /\ At(q, "open")
    /\ \/ \E i \in RoundIds :
             /\ IsLatest("evidence", i)
             /\ rounds["evidence"][i] = "SUBMITTED"
             /\ req' = [ req EXCEPT ![q].pc = "record", ![q].id = i ]
       \/ /\ \A i \in RoundIds : IsLatest("evidence", i) => rounds["evidence"][i] # "SUBMITTED"
          /\ Finish(q)
    /\ OnlyRequests

\* DELETE ... LEFT JOIN a newer round ... IS NULL
Deletable(i) == IsLatest("evidence", i)

DeleteEvidence(q) ==
    IF Deletable(req[q].id)
    THEN /\ rounds' = [ rounds EXCEPT !["evidence"][req[q].id] = "GONE" ]
         /\ content' = [ content EXCEPT !["evidence"][req[q].id] = {} ]
    ELSE UNCHANGED <<rounds, content>>

\* The submission failed after its insert, or seems to have failed.
DiscardRound(q) ==
    /\ At(q, "discard")
    /\ DeleteEvidence(q)
    /\ Finish(q)
    /\ UNCHANGED <<lifecycle, view>>

WithdrawEvidence(q) ==
    /\ status = "EVIDENCE_INTERNAL_REVIEW"
    /\ Begin(q, SetTo("EVIDENCE_PENDING"))

\* Only a fileless round is deleted whole, and only the latest.
DeleteEvidenceRound(q) ==
    /\ NotComplete
    /\ \E i \in RoundIds :
          /\ IsLatest("evidence", i)
          /\ "files" \notin content["evidence"][i]
          /\ Begin(q, [ Blank EXCEPT !.pc = "dropRound", !.id = i ])

DropRound(q) ==
    /\ At(q, "dropRound")
    /\ DeleteEvidence(q)
    /\ Goto(q, "reconcile")
    /\ UNCHANGED <<lifecycle, view>>

DeleteEvidenceFile(q) ==
    /\ NotComplete
    /\ \E i \in RoundIds :
          /\ IsLatest("evidence", i)
          /\ "files" \in content["evidence"][i]
          /\ Begin(q, [ Blank EXCEPT !.pc = "dropFile", !.id = i ])

DeletePopulationFile(q) ==
    /\ NotComplete
    /\ \E i \in Rows("population") :
          /\ "files" \in content["population"][i]
          /\ Begin(q, [ Blank EXCEPT !.pc = "dropFile", !.kind = "population", !.id = i ])

\* Mutant: a superseded round loses a file as any other.
EveryRound(kind, i) == i \in Rows(kind)

\* DELETE ... AND NOT EXISTS a newer round
FilesDeletable(kind, i) == IsLatest(kind, i)

\* It may be the round's last file or not.
DropFile(q) ==
    LET kind == req[q].kind
        i    == req[q].id
    IN  /\ At(q, "dropFile")
        /\ \/ /\ FilesDeletable(kind, i)
              /\ content' = [ content EXCEPT ![kind][i] = @ \ { "files" } ]
           \/ UNCHANGED content
        /\ IF kind = "evidence" THEN Goto(q, "reconcile") ELSE Finish(q)
        /\ UNCHANGED <<lifecycle, rounds, view>>

\* reconcileAfterDelete: an emptied submission goes back to the team.
Reconcile(q) ==
    /\ At(q, "reconcile")
    /\ IF /\ status = "EVIDENCE_INTERNAL_REVIEW"
          /\ \A i \in RoundIds : IsLatest("evidence", i) => content["evidence"][i] = {}
       THEN req' = [ req EXCEPT ![q] = SetTo("EVIDENCE_PENDING") ]
       ELSE Finish(q)
    /\ OnlyRequests

-----------------------------------------------------------------------------
(* Decisions on the latest round, and the writes they end with. *)

Decision(kind, from, rto, cto) ==
    [ from |-> from, ask |-> [ Blank EXCEPT !.pc = "latest", !.kind = kind, !.rto = rto, !.cto = cto ] ]

ReviewPopulation ==
    { Decision("population", "POPULATION_INTERNAL_REVIEW",
               "COMPLIANCE_APPROVED", "POPULATION_UNDER_VALIDATION"),
      Decision("population", "POPULATION_INTERNAL_REVIEW",
               "COMPLIANCE_REJECTED", "POPULATION_PENDING") }

ValidatePopulation ==
    { Decision("population", "POPULATION_UNDER_VALIDATION", "APPROVED", "POPULATION_COMPLETE"),
      Decision("population", "POPULATION_UNDER_VALIDATION",
               "AUDITOR_REJECTED", "POPULATION_NEED_CLARIFICATION") }

ReviewEvidence ==
    { Decision("evidence", "EVIDENCE_INTERNAL_REVIEW",
               "COMPLIANCE_APPROVED", "EVIDENCE_UNDER_VALIDATION"),
      Decision("evidence", "EVIDENCE_INTERNAL_REVIEW", "COMPLIANCE_REJECTED", "EVIDENCE_PENDING") }

ValidateEvidence ==
    { Decision("evidence", "EVIDENCE_UNDER_VALIDATION", "APPROVED", "COMPLETE"),
      Decision("evidence", "EVIDENCE_UNDER_VALIDATION",
               "AUDITOR_REJECTED", "EVIDENCE_NEED_CLARIFICATION") }

DecideRound(q) ==
    \E d \in ReviewPopulation \cup ValidatePopulation \cup ReviewEvidence \cup ValidateEvidence :
        /\ status = d.from
        /\ Begin(q, d.ask)

LatestRound(q) ==
    /\ At(q, "latest")
    /\ \/ \E i \in RoundIds :
             /\ IsLatest(req[q].kind, i)
             /\ req' = [ req EXCEPT ![q].pc = "readRound", ![q].id = i ]
       \/ Rows(req[q].kind) = {} /\ Finish(q)
    /\ OnlyRequests

\* UpdatePopulation and UpdateEvidence: the entity reads the round and checks the
\* transition; the update holds only if the round is as it was read.
ReadRound(q) ==
    LET at == rounds[req[q].kind][req[q].id]
    IN  /\ At(q, "readRound")
        /\ IF /\ req[q].id \in Rows(req[q].kind)
              /\ ValidRoundTransition(req[q].kind, at, req[q].rto)
           THEN req' = [ req EXCEPT ![q].pc = "setRound", ![q].seen = at ]
           ELSE Finish(q)
        /\ OnlyRequests

\* Mutant: the update of the round no longer checks the status that was read.
RoundExists(q) == req[q].id \in Rows(req[q].kind)

RoundUnchanged(q) == rounds[req[q].kind][req[q].id] = req[q].seen

SetRound(q) ==
    /\ At(q, "setRound")
    /\ IF RoundUnchanged(q)
       THEN /\ rounds' = [ rounds EXCEPT ![req[q].kind][req[q].id] = req[q].rto ]
            /\ Goto(q, "readControl")
       ELSE Finish(q) /\ UNCHANGED rounds
    /\ UNCHANGED <<lifecycle, content, view>>

\* UpdateControl likewise.
ReadControl(q) ==
    /\ At(q, "readControl")
    /\ IF ControlExists /\ ValidControlTransition(status, req[q].cto)
       THEN req' = [ req EXCEPT ![q].pc = "setControl", ![q].seen = status ]
       ELSE Fail(q)
    /\ OnlyRequests

\* Mutant: the update of the control no longer checks the status that was read.
ControlThere(q) == ControlExists

ControlUnchanged(q) == status = req[q].seen

\* The answer may get lost, and a submission then takes its update as failed.
SetControl(q) ==
    /\ At(q, "setControl") /\ Unlocked
    /\ IF ControlUnchanged(q)
       THEN MoveTo(req[q].cto) /\ (Finish(q) \/ Fail(q))
       ELSE Fail(q) /\ UNCHANGED lifecycle
    /\ UNCHANGED <<rounds, content, view>>

-----------------------------------------------------------------------------
(* Samples and the administration of the control. *)

SampleEligible == { "POPULATION_COMPLETE", "AWAITING_SAMPLE", "SUBMITTED_SAMPLE" }

\* The sample's files go to the population round and are not counted here.
SubmitSample(q) ==
    /\ status \in SampleEligible
    /\ Rows("population") # {}
    /\ Begin(q, SetTo("SUBMITTED_SAMPLE"))

RequestSampleTime(q) ==
    /\ status = "POPULATION_COMPLETE"
    /\ Begin(q, SetTo("AWAITING_SAMPLE"))

UpdateControlStatus(q) ==
    /\ ControlExists
    /\ \E cto \in ControlStatuses : Begin(q, SetTo(cto))

\* The type and the status are read here; only the status is checked again.
OverrideStatus(q) ==
    /\ ControlExists
    /\ audit # "REMOVED"
    /\ \E to \in ControlStatuses :
          /\ ValidOverrideTransition(type, status, to)
          /\ Begin(q, [ Blank EXCEPT !.pc = "override", !.seen = status, !.cto = to ])

\* One transaction: the update of the control, if it has the status decided on, holds
\* its row from here on; then a plain read of the rounds.
ReadRoundsToDemote(q) ==
    /\ At(q, "override") /\ Unlocked
    /\ IF status = req[q].seen THEN Goto(q, "demote") /\ view' = rounds
       ELSE Finish(q) /\ UNCHANGED view
    /\ UNCHANGED <<lifecycle, rounds, content>>

LatestRead(kind, i) ==
    /\ view[kind][i] \in RoundStatuses
    /\ \A j \in RoundIds : view[kind][j] \in RoundStatuses => j <= i

\* The latest round was read above the target of the override: down only.
ReadAbove(kind, i, to) ==
    /\ LatestRead(kind, i)
    /\ OverrideTarget(kind, to) # "none"
    /\ RoundStatusRank[OverrideTarget(kind, to)] < RoundStatusRank[view[kind][i]]

\* demotePopulationRound and demoteEvidenceRound update the round by its id, if it is
\* still there, whatever its status is by now; then the commit.
ApplyOverride(q) ==
    LET to == req[q].cto
    IN  /\ At(q, "demote")
        /\ MoveTo(to)
        /\ rounds' = [ k \in Kinds |-> [ i \in RoundIds |->
                         IF i \in Rows(k) /\ ReadAbove(k, i, to) THEN OverrideTarget(k, to)
                         ELSE rounds[k][i] ] ]
        /\ view' = NoView
        /\ Finish(q)
        /\ UNCHANGED content

\* CountDeletionBlockers
DeletionBlocked ==
    \/ Rows("evidence") # {}
    \/ \E i \in Rows("population") :
          rounds["population"][i] # "PENDING" \/ "files" \in content["population"][i]

DeleteControl(q) ==
    /\ ControlExists
    /\ \E mode \in { "plain", "forced" } :
          /\ mode = "plain" => ~ DeletionBlocked
          /\ Begin(q, [ Blank EXCEPT !.pc = "remove", !.mode = mode ])

\* The rounds and their files go with the control.
RemoveControl(q) ==
    /\ At(q, "remove") /\ Unlocked
    /\ IF ControlExists
       THEN /\ MoveTo("DELETED")
            /\ rounds' = [ k \in Kinds |-> [ i \in RoundIds |->
                             IF rounds[k][i] = "NONE" THEN "NONE" ELSE "GONE" ] ]
            /\ content' = [ k \in Kinds |-> [ i \in RoundIds |-> {} ] ]
       ELSE UNCHANGED <<lifecycle, rounds, content>>
    /\ Finish(q)
    /\ UNCHANGED view

\* CreateControl and BulkCreateControls, one transaction each.
CreateControl(q) ==
    /\ Asked(q)
    /\ \E t \in RequirementTypes :
          /\ Create(t)
          /\ rounds' = IF t = "OE" THEN [ rounds EXCEPT !["population"][1] = "PENDING" ] ELSE rounds
    /\ Finish(q)
    /\ UNCHANGED <<content, view>>

\* Uploads are recorded before the submission changes the status of the round.
Untouched(i) == rounds["population"][i] = "PENDING" /\ content["population"][i] = {}

PopulationDropped ==
    [ rounds EXCEPT !["population"] =
        [ i \in RoundIds |-> IF rounds["population"][i] = "NONE" THEN "NONE" ELSE "GONE" ] ]

\* The control and its rounds are locked before they are looked at.
ChangeRequirementType(q) ==
    /\ Asked(q) /\ Unlocked
    /\ Rows("evidence") = {}
    /\ \/ /\ Rows("population") = {}
          /\ SwitchType("OE")
          /\ \E new \in RoundIds :
                /\ IsNew("population", new)
                /\ rounds' = [ rounds EXCEPT !["population"][new] = "PENDING" ]
          /\ UNCHANGED content
       \/ /\ \E i \in RoundIds : Rows("population") = { i } /\ Untouched(i)
          /\ SwitchType("DESIGN")
          /\ rounds' = PopulationDropped
          /\ content' = [ content EXCEPT !["population"] = [ i \in RoundIds |-> {} ] ]
    /\ Finish(q)
    /\ UNCHANGED view

UpdateAudit(q) ==
    /\ Asked(q)
    /\ \E new \in AuditStatusSet : SetAudit(new)
    /\ Finish(q)
    /\ UNCHANGED <<rounds, content, view>>

DeleteAudit(q) ==
    /\ Asked(q)
    /\ SetAudit("REMOVED")
    /\ Finish(q)
    /\ UNCHANGED <<rounds, content, view>>

OtherControls ==
    /\ OthersMove
    /\ UNCHANGED <<rounds, content, req, view>>

\* A call fails or its answer is lost, or the backend stops: what is done stays done,
\* and an override not yet committed is undone.
Lost(q) ==
    /\ ~ At(q, "done")
    /\ view' = IF At(q, "demote") THEN NoView ELSE view
    /\ Finish(q)
    /\ UNCHANGED <<lifecycle, rounds, content>>

RequestStep(q) ==
    \/ SubmitPopulation(q) \/ ListRounds(q) \/ CreateReplacementRound(q) \/ RecordFiles(q)
    \/ SubmitEvidence(q) \/ CreateEvidence(q) \/ AddEvidenceFiles(q) \/ OpenRound(q)
    \/ DiscardRound(q) \/ WithdrawEvidence(q) \/ DeleteEvidenceRound(q) \/ DropRound(q)
    \/ DeleteEvidenceFile(q) \/ DeletePopulationFile(q) \/ DropFile(q) \/ Reconcile(q)
    \/ DecideRound(q) \/ LatestRound(q) \/ ReadRound(q) \/ SetRound(q)
    \/ ReadControl(q) \/ SetControl(q)
    \/ SubmitSample(q) \/ RequestSampleTime(q) \/ UpdateControlStatus(q)
    \/ OverrideStatus(q) \/ ReadRoundsToDemote(q) \/ ApplyOverride(q)
    \/ DeleteControl(q) \/ RemoveControl(q)
    \/ CreateControl(q) \/ ChangeRequirementType(q) \/ UpdateAudit(q) \/ DeleteAudit(q)
    \/ Lost(q)

Next == (\E q \in Requests : RequestStep(q)) \/ OtherControls

Spec == Init /\ [][Next]_vars

=============================================================================
