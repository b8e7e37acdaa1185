----------------------------- MODULE AuditProofs ----------------------------
(***************************************************************************)
(* Proofs about the audits.  Of a control, for any number of requests and of *)
(* rounds, the properties MCAuditControl checks for two overlapping requests. *)
(* Of the reminders, for any servers, controls, people, days and bounds, that *)
(* nobody is told twice, that no claim is left behind, and that the sweeps    *)
(* implement the ledger.                                                    *)
(***************************************************************************)
EXTENDS AuditControlProperties, AuditRemindersProperties, FiniteSetTheorems, TLAPS

-----------------------------------------------------------------------------
(* The requests: what a request still has to write it was entitled to. *)

\* What the entity checked when it read a row still holds of the status it read.
Sound(r) ==
    /\ r.pc = "setRound" =>
          /\ r.id \in RoundIds
          /\ r.seen \in RoundStatuses
          /\ ValidRoundTransition(r.kind, r.seen, r.rto)
    /\ r.pc = "setControl" => r.seen \in ControlStatuses /\ ValidControlTransition(r.seen, r.cto)
    /\ r.pc \in { "override", "demote" } => /\ r.seen \in ControlStatuses
                                          /\ Backward(r.seen, r.cto)

\* One override at a time holds the control, in the status it was decided on.
ControlHeld ==
    \A q \in Requests : At(q, "demote") =>
        /\ status = req[q].seen
        /\ \A p \in Requests : At(p, "demote") => p = q

ReqOK ==
    /\ req \in [ Requests -> Request ]
    /\ \A q \in Requests : Sound(req[q])
    /\ ControlHeld

RoundsType == [ Kinds -> [ RoundIds -> RoundStatuses \cup { "NONE", "GONE" } ] ]

ContentType == [ Kinds -> [ RoundIds -> SUBSET { "files", "note" } ] ]

DataOK ==
    /\ LifecycleTypeOK
    /\ rounds \in RoundsType
    /\ content \in ContentType

ViewOK == view \in RoundsType

\* Every step of a request leaves it a record of its own, and the others as they are.
Writes(q) ==
    \E r \in Request : Sound(r) /\ r.pc # "demote" /\ req' = [ req EXCEPT ![q] = r ]

\* The step that takes the lock on the control.
Locks(q) ==
    /\ Unlocked
    /\ UNCHANGED lifecycle
    /\ \E r \in Request :
          /\ Sound(r) /\ r.pc = "demote" /\ r.seen = status
          /\ req' = [ req EXCEPT ![q] = r ]

LEMMA BlankType == Blank \in Request /\ Sound(Blank)
BY RoundsAssumption
   DEF Blank, Request, Sound, Kinds, RowStatuses, RoundStatuses, ControlStatuses

LEMMA RoundIdType == RoundIds \subseteq 0 .. MaxRounds
BY RoundsAssumption DEF RoundIds

LEMMA FinishWrites == \A q \in Requests : Finish(q) => Writes(q)
<1>1. [ Blank EXCEPT !.pc = "done" ] \in Request /\ Sound([ Blank EXCEPT !.pc = "done" ])
    BY BlankType DEF Blank, Request, Sound
<1>2. [ Blank EXCEPT !.pc = "done" ].pc = "done"
    BY DEF Blank
<1> QED
    BY <1>1, <1>2 DEF Finish, Writes

\* A step to a place where nothing is promised yet.
LEMMA GotoWrites ==
    ASSUME ReqOK, NEW q \in Requests,
           NEW pc \in { "replace", "record", "readRound", "readControl", "discard", "reconcile" },
           Goto(q, pc)
    PROVE  Writes(q)
<1> DEFINE r == [ req[q] EXCEPT !.pc = pc ]
<1>1. req[q] \in Request
    BY DEF ReqOK
<1>2. r \in Request
    BY <1>1 DEF Request
<1>3. r.pc = pc
    BY <1>1 DEF Request
<1>4. Sound(r)
    BY <1>3 DEF Sound
<1>5. req' = [ req EXCEPT ![q] = r ]
    BY DEF Goto
<1> QED
    BY <1>2, <1>3, <1>4, <1>5 DEF Writes

LEMMA FailWrites == \A q \in Requests : ReqOK /\ Fail(q) => Writes(q)
BY FinishWrites, GotoWrites DEF Fail

LEMMA SetToType == \A cto \in ControlStatuses : SetTo(cto) \in Request /\ Sound(SetTo(cto))
<1> SUFFICES ASSUME NEW cto \in ControlStatuses PROVE SetTo(cto) \in Request /\ Sound(SetTo(cto))
    OBVIOUS
<1> QED
    BY BlankType DEF SetTo, Blank, Request, Sound

\* A request that begins at a step where nothing is promised yet.
LEMMA BeginWrites ==
    ASSUME NEW q \in Requests, NEW r \in Request, Begin(q, r),
           r.pc \notin { "setRound", "setControl", "override", "demote" }
    PROVE  Writes(q)
BY DEF Begin, Writes, Sound

LEMMA DecisionType ==
    ASSUME NEW kind \in Kinds, NEW from, NEW rto \in RoundStatuses, NEW cto \in ControlStatuses
    PROVE  Decision(kind, from, rto, cto).ask \in Request
           /\ Decision(kind, from, rto, cto).ask.pc = "latest"
BY BlankType DEF Decision, Blank, Request

LEMMA StartWrites ==
    ASSUME NEW q \in Requests,
           \/ SubmitPopulation(q) \/ SubmitEvidence(q) \/ AddEvidenceFiles(q)
           \/ WithdrawEvidence(q) \/ DeleteEvidenceRound(q) \/ DeleteEvidenceFile(q)
           \/ DeletePopulationFile(q) \/ DecideRound(q) \/ SubmitSample(q)
           \/ RequestSampleTime(q) \/ UpdateControlStatus(q) \/ OverrideStatus(q)
           \/ DeleteControl(q)
    PROVE  Writes(q)
<1> USE BlankType, RoundIdType DEF Blank, Request
<1>1. CASE SubmitPopulation(q)
  <2> PICK i \in RoundIds :
        Begin(q, [ Blank EXCEPT !.pc = "list", !.kind = "population", !.id = i,
                                !.cto = "POPULATION_INTERNAL_REVIEW" ])
    BY <1>1 DEF SubmitPopulation
  <2> QED
    BY BeginWrites DEF Kinds, ControlStatuses
<1>2. CASE SubmitEvidence(q)
    BY <1>2, BeginWrites DEF SubmitEvidence
<1>3. CASE AddEvidenceFiles(q)
    BY <1>3, BeginWrites DEF AddEvidenceFiles
<1>4. CASE WithdrawEvidence(q)
    BY <1>4, BeginWrites DEF WithdrawEvidence, SetTo, ControlStatuses
<1>5. CASE DeleteEvidenceRound(q)
  <2> PICK i \in RoundIds : Begin(q, [ Blank EXCEPT !.pc = "dropRound", !.id = i ])
    BY <1>5 DEF DeleteEvidenceRound
  <2> QED
    BY BeginWrites
<1>6. CASE DeleteEvidenceFile(q)
  <2> PICK i \in RoundIds : Begin(q, [ Blank EXCEPT !.pc = "dropFile", !.id = i ])
    BY <1>6 DEF DeleteEvidenceFile
  <2> QED
    BY BeginWrites
<1>7. CASE DeletePopulationFile(q)
  <2> PICK i \in RoundIds :
        Begin(q, [ Blank EXCEPT !.pc = "dropFile", !.kind = "population", !.id = i ])
    BY <1>7 DEF DeletePopulationFile, Rows
  <2> QED
    BY BeginWrites DEF Kinds
<1>8. CASE DecideRound(q)
  <2> PICK d \in ReviewPopulation \cup ValidatePopulation \cup ReviewEvidence \cup ValidateEvidence :
        Begin(q, d.ask)
    BY <1>8 DEF DecideRound
  <2> HIDE DEF Blank, Request
  <2>1. PICK kind \in Kinds, from \in ControlStatuses, rto \in RoundStatuses,
             cto \in ControlStatuses : d = Decision(kind, from, rto, cto)
    BY DEF ReviewPopulation, ValidatePopulation, ReviewEvidence, ValidateEvidence,
           Kinds, RoundStatuses, ControlStatuses
  <2>2. d.ask \in Request /\ d.ask.pc = "latest"
    BY <2>1, DecisionType
  <2> QED
    BY <2>2, BeginWrites
<1>9. CASE SubmitSample(q)
    BY <1>9, BeginWrites DEF SubmitSample, SetTo, ControlStatuses
<1>10. CASE RequestSampleTime(q)
    BY <1>10, BeginWrites DEF RequestSampleTime, SetTo, ControlStatuses
<1>11. CASE UpdateControlStatus(q)
    BY <1>11, BeginWrites DEF UpdateControlStatus, SetTo
<1>12. CASE OverrideStatus(q)
  <2> PICK to \in ControlStatuses :
        /\ ValidOverrideTransition(type, status, to)
        /\ Begin(q, [ Blank EXCEPT !.pc = "override", !.seen = status, !.cto = to ])
    BY <1>12 DEF OverrideStatus
  <2> DEFINE r == [ Blank EXCEPT !.pc = "override", !.seen = status, !.cto = to ]
  <2>1. status \in ControlStatuses /\ Backward(status, to)
    BY <1>12 DEF OverrideStatus, ControlExists, ValidOverrideTransition
  <2>2. r \in Request
    BY <2>1 DEF RowStatuses
  <2>3. Sound(r)
    BY <2>1 DEF Sound
  <2> QED
    BY <2>2, <2>3 DEF Begin, Writes
<1>13. CASE DeleteControl(q)
  <2> PICK mode \in { "plain", "forced" } :
        Begin(q, [ Blank EXCEPT !.pc = "remove", !.mode = mode ])
    BY <1>13 DEF DeleteControl
  <2> QED
    BY BeginWrites
<1> QED
    BY <1>1, <1>2, <1>3, <1>4, <1>5, <1>6, <1>7, <1>8, <1>9, <1>10, <1>11, <1>12, <1>13

\* A request that goes on about a round it has found or inserted.
LEMMA RoundWrites ==
    ASSUME ReqOK, NEW q \in Requests, NEW i \in RoundIds,
           NEW pc \in { "record", "readRound", "readControl" },
           req' = [ req EXCEPT ![q].pc = pc, ![q].id = i ]
    PROVE  Writes(q)
<1> DEFINE r == [ req[q] EXCEPT !.pc = pc, !.id = i ]
<1>1. req[q] \in Request
    BY DEF ReqOK
<1>2. r \in Request /\ r.pc = pc
    BY <1>1, RoundIdType DEF Request
<1>3. Sound(r)
    BY <1>2 DEF Sound
<1>4. req' = [ req EXCEPT ![q] = r ]
    BY <1>1 DEF ReqOK
<1> QED
    BY <1>2, <1>3, <1>4 DEF Writes

LEMMA StepWrites ==
    ASSUME DataOK, ReqOK, NEW q \in Requests, RequestStep(q)
    PROVE  Writes(q) \/ Locks(q)
<1>1. CASE ListRounds(q)
    BY <1>1, FinishWrites, GotoWrites DEF ListRounds
<1>2. CASE CreateReplacementRound(q)
    BY <1>2, FinishWrites, RoundWrites DEF CreateReplacementRound
<1>3. CASE RecordFiles(q)
    BY <1>3, FinishWrites, FailWrites, GotoWrites DEF RecordFiles
<1>4. CASE CreateEvidence(q)
  <2>1. CASE Finish(q)
    BY <2>1, FinishWrites
  <2>2. CASE ~ Finish(q)
    <3> PICK i \in RoundIds, note \in { {}, { "note" } } :
          req' = [ req EXCEPT ![q].id = i,
                     ![q].pc = IF note = {} THEN "record" ELSE "readControl" ]
        BY <1>4, <2>2 DEF CreateEvidence
    <3> DEFINE pc == IF note = {} THEN "record" ELSE "readControl"
    <3>1. req' = [ req EXCEPT ![q].pc = pc, ![q].id = i ]
        BY DEF ReqOK, Request
    <3> QED
        BY <3>1, RoundWrites
  <2> QED
    BY <2>1, <2>2
<1>5. CASE OpenRound(q)
    BY <1>5, FinishWrites, RoundWrites DEF OpenRound
<1>6. CASE DiscardRound(q) \/ ApplyOverride(q) \/ RemoveControl(q) \/ CreateControl(q)
           \/ ChangeRequirementType(q) \/ UpdateAudit(q) \/ DeleteAudit(q) \/ Lost(q)
    BY <1>6, FinishWrites
    DEF DiscardRound, ApplyOverride, RemoveControl, CreateControl, ChangeRequirementType,
        UpdateAudit, DeleteAudit, Lost
<1>7. CASE DropRound(q)
    BY <1>7, GotoWrites DEF DropRound
<1>8. CASE DropFile(q)
    BY <1>8, GotoWrites, FinishWrites DEF DropFile
<1>9. CASE Reconcile(q)
  <2>1. "EVIDENCE_PENDING" \in ControlStatuses
    BY DEF ControlStatuses
  <2>2. SetTo("EVIDENCE_PENDING").pc = "readControl"
    BY DEF SetTo, Blank
  <2> QED
    BY <1>9, <2>1, <2>2, SetToType, FinishWrites DEF Reconcile, Writes
<1>10. CASE LatestRound(q)
    BY <1>10, FinishWrites, RoundWrites DEF LatestRound
<1>11. CASE ReadRound(q)
  <2> DEFINE at == rounds[req[q].kind][req[q].id]
             r  == [ req[q] EXCEPT !.pc = "setRound", !.seen = at ]
  <2>1. CASE Finish(q)
    BY <2>1, FinishWrites
  <2>2. CASE ~ Finish(q)
    <3>1. req[q] \in Request
        BY DEF ReqOK
    <3>2. /\ req[q].id \in Rows(req[q].kind)
          /\ ValidRoundTransition(req[q].kind, at, req[q].rto)
          /\ req' = [ req EXCEPT ![q].pc = "setRound", ![q].seen = at ]
        BY <1>11, <2>2 DEF ReadRound
    <3>3. at \in RoundStatuses /\ req[q].id \in RoundIds
        BY <3>1, <3>2 DEF Rows, DataOK, RoundsType, Request
    <3>4. r \in Request /\ r.pc # "demote"
        BY <3>1, <3>3 DEF Request
    <3>5. Sound(r)
        BY <3>1, <3>2, <3>3 DEF Sound, Request
    <3>6. req' = [ req EXCEPT ![q] = r ]
        BY <3>2 DEF ReqOK
    <3> QED
        BY <3>4, <3>5, <3>6 DEF Writes
  <2> QED
    BY <2>1, <2>2
<1>12. CASE SetRound(q)
    BY <1>12, FinishWrites, GotoWrites DEF SetRound
<1>13. CASE ReadControl(q)
  <2> DEFINE r == [ req[q] EXCEPT !.pc = "setControl", !.seen = status ]
  <2>1. CASE Fail(q)
    BY <2>1, FailWrites
  <2>2. CASE ~ Fail(q)
    <3>1. req[q] \in Request
        BY DEF ReqOK
    <3>2. /\ status \in ControlStatuses
          /\ ValidControlTransition(status, req[q].cto)
          /\ req' = [ req EXCEPT ![q].pc = "setControl", ![q].seen = status ]
        BY <1>13, <2>2 DEF ReadControl, ControlExists
    <3>3. r \in Request /\ r.pc # "demote"
        BY <3>1, <3>2 DEF Request, RowStatuses
    <3>4. Sound(r)
        BY <3>1, <3>2 DEF Sound, Request
    <3>5. req' = [ req EXCEPT ![q] = r ]
        BY <3>2 DEF ReqOK
    <3> QED
        BY <3>3, <3>4, <3>5 DEF Writes
  <2> QED
    BY <2>1, <2>2
<1>14. CASE SetControl(q)
    BY <1>14, FinishWrites, FailWrites DEF SetControl
<1>15. CASE ReadRoundsToDemote(q)
  <2> DEFINE r == [ req[q] EXCEPT !.pc = "demote" ]
  <2>1. CASE status = req[q].seen
    <3>1. req[q] \in Request /\ Sound(req[q]) /\ req[q].pc = "override"
        BY <1>15 DEF ReadRoundsToDemote, ReqOK, At
    <3>2. r \in Request /\ r.pc = "demote" /\ r.seen = status
        BY <2>1, <3>1 DEF Request
    <3>3. r.seen = req[q].seen /\ r.cto = req[q].cto
        BY <3>1 DEF Request
    <3>4. Sound(r)
        BY <3>1, <3>2, <3>3 DEF Sound
    <3>5. Unlocked /\ UNCHANGED lifecycle /\ req' = [ req EXCEPT ![q] = r ]
        BY <1>15, <2>1 DEF ReadRoundsToDemote, Goto
    <3> QED
        BY <3>2, <3>4, <3>5 DEF Locks
  <2>2. CASE status # req[q].seen
    BY <1>15, <2>2, FinishWrites DEF ReadRoundsToDemote
  <2> QED
    BY <2>1, <2>2
<1> QED
    BY <1>1, <1>2, <1>3, <1>4, <1>5, <1>6, <1>7, <1>8, <1>9, <1>10, <1>11, <1>12, <1>13,
       <1>14, <1>15, StartWrites DEF RequestStep

LEMMA OthersAsTheyWere ==
    ASSUME DataOK, ReqOK, NEW q \in Requests, RequestStep(q)
    PROVE  \A p \in Requests \ { q } : req'[p] = req[p]
BY StepWrites DEF Writes, Locks, ReqOK

LEMMA LifecycleWriters ==
    ASSUME NEW q \in Requests, RequestStep(q)
    PROVE  \/ UNCHANGED lifecycle
           \/ SetControl(q) \/ ApplyOverride(q) \/ RemoveControl(q) \/ CreateControl(q)
           \/ ChangeRequirementType(q) \/ UpdateAudit(q) \/ DeleteAudit(q)
BY DEF RequestStep, SubmitPopulation, ListRounds, SubmitEvidence, AddEvidenceFiles, OpenRound,
       WithdrawEvidence, DeleteEvidenceRound, DeleteEvidenceFile, DeletePopulationFile,
       Reconcile, DecideRound, LatestRound, ReadRound, ReadControl, SubmitSample,
       RequestSampleTime, UpdateControlStatus, OverrideStatus, DeleteControl, Lost, Begin,
       OnlyRequests, RecordFiles, DropFile, CreateReplacementRound, CreateEvidence,
       DiscardRound, DropRound, SetRound, ReadRoundsToDemote

\* Who changes the status of the control waits for the override that holds it.
LEMMA StatusHeld ==
    ASSUME ReqOK, NEW q \in Requests, RequestStep(q),
           NEW p \in Requests, p # q, At(p, "demote")
    PROVE  status' = status
<1>1. ~ Unlocked /\ ~ At(q, "demote")
    BY DEF Unlocked, ReqOK, ControlHeld
<1>2. status # "ABSENT"
    BY DEF ReqOK, ControlHeld, Sound, At, ControlStatuses
<1> QED
    BY <1>1, <1>2, LifecycleWriters
    DEF SetControl, ApplyOverride, RemoveControl, CreateControl, Create, ChangeRequirementType,
        UpdateAudit, DeleteAudit, SetAudit, lifecycle

LEMMA HeldNext ==
    ASSUME DataOK, ReqOK, NEW q \in Requests, RequestStep(q)
    PROVE  ControlHeld'
<1> SUFFICES ASSUME NEW p \in Requests, At(p, "demote")'
             PROVE  /\ status' = req'[p].seen
                    /\ \A o \in Requests : At(o, "demote")' => o = p
    BY DEF ControlHeld, At
<1>1. CASE Locks(q)
  <2>1. \A o \in Requests : At(o, "demote")' => o = q
    BY <1>1, OthersAsTheyWere DEF Locks, Unlocked, At
  <2> QED
    BY <1>1, <2>1 DEF Locks, ReqOK, lifecycle
<1>2. CASE Writes(q)
  <2>1. ~ At(q, "demote")'
    BY <1>2 DEF Writes, At, ReqOK
  <2>2. \A o \in Requests : At(o, "demote")' => o # q /\ At(o, "demote")
    BY <2>1, OthersAsTheyWere DEF At
  <2>3. status' = status /\ req'[p] = req[p]
    BY <2>2, StatusHeld, OthersAsTheyWere
  <2> QED
    BY <2>2, <2>3 DEF ReqOK, ControlHeld
<1> QED
    BY <1>1, <1>2, StepWrites

LEMMA ReqNext == DataOK /\ ReqOK /\ [Next]_vars => ReqOK'
<1> SUFFICES ASSUME DataOK, ReqOK, [Next]_vars PROVE ReqOK'
    OBVIOUS
<1>1. CASE UNCHANGED vars \/ OtherControls
  <2>1. req' = req /\ status' = status
    BY <1>1 DEF vars, lifecycle, OtherControls, OthersMove
  <2>2. req' \in [ Requests -> Request ] /\ \A q \in Requests : Sound(req'[q])
    BY <2>1 DEF ReqOK
  <2>3. ControlHeld'
    BY <2>1 DEF ReqOK, ControlHeld, At
  <2> QED
    BY <2>2, <2>3 DEF ReqOK, Sound, ValidRoundTransition, Backward
<1>2. ASSUME NEW q \in Requests, RequestStep(q) PROVE ReqOK'
  <2>1. PICK r \in Request : Sound(r) /\ req' = [ req EXCEPT ![q] = r ]
    BY <1>2, StepWrites DEF Writes, Locks
  <2>2. ControlHeld'
    BY <1>2, HeldNext
  <2> QED
    BY <2>1, <2>2 DEF ReqOK
<1> QED
    BY <1>1, <1>2 DEF Next

-----------------------------------------------------------------------------
(* The rows. *)

LEMMA RecomputedType ==
    ASSUME audit \in AuditStatusSet, NEW others, NEW row
    PROVE  Recomputed(others, row) \in AuditStatusSet
BY DEF Recomputed, AuditStatusSet

LEMMA MoveToType ==
    ASSUME LifecycleTypeOK, NEW new \in RowStatuses, MoveTo(new)
    PROVE  LifecycleTypeOK'
BY RecomputedType DEF LifecycleTypeOK, MoveTo

LEMMA FirstStatusType == \A t : FirstStatus(t) \in ControlStatuses
BY DEF FirstStatus, ControlStatuses

LEMMA SetRoundKept ==
    ASSUME DataOK, ReqOK, NEW q \in Requests, At(q, "setRound"), RoundUnchanged(q)
    PROVE  /\ req[q].kind \in Kinds
           /\ req[q].id \in RoundIds
           /\ req[q].rto \in RoundStatuses
           /\ rounds[req[q].kind][req[q].id] \in RoundStatuses
           /\ ValidRoundTransition(req[q].kind, rounds[req[q].kind][req[q].id], req[q].rto)
BY DEF ReqOK, Sound, At, Request, RoundUnchanged

LEMMA SetControlKept ==
    ASSUME ReqOK, NEW q \in Requests, At(q, "setControl"), ControlUnchanged(q)
    PROVE  /\ req[q].cto \in ControlStatuses
           /\ status \in ControlStatuses
           /\ ValidControlTransition(status, req[q].cto)
BY DEF ReqOK, Sound, At, Request, ControlUnchanged

LEMMA ApplyOverrideKept ==
    ASSUME ReqOK, NEW q \in Requests, At(q, "demote")
    PROVE  /\ req[q].cto \in ControlStatuses
           /\ status \in ControlStatuses
           /\ Backward(status, req[q].cto)
BY DEF ReqOK, ControlHeld, Sound, At, Request

\* The status a round is demoted to, and what a demotion leaves alone.
LEMMA TargetType ==
    ASSUME NEW kind \in Kinds, NEW to \in ControlStatuses
    PROVE  OverrideTarget(kind, to) \in RoundStatuses \cup { "none" }
BY DEF OverrideTarget, OverridePopulationTarget, OverrideEvidenceTarget, RoundStatuses

LEMMA DataInit == Init => DataOK
<1> SUFFICES ASSUME Init PROVE DataOK
    OBVIOUS
<1>1. PopulationAtRest \subseteq RoundStatuses \cup { "NONE" }
    BY DEF PopulationAtRest, RoundStatuses
<1>2. EvidenceAtRest \subseteq RoundStatuses \cup { "NONE" }
    BY DEF EvidenceAtRest, RoundStatuses
<1>3. rounds \in [ Kinds -> [ RoundIds -> RoundStatuses \cup { "NONE", "GONE" } ] ]
    BY <1>1, <1>2 DEF Init, First
<1>4. content \in [ Kinds -> [ RoundIds -> SUBSET { "files", "note" } ] ]
    BY DEF Init
<1> QED
    BY <1>3, <1>4 DEF Init, LifecycleInit, DataOK, RoundsType, ContentType

\* One row is written, or the files of one.
LEMMA PutRound ==
    ASSUME rounds \in RoundsType, NEW k \in Kinds, NEW i, NEW new \in RoundStatuses \cup { "GONE" }
    PROVE  [ rounds EXCEPT ![k][i] = new ] \in RoundsType
BY DEF RoundsType

LEMMA PutContent ==
    ASSUME content \in ContentType, NEW k \in Kinds, NEW i, NEW new \in SUBSET { "files", "note" }
    PROVE  [ content EXCEPT ![k][i] = new ] \in ContentType
BY DEF ContentType

LEMMA LifecycleKept == LifecycleTypeOK /\ UNCHANGED lifecycle => LifecycleTypeOK'
BY DEF lifecycle, LifecycleTypeOK

LEMMA DataNext == DataOK /\ ReqOK /\ [Next]_vars => DataOK'
<1> SUFFICES ASSUME DataOK, ReqOK, [Next]_vars PROVE DataOK'
    OBVIOUS
<1> USE DEF DataOK
<1>1. CASE UNCHANGED <<lifecycle, rounds, content>>
    BY <1>1 DEF lifecycle, LifecycleTypeOK
<1>2. CASE OtherControls
  <2>1. LifecycleTypeOK'
    BY <1>2, RecomputedType DEF OtherControls, OthersMove, LifecycleTypeOK
  <2> QED
    BY <1>2, <2>1 DEF OtherControls
<1>3. ASSUME NEW q \in Requests, RequestStep(q) PROVE DataOK'
  <2>1. CASE \/ SubmitPopulation(q) \/ ListRounds(q) \/ SubmitEvidence(q) \/ AddEvidenceFiles(q)
             \/ OpenRound(q) \/ WithdrawEvidence(q) \/ DeleteEvidenceRound(q)
             \/ DeleteEvidenceFile(q) \/ DeletePopulationFile(q) \/ Reconcile(q)
             \/ DecideRound(q) \/ LatestRound(q) \/ ReadRound(q) \/ ReadControl(q)
             \/ SubmitSample(q) \/ RequestSampleTime(q) \/ UpdateControlStatus(q)
             \/ OverrideStatus(q) \/ ReadRoundsToDemote(q) \/ DeleteControl(q) \/ Lost(q)
    BY <2>1, <1>1
    DEF SubmitPopulation, ListRounds, SubmitEvidence, AddEvidenceFiles, OpenRound,
        WithdrawEvidence, DeleteEvidenceRound, DeleteEvidenceFile, DeletePopulationFile,
        Reconcile, DecideRound, LatestRound, ReadRound, ReadControl, SubmitSample,
        RequestSampleTime, UpdateControlStatus, OverrideStatus, ReadRoundsToDemote, DeleteControl,
        Lost, Begin, OnlyRequests
  <2> "population" \in Kinds /\ "evidence" \in Kinds
    BY DEF Kinds
  <2> "SUBMITTED" \in RoundStatuses /\ "PENDING" \in RoundStatuses
    BY DEF RoundStatuses
  <2> req[q].kind \in Kinds
    BY DEF ReqOK, Request
  <2>2. CASE CreateReplacementRound(q)
    <3>1. rounds' \in RoundsType
      <4>1. CASE StillLatest(req[q].id)
        <5>1. PICK i \in RoundIds : rounds' = [ rounds EXCEPT !["population"][i] = "PENDING" ]
            BY <2>2, <4>1, Zenon DEF CreateReplacementRound
        <5> QED
            BY <5>1, PutRound
      <4>2. CASE ~ StillLatest(req[q].id)
            BY <2>2, <4>2, Zenon DEF CreateReplacementRound
      <4> QED
            BY <4>1, <4>2
    <3> QED
        BY <2>2, <3>1, LifecycleKept DEF CreateReplacementRound
  <2>3. CASE RecordFiles(q)
    <3>1. content' \in ContentType
        BY <2>3 DEF RecordFiles, ContentType
    <3> QED
        BY <2>3, <3>1, LifecycleKept DEF RecordFiles
  <2>4. CASE CreateEvidence(q)
    <3>1. rounds' \in RoundsType
      <4>1. CASE ControlExists
        <5>1. PICK i \in RoundIds : rounds' = [ rounds EXCEPT !["evidence"][i] = "SUBMITTED" ]
            BY <2>4, <4>1, Zenon DEF CreateEvidence
        <5> QED
            BY <5>1, PutRound
      <4>2. CASE ~ ControlExists
            BY <2>4, <4>2, Zenon DEF CreateEvidence
      <4> QED
            BY <4>1, <4>2
    <3>2. content' \in ContentType
      <4>1. CASE ControlExists
        <5>1. PICK i \in RoundIds, note \in { {}, { "note" } } :
                  content' = [ content EXCEPT !["evidence"][i] = note ]
            BY <2>4, <4>1, Zenon DEF CreateEvidence
        <5> QED
            BY <5>1, PutContent
      <4>2. CASE ~ ControlExists
            BY <2>4, <4>2, Zenon DEF CreateEvidence
      <4> QED
            BY <4>1, <4>2
    <3> QED
        BY <2>4, <3>1, <3>2, LifecycleKept DEF CreateEvidence
  <2>5. CASE DiscardRound(q) \/ DropRound(q)
    <3>1. DeleteEvidence(q) /\ UNCHANGED lifecycle
        BY <2>5 DEF DiscardRound, DropRound
    <3>2. rounds' \in RoundsType
        BY <3>1, PutRound DEF DeleteEvidence
    <3>3. content' \in ContentType
      <4>1. CASE UNCHANGED content
            BY <4>1
      <4>2. CASE content' = [ content EXCEPT !["evidence"][req[q].id] = {} ]
        <5>1. {} \in SUBSET { "files", "note" }
            OBVIOUS
        <5> QED
            BY <4>2, <5>1, PutContent
      <4> QED
            BY <3>1, <4>1, <4>2 DEF DeleteEvidence
    <3> QED
        BY <3>1, <3>2, <3>3, LifecycleKept
  <2>6. CASE DropFile(q)
    <3>1. content' \in ContentType
      <4> DEFINE left == content[req[q].kind][req[q].id] \ { "files" }
      <4>1. CASE UNCHANGED content
            BY <4>1
      <4>2. CASE /\ FilesDeletable(req[q].kind, req[q].id)
                 /\ content' = [ content EXCEPT ![req[q].kind][req[q].id] = left ]
        <5>1. left \in SUBSET { "files", "note" }
            BY <4>2 DEF FilesDeletable, IsLatest, Rows, ContentType
        <5> HIDE DEF left
        <5> QED
            BY <4>2, <5>1, PutContent
      <4> QED
            BY <2>6, <4>1, <4>2, Zenon DEF DropFile
    <3> QED
        BY <2>6, <3>1, LifecycleKept DEF DropFile
  <2>7. CASE SetRound(q)
    <3>1. CASE RoundUnchanged(q)
        <4>1. /\ rounds' = [ rounds EXCEPT ![req[q].kind][req[q].id] = req[q].rto ]
              /\ req[q].kind \in Kinds /\ req[q].rto \in RoundStatuses
            BY <2>7, <3>1, SetRoundKept DEF SetRound
        <4>2. rounds' \in RoundsType
            BY <4>1, PutRound
        <4> QED
            BY <2>7, <4>2, LifecycleKept DEF SetRound
    <3>2. CASE ~ RoundUnchanged(q)
        BY <2>7, <3>2, <1>1 DEF SetRound
    <3> QED
        BY <3>1, <3>2
  <2>8. CASE SetControl(q)
    <3>1. CASE ControlUnchanged(q)
        BY <2>8, <3>1, SetControlKept, MoveToType DEF SetControl, RowStatuses
    <3>2. CASE ~ ControlUnchanged(q)
        BY <2>8, <3>2, <1>1 DEF SetControl
    <3> QED
        BY <3>1, <3>2
  <2>9. CASE ApplyOverride(q)
    <3>1. req[q].cto \in ControlStatuses /\ MoveTo(req[q].cto)
        BY <2>9, ApplyOverrideKept DEF ApplyOverride
    <3>2. LifecycleTypeOK'
        BY <3>1, MoveToType DEF RowStatuses
    <3>3. \A k \in Kinds : \A i \in RoundIds :
             ReadAbove(k, i, req[q].cto) => OverrideTarget(k, req[q].cto) \in RoundStatuses
        BY <3>1, TargetType DEF ReadAbove
    <3>4. rounds' \in RoundsType
        BY <2>9, <3>3 DEF ApplyOverride, RoundsType
    <3> QED
        BY <2>9, <3>2, <3>4 DEF ApplyOverride
  <2>10. CASE RemoveControl(q)
    BY <2>10, <1>1, MoveToType DEF RemoveControl, RowStatuses, RoundsType, ContentType
  <2>11. CASE CreateControl(q)
    <3>1. PICK t \in RequirementTypes :
            /\ Create(t)
            /\ rounds' = IF t = "OE" THEN [ rounds EXCEPT !["population"][1] = "PENDING" ] ELSE rounds
        BY <2>11 DEF CreateControl
    <3>2. LifecycleTypeOK'
        BY <3>1, RecomputedType, FirstStatusType DEF Create, LifecycleTypeOK, RowStatuses
    <3>3. rounds' \in RoundsType
        BY <3>1, PutRound
    <3> QED
        BY <2>11, <3>2, <3>3 DEF CreateControl
  <2>12. CASE ChangeRequirementType(q)
    <3>1. \A t \in RequirementTypes : SwitchType(t) => LifecycleTypeOK'
        BY RecomputedType, FirstStatusType DEF SwitchType, LifecycleTypeOK, RowStatuses
    <3>2. rounds' \in RoundsType
        BY <2>12 DEF ChangeRequirementType, PopulationDropped, Kinds, RoundStatuses, RoundsType
    <3>3. content' \in ContentType
        BY <2>12 DEF ChangeRequirementType, ContentType, Kinds
    <3> QED
        BY <2>12, <3>1, <3>2, <3>3 DEF ChangeRequirementType, RequirementTypes
  <2>13. CASE UpdateAudit(q) \/ DeleteAudit(q)
    BY <2>13 DEF UpdateAudit, DeleteAudit, SetAudit, LifecycleTypeOK, AuditStatusSet
  <2> QED
    BY <1>3, <2>1, <2>2, <2>3, <2>4, <2>5, <2>6, <2>7, <2>8, <2>9, <2>10, <2>11, <2>12, <2>13
    DEF RequestStep
<1> QED
    BY <1>1, <1>2, <1>3 DEF Next, vars

-----------------------------------------------------------------------------
(* Which operations write which rows. *)

LEMMA RoundWriters ==
    ASSUME NEW q \in Requests, RequestStep(q)
    PROVE  \/ UNCHANGED rounds
           \/ CreateReplacementRound(q) \/ CreateEvidence(q) \/ DiscardRound(q) \/ DropRound(q)
           \/ SetRound(q) \/ ApplyOverride(q) \/ RemoveControl(q) \/ CreateControl(q)
           \/ ChangeRequirementType(q)
BY DEF RequestStep, SubmitPopulation, ListRounds, SubmitEvidence, AddEvidenceFiles, OpenRound,
       WithdrawEvidence, DeleteEvidenceRound, DeleteEvidenceFile, DeletePopulationFile,
       Reconcile, DecideRound, LatestRound, ReadRound, ReadControl, SubmitSample,
       RequestSampleTime, UpdateControlStatus, OverrideStatus, DeleteControl, Lost, Begin,
       OnlyRequests, RecordFiles, DropFile, SetControl, UpdateAudit, DeleteAudit,
       ReadRoundsToDemote

LEMMA ViewNext == DataOK /\ ViewOK /\ [Next]_vars => ViewOK'
<1> SUFFICES ASSUME DataOK, ViewOK, [Next]_vars PROVE view' \in RoundsType
    BY DEF ViewOK
<1>1. NoView \in RoundsType
    BY DEF NoView, RoundsType
<1>2. CASE UNCHANGED vars \/ OtherControls
    BY <1>2 DEF vars, OtherControls, ViewOK
<1>3. ASSUME NEW q \in Requests, RequestStep(q) PROVE view' \in { view, rounds, NoView }
    BY <1>3
    DEF RequestStep, SubmitPopulation, ListRounds, SubmitEvidence, AddEvidenceFiles, OpenRound,
       WithdrawEvidence, DeleteEvidenceRound, DeleteEvidenceFile, DeletePopulationFile,
       Reconcile, DecideRound, LatestRound, ReadRound, ReadControl, SubmitSample,
       RequestSampleTime, UpdateControlStatus, OverrideStatus, DeleteControl, Lost, Begin,
       OnlyRequests, RecordFiles, DropFile, CreateReplacementRound, CreateEvidence,
       DiscardRound, DropRound, SetRound, SetControl, ReadRoundsToDemote, ApplyOverride,
       RemoveControl, CreateControl, ChangeRequirementType, UpdateAudit, DeleteAudit
<1> QED
    BY <1>1, <1>2, <1>3 DEF Next, DataOK, ViewOK

\* All but creation, deletion and the change of type leave the type of the control.
LEMMA TypeKept ==
    ASSUME DataOK, ReqOK, NEW q \in Requests, RequestStep(q), ~ CreateControl(q),
           ~ RemoveControl(q), ~ ChangeRequirementType(q)
    PROVE  type' = type /\ (ControlExists' <=> ControlExists)
<1>1. CASE SetControl(q)
  <2>1. CASE ControlUnchanged(q)
    BY <1>1, <2>1, SetControlKept DEF SetControl, MoveTo, ControlExists
  <2>2. CASE ~ ControlUnchanged(q)
    BY <1>1, <2>2 DEF SetControl, lifecycle, ControlExists
  <2> QED
    BY <2>1, <2>2
<1>2. CASE ApplyOverride(q)
    BY <1>2, ApplyOverrideKept DEF ApplyOverride, MoveTo, ControlExists
<1> QED
    BY <1>1, <1>2, LifecycleWriters
    DEF lifecycle, ControlExists, UpdateAudit, DeleteAudit, SetAudit

-----------------------------------------------------------------------------
(* A DESIGN control has no population. *)

\* Before its insert and after its delete no control has one either.
PopulationOfOE == Rows("population") # {} => ControlExists /\ type = "OE"

\* A control that is yet to be created starts from nothing.
NothingYet == status = "ABSENT" => \A i \in RoundIds : rounds["population"][i] = "NONE"

LEMMA NothingInit == Init => NothingYet
<1> SUFFICES ASSUME Init, status = "ABSENT", NEW i \in RoundIds
             PROVE  rounds["population"][i] = "NONE"
    BY DEF NothingYet
<1>1. PopulationAtRest = { "NONE" }
    BY DEF PopulationAtRest
<1>2. rounds["population"] = First("NONE")
    BY <1>1 DEF Init, Kinds
<1> QED
    BY <1>2 DEF First

LEMMA PopulationInit == Init => PopulationOfOE
<1> SUFFICES ASSUME Init, type # "OE" \/ ~ ControlExists PROVE Rows("population") = {}
    BY DEF PopulationOfOE
<1>1. type = "DESIGN" \/ status = "ABSENT"
    BY DEF Init, LifecycleInit, LifecycleTypeOK, RequirementTypes, RowStatuses, ControlExists
<1>2. PopulationAtRest = { "NONE" }
    BY <1>1 DEF PopulationAtRest
<1>3. rounds["population"] = First("NONE")
    BY <1>2 DEF Init, Kinds
<1> QED
    BY <1>3 DEF First, Rows

\* No population row appears on a step that keeps the type.
LEMMA NoNewPopulation ==
    ASSUME PopulationOfOE, Rows("population")' \subseteq Rows("population"),
           type' = type, ControlExists' <=> ControlExists
    PROVE  PopulationOfOE'
BY DEF PopulationOfOE

LEMMA PopulationStep ==
    ASSUME DataOK, ReqOK, PopulationOfOE, NEW q \in Requests, RequestStep(q)
    PROVE  PopulationOfOE'
<1> USE DEF RoundsType, Kinds
<1>1. CASE CreateControl(q)
  <2>1. PICK t \in RequirementTypes :
          /\ Create(t)
          /\ rounds' = IF t = "OE" THEN [ rounds EXCEPT !["population"][1] = "PENDING" ] ELSE rounds
    BY <1>1 DEF CreateControl
  <2>2. Rows("population") = {}
    BY <2>1 DEF Create, PopulationOfOE, ControlExists, ControlStatuses
  <2>3. CASE t = "OE"
    BY <2>1, <2>3, FirstStatusType DEF Create, PopulationOfOE, ControlExists
  <2>4. CASE t # "OE"
    BY <2>1, <2>2, <2>4 DEF Rows, PopulationOfOE
  <2> QED
    BY <2>3, <2>4
<1>2. CASE RemoveControl(q)
  <2>1. CASE ControlExists
    BY <1>2, <2>1 DEF RemoveControl, Rows, PopulationOfOE
  <2>2. CASE ~ ControlExists
    BY <1>2, <2>2 DEF RemoveControl, PopulationOfOE, ControlExists, lifecycle, Rows
  <2> QED
    BY <2>1, <2>2
<1>3. CASE ChangeRequirementType(q)
  <2>1. CASE SwitchType("OE")
    BY <2>1, FirstStatusType DEF SwitchType, PopulationOfOE, ControlExists
  <2>2. CASE rounds' = PopulationDropped
    BY <2>2 DEF PopulationDropped, Rows, PopulationOfOE, DataOK
  <2> QED
    BY <1>3, <2>1, <2>2 DEF ChangeRequirementType
<1>4. CASE ~ CreateControl(q) /\ ~ RemoveControl(q) /\ ~ ChangeRequirementType(q)
  <2>1. type' = type /\ (ControlExists' <=> ControlExists)
    BY <1>4, TypeKept
  <2>2. CASE CreateReplacementRound(q) /\ StillLatest(req[q].id)
    BY <2>1, <2>2 DEF StillLatest, IsLatest, PopulationOfOE
  <2>3. CASE \/ UNCHANGED rounds
             \/ CreateReplacementRound(q) /\ ~ StillLatest(req[q].id)
    <3>1. rounds' = rounds
        BY <2>3, Zenon DEF CreateReplacementRound
    <3> QED
        BY <2>1, <3>1, NoNewPopulation DEF Rows
  <2>4. CASE CreateEvidence(q)
    <3>1. rounds'["population"] = rounds["population"]
        <4>1. CASE ControlExists
            <5>1. PICK i \in RoundIds : rounds' = [ rounds EXCEPT !["evidence"][i] = "SUBMITTED" ]
                BY <2>4, <4>1, Zenon DEF CreateEvidence
            <5> QED
                BY <5>1 DEF DataOK
        <4>2. CASE ~ ControlExists
            BY <2>4, <4>2, Zenon DEF CreateEvidence
        <4> QED
            BY <4>1, <4>2
    <3> QED
        BY <2>1, <3>1, NoNewPopulation DEF Rows
  <2>5. CASE DiscardRound(q) \/ DropRound(q)
    <3>1. rounds'["population"] = rounds["population"]
        BY <2>5 DEF DiscardRound, DropRound, DeleteEvidence, DataOK
    <3> QED
        BY <2>1, <3>1, NoNewPopulation DEF Rows
  <2>6. CASE SetRound(q)
    <3>1. CASE RoundUnchanged(q)
        <4>1. /\ rounds' = [ rounds EXCEPT ![req[q].kind][req[q].id] = req[q].rto ]
              /\ req[q].kind \in Kinds /\ req[q].id \in RoundIds
              /\ rounds[req[q].kind][req[q].id] \in RoundStatuses
            BY <2>6, <3>1, SetRoundKept DEF SetRound
        <4>2. Rows("population")' \subseteq Rows("population")
            BY <4>1 DEF Rows, RoundStatuses, DataOK
        <4> QED
            BY <2>1, <4>2, NoNewPopulation
    <3>2. CASE ~ RoundUnchanged(q)
        BY <2>1, <2>6, <3>2, NoNewPopulation DEF SetRound, Rows
    <3> QED
        BY <3>1, <3>2
  <2>7. CASE ApplyOverride(q)
    <3>1. Rows("population")' \subseteq Rows("population")
        BY <2>7 DEF ApplyOverride, Rows
    <3> QED
        BY <2>1, <3>1, NoNewPopulation
  <2> QED
    BY <1>4, <2>2, <2>3, <2>4, <2>5, <2>6, <2>7, RoundWriters
<1> QED
    BY <1>1, <1>2, <1>3, <1>4

LEMMA NothingStep ==
    ASSUME DataOK, ReqOK, NothingYet, NEW q \in Requests, RequestStep(q)
    PROVE  NothingYet'
<1> SUFFICES ASSUME status' = "ABSENT" PROVE \A i \in RoundIds : rounds'["population"][i] = "NONE"
    BY DEF NothingYet
<1>1. status' = status
  <2>1. CASE SetControl(q)
    BY <2>1, SetControlKept DEF SetControl, MoveTo, lifecycle, ControlStatuses
  <2>2. CASE ApplyOverride(q)
    BY <2>2, ApplyOverrideKept DEF ApplyOverride, MoveTo, lifecycle, ControlStatuses
  <2>3. CASE RemoveControl(q)
    BY <2>3 DEF RemoveControl, MoveTo, lifecycle
  <2>4. CASE CreateControl(q)
    BY <2>4, FirstStatusType DEF CreateControl, Create, ControlStatuses
  <2>5. CASE ChangeRequirementType(q)
    BY <2>5, FirstStatusType DEF ChangeRequirementType, SwitchType, ControlStatuses
  <2> QED
    BY <2>1, <2>2, <2>3, <2>4, <2>5, LifecycleWriters DEF lifecycle, UpdateAudit, DeleteAudit, SetAudit
<1>2. status = "ABSENT" /\ ~ ControlExists
    BY <1>1 DEF ControlExists, ControlStatuses
<1>3. \A i \in RoundIds : rounds["population"][i] = "NONE"
    BY <1>2 DEF NothingYet
<1>4. Rows("population") = {}
    BY <1>3 DEF Rows
<1> USE DEF DataOK, RoundsType, Kinds
<1>5. CASE CreateReplacementRound(q)
  <2>1. ~ StillLatest(req[q].id)
    BY <1>4 DEF StillLatest, IsLatest
  <2> QED
    BY <1>3, <1>5, <2>1, Zenon DEF CreateReplacementRound
<1>6. CASE CreateEvidence(q)
    BY <1>2, <1>3, <1>6, Zenon DEF CreateEvidence
<1>7. CASE DiscardRound(q) \/ DropRound(q)
    BY <1>3, <1>7 DEF DiscardRound, DropRound, DeleteEvidence
<1>8. CASE SetRound(q)
  <2>1. CASE RoundUnchanged(q)
    <3>1. /\ rounds' = [ rounds EXCEPT ![req[q].kind][req[q].id] = req[q].rto ]
          /\ req[q].kind \in Kinds /\ req[q].id \in RoundIds
          /\ rounds[req[q].kind][req[q].id] \in RoundStatuses
        BY <1>8, <2>1, SetRoundKept DEF SetRound
    <3> QED
        BY <1>3, <3>1 DEF RoundStatuses
  <2>2. CASE ~ RoundUnchanged(q)
    BY <1>3, <1>8, <2>2 DEF SetRound
  <2> QED
    BY <2>1, <2>2
<1>9. CASE ApplyOverride(q)
    BY <1>2, <1>9, ApplyOverrideKept DEF ApplyOverride, ControlExists
<1>10. CASE RemoveControl(q)
    BY <1>2, <1>3, <1>10 DEF RemoveControl
<1>11. CASE CreateControl(q) \/ ChangeRequirementType(q)
    BY <1>11, <1>1, <1>2, FirstStatusType
    DEF CreateControl, Create, ChangeRequirementType, SwitchType, ControlStatuses
<1> QED
    BY <1>3, <1>5, <1>6, <1>7, <1>8, <1>9, <1>10, <1>11, RoundWriters

LEMMA NothingNext == DataOK /\ ReqOK /\ NothingYet /\ [Next]_vars => NothingYet'
<1> SUFFICES ASSUME DataOK, ReqOK, NothingYet, [Next]_vars PROVE NothingYet'
    OBVIOUS
<1>1. CASE UNCHANGED vars \/ OtherControls
    BY <1>1 DEF vars, lifecycle, OtherControls, OthersMove, NothingYet
<1> QED
    BY <1>1, NothingStep DEF Next

LEMMA PopulationNext ==
    DataOK /\ ReqOK /\ PopulationOfOE /\ [Next]_vars => PopulationOfOE'
<1> SUFFICES ASSUME DataOK, ReqOK, PopulationOfOE, [Next]_vars
             PROVE  PopulationOfOE'
    OBVIOUS
<1>1. CASE UNCHANGED vars \/ OtherControls
    BY <1>1 DEF vars, lifecycle, OtherControls, OthersMove, PopulationOfOE, Rows,
                ControlExists
<1> QED
    BY <1>1, PopulationStep DEF Next

IInv == DataOK /\ ViewOK /\ ReqOK /\ PopulationOfOE /\ NothingYet

LEMMA Invariant == Spec => []IInv
<1>1. Init => IInv
  <2> SUFFICES ASSUME Init PROVE IInv
    OBVIOUS
  <2>1. ReqOK
    BY BlankType DEF Init, ReqOK, ControlHeld, At, Blank
  <2>2. ViewOK
    BY DEF Init, NoView, ViewOK, RoundsType
  <2> QED
    BY <2>1, <2>2, DataInit, PopulationInit, NothingInit DEF IInv
<1>2. IInv /\ [Next]_vars => IInv'
    BY DataNext, ViewNext, ReqNext, PopulationNext, NothingNext DEF IInv
<1> QED
    BY <1>1, <1>2, PTL DEF Spec

-----------------------------------------------------------------------------
(* The theorems. *)

\* Every variable keeps its type, for any number of requests and of rounds.
THEOREM TypeOK == Spec => []AuditTypeOK
<1>1. IInv => AuditTypeOK
    BY DEF IInv, DataOK, ViewOK, ReqOK, AuditTypeOK, RoundsType, ContentType
<1> QED
    BY <1>1, Invariant, PTL

\* No control that has become or was created DESIGN has a population round
\* (ChangeRequirementType and CreateControl, audit_control_repo.go).
THEOREM NoPopulationOfDesign == Spec => []DesignHasNoPopulation
<1>1. IInv => DesignHasNoPopulation
    BY DEF IInv, PopulationOfOE, DesignHasNoPopulation
<1> QED
    BY <1>1, Invariant, PTL

\* A type changes only while nothing of the team's depends on it
\* (ChangeRequirementType, audit_control_repo.go).
THEOREM ChangeKeepsWork == Spec => TypeChangeLosesNoWork
<1> DEFINE Kept == ControlExists /\ type' # type =>
                     /\ Rows("evidence") = {}
                     /\ \A i \in Rows("population") :
                           rounds["population"][i] = "PENDING" /\ content["population"][i] = {}
<1>1. ASSUME IInv, NEW q \in Requests, RequestStep(q) PROVE Kept
  <2>1. CASE CreateControl(q)
    BY <2>1 DEF CreateControl, Create, ControlExists, ControlStatuses
  <2>2. CASE RemoveControl(q)
    BY <2>2 DEF RemoveControl, MoveTo, lifecycle
  <2>3. CASE ChangeRequirementType(q)
    BY <2>3 DEF ChangeRequirementType, Untouched
  <2> QED
    BY <1>1, <2>1, <2>2, <2>3, TypeKept DEF IInv
<1>2. IInv /\ [Next]_vars => [Kept]_vars
    BY <1>1 DEF Next, OtherControls, OthersMove
<1> QED
    BY <1>2, Invariant, PTL DEF Spec, TypeChangeLosesNoWork

\* One call of a request is one step of the lifecycle or none.
LEMMA LifecycleStep ==
    ASSUME IInv, NEW q \in Requests, RequestStep(q)
    PROVE  [LifecycleNext]_lifecycle
<1> USE DEF IInv
<1>1. CASE SetControl(q)
  <2>1. CASE ControlUnchanged(q)
    BY <1>1, <2>1, SetControlKept DEF SetControl, Move, LifecycleNext
  <2>2. CASE ~ ControlUnchanged(q)
    BY <1>1, <2>2 DEF SetControl
  <2> QED
    BY <2>1, <2>2
<1>2. CASE ApplyOverride(q)
    BY <1>2, ApplyOverrideKept DEF ApplyOverride, Override, LifecycleNext
<1>3. CASE RemoveControl(q)
    BY <1>3 DEF RemoveControl, Delete, ControlExists, LifecycleNext
<1>4. CASE CreateControl(q)
    BY <1>4 DEF CreateControl, LifecycleNext
<1>5. CASE ChangeRequirementType(q)
    BY <1>5 DEF ChangeRequirementType, LifecycleNext, RequirementTypes
<1>6. CASE UpdateAudit(q) \/ DeleteAudit(q)
    BY <1>6 DEF UpdateAudit, DeleteAudit, LifecycleNext, AuditStatusSet
<1> QED
    BY <1>1, <1>2, <1>3, <1>4, <1>5, <1>6, LifecycleWriters

\* The instance reads the same tables and writes the same rows.
LEMMA SameTables ==
    /\ Lifecycle!ControlStatuses = ControlStatuses
    /\ Lifecycle!RequirementTypes = RequirementTypes
    /\ Lifecycle!AuditStatusSet = AuditStatusSet
    /\ \A from, to : Lifecycle!ValidControlTransition(from, to) <=> ValidControlTransition(from, to)
    /\ \A from, to : Lifecycle!Backward(from, to) <=> Backward(from, to)
    /\ \A t : Lifecycle!FirstStatus(t) = FirstStatus(t)
    /\ \A others, row : Lifecycle!Recomputed(others, row) = Recomputed(others, row)
BY DEF ControlStatuses, RequirementTypes, AuditStatusSet, ValidControlTransition,
       AllowedControlTransitions, Backward, ControlStatusRank, FirstStatus, Recomputed, Done,
       Lifecycle!ControlStatuses, Lifecycle!RequirementTypes, Lifecycle!AuditStatusSet,
       Lifecycle!ValidControlTransition, Lifecycle!AllowedControlTransitions,
       Lifecycle!Backward, Lifecycle!ControlStatusRank, Lifecycle!FirstStatus,
       Lifecycle!Recomputed, Lifecycle!Done

LEMMA SameMoves == \A new : Lifecycle!MoveTo(new) <=> MoveTo(new)
BY SameTables DEF MoveTo, Lifecycle!MoveTo

\* AuditControl implements AuditLifecycle: the calls of overlapping requests move the
\* control and its audit as the lifecycle's single steps do (UpdateControl,
\* OverrideControlStatus, recomputeAuditStatus, audit_control_repo.go).
THEOREM Refinement == Spec => ImplementsLifecycle
<1>1. Init => Lifecycle!LifecycleInit
    BY DEF Init, LifecycleInit, LifecycleTypeOK, AuditStatusSet, RequirementTypes, RowStatuses,
           ControlStatuses, Lifecycle!LifecycleInit, Lifecycle!LifecycleTypeOK,
           Lifecycle!AuditStatusSet, Lifecycle!RequirementTypes, Lifecycle!RowStatuses,
           Lifecycle!ControlStatuses
<1>2. IInv /\ [Next]_vars => [LifecycleNext]_lifecycle
    BY LifecycleStep DEF Next, OtherControls, LifecycleNext, vars
<1>3. [LifecycleNext]_lifecycle => [Lifecycle!LifecycleNext]_(Lifecycle!lifecycle)
    BY SameTables, SameMoves
    DEF LifecycleNext, lifecycle, Move, Override, Create, SwitchType, Delete, OthersMove, SetAudit,
        Lifecycle!LifecycleNext, Lifecycle!lifecycle, Lifecycle!Move, Lifecycle!Override,
        Lifecycle!Create, Lifecycle!SwitchType, Lifecycle!Delete, Lifecycle!OthersMove,
        Lifecycle!SetAudit
<1> QED
    BY <1>1, <1>2, <1>3, Invariant, PTL DEF Spec, ImplementsLifecycle, Lifecycle!LifecycleSpec

-----------------------------------------------------------------------------
(* The rounds. *)

LEMMA RoundStep ==
    ASSUME IInv, NEW q \in Requests, RequestStep(q), NEW kind \in Kinds, NEW i \in RoundIds
    PROVE  \/ LegalRoundStep(kind, rounds[kind][i], rounds'[kind][i])
           \/ DemotedFrom(kind, i)
<1> DEFINE from == rounds[kind][i]
           to   == rounds'[kind][i]
<1> USE DEF IInv, DataOK, RoundsType
<1>1. CASE UNCHANGED rounds
    BY <1>1 DEF LegalRoundStep
<1>2. CASE CreateReplacementRound(q)
  <2>1. CASE StillLatest(req[q].id)
    <3>1. PICK new \in RoundIds :
            IsNew("population", new) /\ rounds' = [ rounds EXCEPT !["population"][new] = "PENDING" ]
        BY <1>2, <2>1, Zenon DEF CreateReplacementRound
    <3> QED
        BY <3>1 DEF IsNew, LegalRoundStep, Kinds
  <2>2. CASE ~ StillLatest(req[q].id)
    BY <1>1, <1>2, <2>2, Zenon DEF CreateReplacementRound
  <2> QED
    BY <2>1, <2>2
<1>3. CASE CreateEvidence(q)
  <2>1. CASE ControlExists
    <3>1. PICK new \in RoundIds :
            IsNew("evidence", new) /\ rounds' = [ rounds EXCEPT !["evidence"][new] = "SUBMITTED" ]
        BY <1>3, <2>1, Zenon DEF CreateEvidence
    <3> QED
        BY <3>1 DEF IsNew, LegalRoundStep, Kinds
  <2>2. CASE ~ ControlExists
    BY <1>1, <1>3, <2>2, Zenon DEF CreateEvidence
  <2> QED
    BY <2>1, <2>2
<1>4. CASE DiscardRound(q) \/ DropRound(q)
    BY <1>1, <1>4
    DEF DiscardRound, DropRound, DeleteEvidence, Deletable, IsLatest, Rows, LegalRoundStep, Kinds
<1>5. CASE SetRound(q)
  <2>1. CASE RoundUnchanged(q)
    <3>1. /\ rounds' = [ rounds EXCEPT ![req[q].kind][req[q].id] = req[q].rto ]
          /\ req[q].kind \in Kinds /\ req[q].id \in RoundIds /\ req[q].rto \in RoundStatuses
          /\ rounds[req[q].kind][req[q].id] \in RoundStatuses
          /\ ValidRoundTransition(req[q].kind, rounds[req[q].kind][req[q].id], req[q].rto)
        BY <1>5, <2>1, SetRoundKept DEF SetRound
    <3> QED
        BY <3>1 DEF LegalRoundStep
  <2>2. CASE ~ RoundUnchanged(q)
    BY <1>1, <1>5, <2>2 DEF SetRound
  <2> QED
    BY <2>1, <2>2
<1>6. CASE ApplyOverride(q)
  <2>1. At(q, "demote") /\ req[q].cto \in ControlStatuses /\ status = req[q].seen
    BY <1>6, ApplyOverrideKept DEF ApplyOverride, ReqOK, ControlHeld
  <2>2. status' = req[q].cto
    BY <1>6 DEF ApplyOverride, MoveTo
  <2>3. CASE i \in Rows(kind) /\ ReadAbove(kind, i, req[q].cto)
    <3>1. to = OverrideTarget(kind, req[q].cto)
        BY <1>6, <2>3 DEF ApplyOverride
    <3>2. to \in RoundStatuses
        BY <2>1, <2>3, <3>1, TargetType DEF ReadAbove
    <3> QED
        BY <2>1, <2>2, <2>3, <3>1, <3>2 DEF ReadAbove, DemotedFrom
  <2>4. CASE ~ (i \in Rows(kind) /\ ReadAbove(kind, i, req[q].cto))
    BY <1>6, <2>4 DEF ApplyOverride, LegalRoundStep
  <2> QED
    BY <2>3, <2>4
<1>7. CASE RemoveControl(q)
    BY <1>1, <1>7 DEF RemoveControl, LegalRoundStep
<1>8. CASE CreateControl(q)
  <2>1. \A j \in RoundIds : rounds["population"][j] = "NONE"
    BY <1>8 DEF CreateControl, Create, NothingYet
  <2> QED
    BY <1>1, <1>8, <2>1 DEF CreateControl, LegalRoundStep, Kinds
<1>9. CASE ChangeRequirementType(q)
  <2>1. CASE rounds' = PopulationDropped
    BY <2>1 DEF PopulationDropped, LegalRoundStep, Kinds
  <2>2. ASSUME NEW new \in RoundIds, IsNew("population", new),
               rounds' = [ rounds EXCEPT !["population"][new] = "PENDING" ]
        PROVE  LegalRoundStep(kind, from, to)
    BY <2>2 DEF IsNew, LegalRoundStep, Kinds
  <2> QED
    BY <1>9, <2>1, <2>2 DEF ChangeRequirementType
<1> QED
    BY <1>1, <1>2, <1>3, <1>4, <1>5, <1>6, <1>7, <1>8, <1>9, RoundWriters

\* However requests overlap, a round moves only along its review workflow, or below what
\* an override has read as it commits (UpdatePopulation, UpdateEvidence,
\* OverrideControlStatus).
THEOREM RoundsLegal == Spec => RoundsMoveLegally
<1> DEFINE Legal == \A kind \in Kinds, i \in RoundIds :
                       \/ LegalRoundStep(kind, rounds[kind][i], rounds'[kind][i])
                       \/ DemotedFrom(kind, i)
<1>1. IInv /\ [Next]_vars => [Legal]_vars
    BY RoundStep DEF Next, OtherControls, LegalRoundStep
<1> QED
    BY <1>1, Invariant, PTL DEF Spec, RoundsMoveLegally

-----------------------------------------------------------------------------
(* History: rows other than the latest. *)

LEMMA ContentWriters ==
    ASSUME NEW q \in Requests, RequestStep(q)
    PROVE  \/ UNCHANGED content
           \/ RecordFiles(q) \/ CreateEvidence(q) \/ DiscardRound(q) \/ DropRound(q)
           \/ DropFile(q) \/ RemoveControl(q) \/ ChangeRequirementType(q)
BY DEF RequestStep, SubmitPopulation, ListRounds, SubmitEvidence, AddEvidenceFiles, OpenRound,
       WithdrawEvidence, DeleteEvidenceRound, DeleteEvidenceFile, DeletePopulationFile,
       Reconcile, DecideRound, LatestRound, ReadRound, ReadControl, SubmitSample,
       RequestSampleTime, UpdateControlStatus, OverrideStatus, DeleteControl, Lost, Begin,
       OnlyRequests, CreateReplacementRound, SetRound, SetControl, ReadRoundsToDemote,
       ApplyOverride, CreateControl, UpdateAudit, DeleteAudit

\* Only the latest round leaves the table while its control is there.
LEMMA RowKept ==
    ASSUME IInv, NEW q \in Requests, RequestStep(q), ControlExists, ControlExists',
           NEW kind \in Kinds, NEW i \in Rows(kind), ~ IsLatest(kind, i)
    PROVE  i \in Rows(kind)'
<1> DEFINE from == rounds[kind][i]
           to   == rounds'[kind][i]
<1> USE DEF IInv, DataOK, RoundsType
<1>1. i \in RoundIds /\ from \notin { "NONE", "GONE" }
    BY DEF Rows
<1>2. LegalRoundStep(kind, from, to) \/ to \in RoundStatuses
    BY <1>1, RoundStep DEF DemotedFrom
<1>3. SUFFICES to # "GONE"
    BY <1>1, <1>2 DEF LegalRoundStep, Rows, RoundStatuses
<1>4. CASE UNCHANGED rounds
    BY <1>1, <1>4
<1>5. CASE CreateReplacementRound(q)
  <2>1. CASE StillLatest(req[q].id)
    <3>1. PICK new \in RoundIds : rounds' = [ rounds EXCEPT !["population"][new] = "PENDING" ]
        BY <1>5, <2>1, Zenon DEF CreateReplacementRound
    <3> QED
        BY <1>1, <3>1 DEF Kinds
  <2>2. CASE ~ StillLatest(req[q].id)
    BY <1>4, <1>5, <2>2, Zenon DEF CreateReplacementRound
  <2> QED
    BY <2>1, <2>2
<1>6. CASE CreateEvidence(q)
  <2>1. PICK new \in RoundIds : rounds' = [ rounds EXCEPT !["evidence"][new] = "SUBMITTED" ]
    BY <1>6, Zenon DEF CreateEvidence
  <2> QED
    BY <1>1, <2>1 DEF Kinds
<1>7. CASE DiscardRound(q) \/ DropRound(q)
    BY <1>1, <1>7 DEF DiscardRound, DropRound, DeleteEvidence, Deletable, Kinds
<1>8. CASE SetRound(q)
  <2>1. CASE RoundUnchanged(q)
    <3>1. /\ rounds' = [ rounds EXCEPT ![req[q].kind][req[q].id] = req[q].rto ]
          /\ req[q].rto \in RoundStatuses
        BY <1>8, <2>1, SetRoundKept DEF SetRound
    <3> QED
        BY <1>1, <3>1 DEF RoundStatuses
  <2>2. CASE ~ RoundUnchanged(q)
    BY <1>4, <1>8, <2>2 DEF SetRound
  <2> QED
    BY <2>1, <2>2
<1>9. CASE ApplyOverride(q)
  <2>1. \/ to = from
        \/ /\ to = OverrideTarget(kind, req[q].cto)
           /\ OverrideTarget(kind, req[q].cto) # "none"
    BY <1>1, <1>9 DEF ApplyOverride, ReadAbove
  <2>2. req[q].cto \in ControlStatuses
    BY <1>9, ApplyOverrideKept DEF ApplyOverride
  <2> QED
    BY <1>1, <2>1, <2>2, TargetType DEF RoundStatuses
<1>10. CASE RemoveControl(q)
    BY <1>10 DEF RemoveControl, MoveTo, ControlExists, ControlStatuses
<1>11. CASE CreateControl(q)
    BY <1>11 DEF CreateControl, Create, ControlExists, ControlStatuses
<1>12. CASE ChangeRequirementType(q)
  <2>1. (kind = "population" /\ IsLatest("population", i)) \/ Rows("population") = {}
    BY <1>12 DEF ChangeRequirementType, Kinds, Rows, IsLatest, RoundIds
  <2> QED
    BY <1>12, <2>1 DEF ChangeRequirementType, Kinds
<1> QED
    BY <1>4, <1>5, <1>6, <1>7, <1>8, <1>9, <1>10, <1>11, <1>12, RoundWriters

LEMMA ContentKept ==
    ASSUME IInv, NEW q \in Requests, RequestStep(q), ControlExists, ControlExists',
           NEW kind \in Kinds, NEW i \in Rows(kind), ~ IsLatest(kind, i)
    PROVE  content[kind][i] \subseteq content'[kind][i]
<1> USE DEF IInv, DataOK, ContentType
<1>1. i \in RoundIds /\ rounds[kind][i] \notin { "NONE", "GONE" }
    BY DEF Rows
<1>2. CASE UNCHANGED content
    BY <1>2
<1>3. CASE RecordFiles(q)
    BY <1>1, <1>3 DEF RecordFiles
<1>4. CASE CreateEvidence(q)
  <2>1. PICK new \in RoundIds, note \in { {}, { "note" } } :
          IsNew("evidence", new) /\ content' = [ content EXCEPT !["evidence"][new] = note ]
    BY <1>4, Zenon DEF CreateEvidence
  <2> QED
    BY <1>1, <2>1 DEF IsNew
<1>5. CASE DiscardRound(q) \/ DropRound(q)
    BY <1>1, <1>5 DEF DiscardRound, DropRound, DeleteEvidence, Deletable
<1>6. CASE DropFile(q)
  <2>1. CASE content' = [ content EXCEPT ![req[q].kind][req[q].id] = @ \ { "files" } ]
    BY <1>1, <1>6, <2>1 DEF DropFile, FilesDeletable
  <2> QED
    BY <1>2, <1>6, <2>1, Zenon DEF DropFile
<1>7. CASE RemoveControl(q)
    BY <1>7 DEF RemoveControl, MoveTo, ControlExists, ControlStatuses
<1>8. CASE ChangeRequirementType(q)
  <2>1. (kind = "population" /\ IsLatest("population", i)) \/ Rows("population") = {}
    BY <1>8 DEF ChangeRequirementType, Kinds, Rows, IsLatest, RoundIds
  <2> QED
    BY <1>8, <2>1 DEF ChangeRequirementType, Kinds
<1> QED
    BY <1>2, <1>3, <1>4, <1>5, <1>6, <1>7, <1>8, ContentWriters

\* No request deletes a superseded round or its files, however late its call comes
\* (DeleteEvidence, DeleteEvidenceFile, DeletePopulationFile).
THEOREM History == Spec => HistoryIsKept
<1> DEFINE Kept == ControlExists' /\ ControlExists => \A kind \in Kinds : \A i \in Rows(kind) :
                      \/ IsLatest(kind, i)
                      \/ i \in Rows(kind)' /\ content[kind][i] \subseteq content'[kind][i]
<1>1. ASSUME IInv, OtherControls PROVE Kept
    BY <1>1 DEF OtherControls, Rows
<1>2. IInv /\ [Next]_vars => [Kept]_vars
    BY <1>1, RowKept, ContentKept DEF Next
<1> QED
    BY <1>2, Invariant, PTL DEF Spec, HistoryIsKept

-----------------------------------------------------------------------------
(* Overrides. *)

\* PENDING is a status of populations.
EvidenceReviewed == \A i \in RoundIds : rounds["evidence"][i] # "PENDING"

LEMMA EvidenceTarget ==
    ASSUME NEW to \in ControlStatuses
    PROVE  /\ OverrideTarget("evidence", to) \in RoundStatuses \ { "PENDING" }
           /\ ControlStatusRank[to] <= ControlStatusRank["EVIDENCE_PENDING"] =>
                 /\ OverrideTarget("evidence", to) \in Rejected
                 /\ \A at \in RoundStatuses \ { "PENDING" } :
                       ~ (RoundStatusRank[OverrideTarget("evidence", to)] < RoundStatusRank[at])
                          => at \in Rejected
BY DEF OverrideTarget, OverrideEvidenceTarget, RoundStatusRank, RoundStatuses, Rejected,
       ControlStatusRank, ControlStatuses

LEMMA PopulationTarget ==
    ASSUME NEW to \in { "POPULATION_PENDING", "POPULATION_NEED_CLARIFICATION" }
    PROVE  /\ OverrideTarget("population", to) \in { "PENDING" } \cup Rejected
           /\ \A at \in RoundStatuses :
                 ~ (RoundStatusRank[OverrideTarget("population", to)] < RoundStatusRank[at])
                    => at \in { "PENDING" } \cup Rejected
BY DEF OverrideTarget, OverridePopulationTarget, RoundStatusRank, RoundStatuses, Rejected

LEMMA EvidenceStep ==
    ASSUME IInv, EvidenceReviewed, NEW q \in Requests, RequestStep(q)
    PROVE  EvidenceReviewed'
<1> USE DEF IInv, DataOK, RoundsType, EvidenceReviewed
<1>1. CASE UNCHANGED rounds
    BY <1>1
<1>2. CASE CreateReplacementRound(q) \/ CreateControl(q)
    BY <1>2, Zenon DEF CreateReplacementRound, CreateControl, Kinds
<1>3. CASE CreateEvidence(q)
  <2>1. CASE ControlExists
    <3>1. PICK new \in RoundIds : rounds' = [ rounds EXCEPT !["evidence"][new] = "SUBMITTED" ]
        BY <1>3, <2>1, Zenon DEF CreateEvidence
    <3> QED
        BY <3>1 DEF Kinds
  <2>2. CASE ~ ControlExists
    BY <1>1, <1>3, <2>2, Zenon DEF CreateEvidence
  <2> QED
    BY <2>1, <2>2
<1>4. CASE DiscardRound(q) \/ DropRound(q)
    BY <1>4 DEF DiscardRound, DropRound, DeleteEvidence, Kinds
<1>5. CASE SetRound(q)
  <2>1. CASE RoundUnchanged(q)
    BY <1>5, <2>1, SetRoundKept
    DEF SetRound, ValidRoundTransition, ValidEvidenceTransition, AllowedEvidenceTransitions, Kinds
  <2>2. CASE ~ RoundUnchanged(q)
    BY <1>1, <1>5, <2>2 DEF SetRound
  <2> QED
    BY <2>1, <2>2
<1>6. CASE ApplyOverride(q)
  <2> SUFFICES ASSUME NEW i \in RoundIds PROVE rounds'["evidence"][i] # "PENDING"
    OBVIOUS
  <2>1. req[q].cto \in ControlStatuses
    BY <1>6, ApplyOverrideKept DEF ApplyOverride
  <2>2. rounds'["evidence"][i] \in { rounds["evidence"][i], OverrideTarget("evidence", req[q].cto) }
    BY <1>6 DEF ApplyOverride, Kinds
  <2> QED
    BY <2>1, <2>2, EvidenceTarget
<1>7. CASE RemoveControl(q)
    BY <1>1, <1>7 DEF RemoveControl, Kinds
<1>8. CASE ChangeRequirementType(q)
    BY <1>8 DEF ChangeRequirementType, PopulationDropped, Kinds
<1> QED
    BY <1>1, <1>2, <1>3, <1>4, <1>5, <1>6, <1>7, <1>8, RoundWriters

LEMMA EvidenceInvariant == Spec => []EvidenceReviewed
<1>1. Init => EvidenceReviewed
    BY DEF Init, EvidenceAtRest, First, EvidenceReviewed, Kinds
<1>2. IInv /\ EvidenceReviewed /\ [Next]_vars => EvidenceReviewed'
    BY EvidenceStep DEF Next, OtherControls, vars, EvidenceReviewed
<1> QED
    BY <1>1, <1>2, Invariant, PTL DEF Spec

\* What an override leaves a round in that nobody else has moved since it was read.
LEMMA OverrideRows ==
    ASSUME IInv, NEW q \in Requests, ApplyOverride(q), NEW kind \in Kinds, NEW i \in RoundIds,
           IsLatest(kind, i)', ~ MovedSinceRead(kind, i),
           OverrideTarget(kind, req[q].cto) # "none"
    PROVE  LET target == OverrideTarget(kind, req[q].cto)
           IN  \/ rounds'[kind][i] = target
               \/ /\ rounds'[kind][i] = rounds[kind][i]
                  /\ rounds[kind][i] \in RoundStatuses
                  /\ ~ (RoundStatusRank[target] < RoundStatusRank[rounds[kind][i]])
<1> DEFINE target == OverrideTarget(kind, req[q].cto)
<1>1. rounds'[kind][i] = IF i \in Rows(kind) /\ ReadAbove(kind, i, req[q].cto) THEN target
                         ELSE rounds[kind][i]
    BY DEF ApplyOverride
<1>2. LatestRead(kind, i)
    BY DEF MovedSinceRead
<1>3. CASE rounds'[kind][i] = rounds[kind][i]
  <2>1. rounds[kind][i] = view[kind][i] /\ rounds[kind][i] \in RoundStatuses
    BY <1>2, <1>3 DEF MovedSinceRead, LatestRead
  <2>2. i \in Rows(kind)
    BY <2>1 DEF Rows, RoundStatuses
  <2> QED
    BY <1>1, <1>2, <1>3, <2>1, <2>2 DEF ReadAbove
<1> QED
    BY <1>1, <1>3

\* The request whose override took effect is the one that moved.
LEMMA OverrideApplied ==
    ASSUME IInv, NEW p \in Requests, RequestStep(p), status' # status,
           NEW q \in Requests, At(q, "demote"), At(q, "done")'
    PROVE  ApplyOverride(q)
<1>1. p = q
    BY OthersAsTheyWere DEF At, IInv
<1>2. QED
    BY <1>1, LifecycleWriters
    DEF SetControl, RemoveControl, CreateControl, ChangeRequirementType, UpdateAudit, DeleteAudit,
        Asked, At, lifecycle

\* However an override meets the requests under way, the round it leaves the control
\* with is one the control's new status can go on from (overridePopulationTarget,
\* overrideEvidenceTarget, audit_control_service.go).
THEOREM NothingStranded == Spec => OverrideStrandsNothing
<1> DEFINE Kept ==
      (\E q \in Requests : At(q, "demote") /\ At(q, "done")') /\ status' # status =>
            /\ status' \in { "POPULATION_PENDING", "POPULATION_NEED_CLARIFICATION" }
                  => \A i \in RoundIds : IsLatest("population", i)'
                        => ActivePopulation(i)' \/ MovedSinceRead("population", i)
            /\ ControlStatusRank[status'] <= ControlStatusRank["EVIDENCE_PENDING"]
                  => \A i \in RoundIds : IsLatest("evidence", i)'
                        => \/ rounds'["evidence"][i] \in Rejected
                           \/ MovedSinceRead("evidence", i)
<1>1. ASSUME IInv, EvidenceReviewed, NEW p \in Requests, RequestStep(p),
             NEW q \in Requests, At(q, "demote"), At(q, "done")', status' # status
      PROVE  Kept
  <2>1. ApplyOverride(q)
    BY <1>1, OverrideApplied
  <2>2. status' = req[q].cto /\ req[q].cto \in ControlStatuses
    BY <1>1, <2>1, ApplyOverrideKept DEF ApplyOverride, MoveTo, IInv
  <2>3. ASSUME NEW i \in RoundIds, IsLatest("population", i)', ~ MovedSinceRead("population", i),
               status' \in { "POPULATION_PENDING", "POPULATION_NEED_CLARIFICATION" }
        PROVE  ActivePopulation(i)'
    <3>1. OverrideTarget("population", req[q].cto) # "none"
        BY <2>2, <2>3, PopulationTarget DEF Rejected
    <3>2. rounds'["population"][i] \in { "PENDING" } \cup Rejected
        BY <1>1, <2>1, <2>2, <2>3, <3>1, OverrideRows, PopulationTarget DEF Kinds
    <3> QED
        BY <2>3, <3>2 DEF ActivePopulation
  <2>4. ASSUME NEW i \in RoundIds, IsLatest("evidence", i)', ~ MovedSinceRead("evidence", i),
               ControlStatusRank[status'] <= ControlStatusRank["EVIDENCE_PENDING"]
        PROVE  rounds'["evidence"][i] \in Rejected
    <3>1. OverrideTarget("evidence", req[q].cto) # "none"
        BY <2>2, EvidenceTarget DEF RoundStatuses
    <3> QED
        BY <1>1, <2>1, <2>2, <2>4, <3>1, OverrideRows, EvidenceTarget DEF EvidenceReviewed, Kinds
  <2> QED
    BY <2>3, <2>4
<1>2. IInv /\ EvidenceReviewed /\ [Next]_vars => [Kept]_vars
    BY <1>1 DEF Next, OtherControls, OthersMove
<1> QED
    BY <1>2, Invariant, EvidenceInvariant, PTL DEF Spec, OverrideStrandsNothing

-----------------------------------------------------------------------------
(* The reminders of controls (AuditReminders). *)

\* What a row of the table means.
Row(k) ==
    /\ told[k] <= 1
    /\ k \in lost => told[k] = 0 /\ holder[k] # NoServer
    /\ told[k] > 0 => holder[k] # NoServer
    /\ holder[k] # NoServer => told[k] > 0 \/ k \in lost
                             \/ \E q \in Servers : holder[k] = q /\ k \in Pending(q)

\* What a sweep has claimed and not told is its server's and nobody else's.
Grip(s) ==
    \A k \in Reminders : k \in Pending(s) => holder[k] = s /\ told[k] = 0 /\ k \notin lost

Claims ==
    /\ \A s \in Servers : Grip(s)
    /\ \A k \in Reminders : Row(k)

ShapesOK == control \in [ Controls -> Shapes ]

SweepInv == AuditRemindersTypeOK /\ ShapesOK /\ Claims

-----------------------------------------------------------------------------

LEMMA RouteType ==
    ASSUME NEW st \in Routed
    PROVE  /\ StatusRoutes[st].waitsOn \in { "owner", "auditor", "admins" }
           /\ StatusRoutes[st].population \in BOOLEAN
<1>1. Routed = { "POPULATION_PENDING", "POPULATION_NEED_CLARIFICATION", "POPULATION_INTERNAL_REVIEW",
                 "POPULATION_UNDER_VALIDATION", "POPULATION_COMPLETE", "AWAITING_SAMPLE",
                 "SUBMITTED_SAMPLE", "EVIDENCE_PENDING", "EVIDENCE_NEED_CLARIFICATION",
                 "EVIDENCE_INTERNAL_REVIEW", "EVIDENCE_UNDER_VALIDATION" }
    BY DEF Routed, StatusRoutes
<1>2. /\ StatusRoutes["POPULATION_PENDING"] = Route("owner", TRUE)
      /\ StatusRoutes["POPULATION_NEED_CLARIFICATION"] = Route("owner", TRUE)
      /\ StatusRoutes["POPULATION_INTERNAL_REVIEW"] = Route("admins", TRUE)
      /\ StatusRoutes["POPULATION_UNDER_VALIDATION"] = Route("auditor", TRUE)
      /\ StatusRoutes["POPULATION_COMPLETE"] = Route("auditor", FALSE)
      /\ StatusRoutes["AWAITING_SAMPLE"] = Route("auditor", FALSE)
      /\ StatusRoutes["EVIDENCE_UNDER_VALIDATION"] = Route("auditor", FALSE)
      /\ StatusRoutes["SUBMITTED_SAMPLE"] = Route("owner", FALSE)
      /\ StatusRoutes["EVIDENCE_PENDING"] = Route("owner", FALSE)
      /\ StatusRoutes["EVIDENCE_NEED_CLARIFICATION"] = Route("owner", FALSE)
      /\ StatusRoutes["EVIDENCE_INTERNAL_REVIEW"] = Route("admins", FALSE)
    BY DEF StatusRoutes
<1>3. \E who \in { "owner", "auditor", "admins" }, pop \in BOOLEAN : StatusRoutes[st] = Route(who, pop)
    BY <1>1, <1>2
<1> QED
    BY <1>3 DEF Route

LEMMA AssigneeType ==
    ASSUME NEW row \in Control, row.status \in Routed
    PROVE  Assignee(row) \in People \cup { Nobody }
<1>1. /\ row.owner \in People \cup { Nobody } /\ row.popOwner \in People \cup { Nobody }
      /\ row.auditor \in People \cup { Nobody }
    BY DEF Control
<1> QED
    BY <1>1, RouteType DEF Assignee

LEMMA ReminderType ==
    ASSUME NEW p \in People, NEW c \in Controls, NEW row \in Shapes, NEW day \in Days,
           Counts(row, day)
    PROVE  ReminderTo(p, c, row, day) \in Reminders
<1> DEFINE x == <<row, day>>
<1>1. x \in { y \in Shapes \X Days : Counts(y[1], y[2]) }
    OBVIOUS
<1>2. ReminderTo(p, c, x[1], x[2]) \in { ReminderTo(q, d, x[1], x[2]) : q \in People, d \in Controls }
    OBVIOUS
<1> QED
    BY <1>1, <1>2 DEF Reminders

LEMMA AttemptsType ==
    ASSUME ShapesOK, NEW day \in Days, NEW admins \in SUBSET People
    PROVE  Attempts(day, admins) \in SUBSET [ reminder : Reminders, digest : { "own", "admin" } ]
<1>1. ASSUME NEW c \in Controls, Counts(control[c], day)
      PROVE  /\ OwnDigests(c, day, admins) \subseteq [ reminder : Reminders, digest : { "own", "admin" } ]
             /\ Escalations(c, day, admins) \subseteq [ reminder : Reminders, digest : { "own", "admin" } ]
  <2>1. control[c] \in Shapes /\ control[c] \in Control
      BY ShapesAssumption DEF ShapesOK
  <2>2. ASSUME NEW p \in People, NEW d \in { "own", "admin" }
        PROVE  Attempt(p, c, day, d) \in [ reminder : Reminders, digest : { "own", "admin" } ]
      BY <1>1, <2>1, ReminderType DEF Attempt
  <2>3. Assignee(control[c]) \in People \cup { Nobody }
      BY <1>1, <2>1, AssigneeType DEF Counts
  <2> QED
      BY <2>2, <2>3 DEF OwnDigests, Escalations
<1> QED
    BY <1>1 DEF Attempts

LEMMA IdleType ==
    /\ Idle \in Sweep /\ Idle.pc = "idle" /\ Idle.todo = {} /\ Idle.own = {} /\ Idle.admin = {}
<1>1. (CHOOSE d \in Days : TRUE) \in Days
    BY AuditRemindersAssumption
<1> QED
    BY <1>1 DEF Idle, Sweep

\* A sweep as its type describes it.
Sane(w) ==
    /\ w \in Sweep
    /\ w.todo # {} => w.pc = "claim"
    /\ w.own # {} => w.pc \in { "claim", "own" }
    /\ w.admin # {} => w.pc # "idle"

LEMMA SetEffect ==
    ASSUME AuditRemindersTypeOK, NEW s \in Servers, NEW v, Set(s, v)
    PROVE  /\ sweeps'[s] = v
           /\ \A q \in Servers \ { s } : sweeps'[q] = sweeps[q] /\ Pending(q)' = Pending(q)
           /\ Pending(s)' = v.own \cup v.admin
           /\ Sane(v) => /\ sweeps' \in [ Servers -> Sweep ]
                         /\ \A q \in Servers : Sane(sweeps'[q])
BY DEF Set, AuditRemindersTypeOK, Sane, Pending

LEMMA TypeInit == SweepInit => AuditRemindersTypeOK /\ ShapesOK
<1> SUFFICES ASSUME SweepInit PROVE AuditRemindersTypeOK /\ ShapesOK
    OBVIOUS
<1>1. ShapesOK /\ control \in [ Controls -> Control ]
    BY ShapesAssumption DEF SweepInit, ShapesOK
<1>2. \A s \in Servers : sweeps[s] = Idle
    BY DEF SweepInit
<1>3. sweeps \in [ Servers -> Sweep ]
    BY IdleType DEF SweepInit
<1> QED
    BY <1>1, <1>2, <1>3, IdleType, AuditRemindersAssumption DEF SweepInit, AuditRemindersTypeOK

-----------------------------------------------------------------------------
(* What a step does to the claims. *)

SameHands == \A q \in Servers : Pending(q)' = Pending(q)

OtherHands(s) == \A q \in Servers \ { s } : Pending(q)' = Pending(q)

Quiet == UNCHANGED <<holder, told, lost>> /\ SameHands

Takes(s, k) ==
    /\ holder[k] = NoServer /\ holder' = [ holder EXCEPT ![k] = s ] /\ UNCHANGED <<told, lost>>
    /\ Pending(s)' = Pending(s) \cup { k } /\ OtherHands(s)

Misses(s, k) ==
    /\ holder[k] = NoServer /\ holder' = [ holder EXCEPT ![k] = s ]
    /\ lost' = lost \cup { k } /\ UNCHANGED told /\ SameHands

Tells(s, sent) ==
    /\ sent \subseteq Pending(s)
    /\ told' = [ k \in Reminders |-> IF k \in sent THEN told[k] + 1 ELSE told[k] ]
    /\ Pending(s)' = Pending(s) \ sent /\ OtherHands(s)
    /\ UNCHANGED <<holder, lost>>

\* Gives back the ones, loses the others.
Lets(s, back, dropped) ==
    /\ back \cup dropped \subseteq Pending(s) /\ back \cap dropped = {}
    /\ holder' = Released(holder, back) /\ lost' = lost \cup dropped /\ UNCHANGED told
    /\ Pending(s)' = Pending(s) \ (back \cup dropped) /\ OtherHands(s)

ClaimStep ==
    \/ Quiet
    \/ \E s \in Servers :
          \/ \E k \in Reminders : Takes(s, k) \/ Misses(s, k)
          \/ \E sent \in SUBSET Reminders : Tells(s, sent)
          \/ \E back, dropped \in SUBSET Reminders : Lets(s, back, dropped)

\* What a step of a sweep leaves of the types.
Typed ==
    /\ sweeps' \in [ Servers -> Sweep ] /\ \A q \in Servers : Sane(sweeps'[q])
    /\ UNCHANGED <<today, control, closed, edits>> /\ faults' \in 0..MaxFaults

LEMMA TypedIsType ==
    ASSUME AuditRemindersTypeOK, ShapesOK, Typed, ClaimStep
    PROVE  AuditRemindersTypeOK' /\ ShapesOK'
<1>1. holder' \in [ Reminders -> Servers \cup { NoServer } ]
    BY DEF AuditRemindersTypeOK, ClaimStep, Quiet, Takes, Misses, Tells, Lets, Released
<1>2. told' \in [ Reminders -> Nat ]
    BY DEF AuditRemindersTypeOK, ClaimStep, Quiet, Takes, Misses, Tells, Lets
<1>3. lost' \subseteq Reminders
    BY DEF AuditRemindersTypeOK, ClaimStep, Quiet, Takes, Misses, Tells, Lets
<1> QED
    BY <1>1, <1>2, <1>3 DEF AuditRemindersTypeOK, ShapesOK, Typed, Sane, Audits

LEMMA FaultType == ASSUME AuditRemindersTypeOK, Fault PROVE faults' \in 0..MaxFaults
BY AuditRemindersAssumption DEF AuditRemindersTypeOK, Fault

LEMMA SweepClaims ==
    ASSUME AuditRemindersTypeOK, ShapesOK, Claims, NEW s \in Servers, SweepStep(s)
    PROVE  Typed /\ ClaimStep
<1> DEFINE w == sweeps[s]
<1>1. Sane(w) /\ Pending(s) = w.own \cup w.admin /\ w.own \cup w.admin \subseteq Reminders
    BY DEF AuditRemindersTypeOK, Sane, Pending, Sweep
<1>2. OnlySweeps
    BY DEF SweepStep, RunOnce, StartSending, OwnDone, Completes, Claim, ClaimedBefore, ClaimFails,
           DigestSent, DigestFails, Panic, Crash
<1>3. faults' \in 0..MaxFaults
  <2>1. faults' = faults \/ Fault
      BY DEF SweepStep, RunOnce, StartSending, OwnDone, Completes, Claim, ClaimedBefore,
             ClaimFails, DigestSent, DigestFails, GivesBack, Panic, Crash
  <2> QED
      BY <2>1, FaultType DEF AuditRemindersTypeOK
<1>4. ASSUME NEW v, Set(s, v), Sane(v)
      PROVE  /\ Typed /\ Pending(s)' = v.own \cup v.admin /\ OtherHands(s)
             /\ v.own \cup v.admin = Pending(s) => SameHands
    BY <1>2, <1>3, <1>4, SetEffect DEF Typed, OnlySweeps, OtherHands, SameHands
<1>5. CASE RunOnce(s)
  <2>1. PICK admins \in { Admins, {} } :
            Set(s, [ Idle EXCEPT !.pc = "claim", !.day = today, !.todo = Attempts(today, admins) ])
      BY <1>5 DEF RunOnce
  <2>2. Attempts(today, admins) \in SUBSET [ reminder : Reminders, digest : { "own", "admin" } ]
      BY AttemptsType, AuditRemindersAssumption DEF AuditRemindersTypeOK
  <2> DEFINE todo == Attempts(today, admins)
             v == [ Idle EXCEPT !.pc = "claim", !.day = today, !.todo = todo ]
  <2> HIDE DEF todo
  <2>3. Sane(v) /\ v.own = {} /\ v.admin = {}
      BY <2>2, IdleType DEF Sane, Sweep, AuditRemindersTypeOK, todo
  <2>4. Set(s, v)
      BY <2>1 DEF todo
  <2>5. w.own = {} /\ w.admin = {} /\ UNCHANGED <<holder, told, lost>>
      BY <1>1, <1>5 DEF RunOnce, Sane
  <2> HIDE DEF v
  <2>6. Typed /\ SameHands
      BY <1>1, <1>4, <2>3, <2>4, <2>5
  <2> QED
      BY <2>5, <2>6 DEF ClaimStep, Quiet
<1>6. CASE StartSending(s) \/ OwnDone(s)
  <2>1. PICK pc \in { "own", "admin" } :
            /\ Set(s, [ w EXCEPT !.pc = pc ]) /\ w.todo = {} /\ UNCHANGED <<holder, told, lost>>
            /\ w.own # {} => pc = "own"
    <3>1. CASE StartSending(s)
        BY <3>1 DEF StartSending
    <3>2. CASE OwnDone(s)
      <4>1. w.own = {}
        <5>1. ASSUME NEW k \in w.own PROVE FALSE
          <6>1. k \in OwnDigest(s, k.to)
              BY <5>1 DEF OwnDigest
          <6>2. k.to \in People
            <7>1. k \in Reminders
                BY <1>1, <5>1
            <7> QED
                BY <7>1 DEF Reminders, ReminderTo
          <6> QED
              BY <3>2, <6>1, <6>2 DEF OwnDone, Digests
        <5> QED
            BY <5>1
      <4> QED
          BY <1>1, <3>2, <4>1 DEF OwnDone, Sane
    <3> QED
        BY <1>6, <3>1, <3>2
  <2> DEFINE v == [ w EXCEPT !.pc = pc ]
  <2>2. Sane(v) /\ v.own = w.own /\ v.admin = w.admin
      BY <1>1, <2>1 DEF Sane, Sweep
  <2>3. Set(s, v)
      BY <2>1
  <2> HIDE DEF v
  <2> QED
      BY <1>1, <1>4, <2>1, <2>2, <2>3 DEF ClaimStep, Quiet
<1>7. CASE Completes(s)
  <2>1. w.admin = {}
    <3>1. ASSUME NEW k \in w.admin PROVE FALSE
      <4>1. k.to \in People /\ AuditOf[k.item.of] \in Audits
        <5>1. k \in Reminders
            BY <1>1, <3>1
        <5>2. PICK p \in People, c \in Controls, row \in Shapes, day \in Days :
                  k = ReminderTo(p, c, row, day)
            BY <5>1 DEF Reminders
        <5>3. k.to = p /\ k.item.of = c
            BY <5>2 DEF ReminderTo
        <5> QED
            BY <5>3 DEF Audits
      <4>2. k \in AdminDigest(s, k.to, AuditOf[k.item.of])
          BY <3>1 DEF AdminDigest
      <4> QED
          BY <1>7, <4>1, <4>2 DEF Completes, Digests
    <3> QED
        BY <3>1
  <2>2. w.own = {} /\ Set(s, Idle) /\ UNCHANGED <<holder, told, lost>>
      BY <1>1, <1>7 DEF Completes, Sane
  <2> QED
      BY <1>1, <1>4, <2>1, <2>2, IdleType DEF ClaimStep, Quiet, Sane
<1>8. ASSUME NEW a \in NextAttempts(s), Claim(s, a) \/ ClaimedBefore(s, a) \/ ClaimFails(s, a)
      PROVE  Typed /\ ClaimStep
  <2> DEFINE k == a.reminder
  <2>1. a \in w.todo /\ w.pc = "claim"
      BY <1>8 DEF NextAttempts, Claim, ClaimedBefore, ClaimFails
  <2>2. a \in [ reminder : Reminders, digest : { "own", "admin" } ]
      BY <1>1, <2>1 DEF Sane, Sweep
  <2>3. k \in Reminders
      BY <2>2
  <2>4. /\ Sane(Skipped(s, a)) /\ Skipped(s, a).own = w.own /\ Skipped(s, a).admin = w.admin
      BY <1>1, <2>1 DEF Sane, Sweep, Skipped
  <2>5. CASE Claim(s, a)
    <3>1. Sane(Queued(s, a)) /\ Queued(s, a).own \cup Queued(s, a).admin = Pending(s) \cup { k }
      <4>1. CASE a.digest = "own"
        <5>1. Queued(s, a) = [ w EXCEPT !.todo = @ \ { a }, !.own = @ \cup { k } ]
            BY <4>1 DEF Queued
        <5> DEFINE todo == w.todo \ { a }
                   own == w.own \cup { k }
        <5>2. /\ todo \in SUBSET [ reminder : Reminders, digest : { "own", "admin" } ]
              /\ own \in SUBSET Reminders
            BY <1>1, <2>3 DEF Sane, Sweep
        <5>3. Queued(s, a) = [ w EXCEPT !.todo = todo, !.own = own ]
            BY <5>1
        <5> HIDE DEF todo, own
        <5>4. Sane(Queued(s, a)) /\ Queued(s, a).own = own /\ Queued(s, a).admin = w.admin
            BY <1>1, <2>1, <5>2, <5>3 DEF Sane, Sweep
        <5> QED
            BY <1>1, <5>4 DEF own
      <4>2. CASE a.digest # "own"
        <5>1. Queued(s, a) = [ w EXCEPT !.todo = @ \ { a }, !.admin = @ \cup { k } ]
            BY <4>2 DEF Queued
        <5> DEFINE todo == w.todo \ { a }
                   admin == w.admin \cup { k }
        <5>2. /\ todo \in SUBSET [ reminder : Reminders, digest : { "own", "admin" } ]
              /\ admin \in SUBSET Reminders
            BY <1>1, <2>3 DEF Sane, Sweep
        <5>3. Queued(s, a) = [ w EXCEPT !.todo = todo, !.admin = admin ]
            BY <5>1
        <5> HIDE DEF todo, admin
        <5>4. Sane(Queued(s, a)) /\ Queued(s, a).admin = admin /\ Queued(s, a).own = w.own
            BY <1>1, <2>1, <5>2, <5>3 DEF Sane, Sweep
        <5> QED
            BY <1>1, <5>4 DEF admin
      <4> QED
          BY <4>1, <4>2
    <3>2. Set(s, Queued(s, a)) /\ Unclaimed(k) /\ holder' = [ holder EXCEPT ![k] = s ] /\ UNCHANGED <<told, lost>>
        BY <2>5 DEF Claim
    <3>3. Typed /\ Takes(s, k)
        BY <1>4, <3>1, <3>2 DEF Takes, Unclaimed
    <3> QED
        BY <2>3, <3>3 DEF ClaimStep
  <2>6. CASE ClaimedBefore(s, a)
    <3>1. Set(s, Skipped(s, a)) /\ UNCHANGED <<holder, told, lost>>
        BY <2>6 DEF ClaimedBefore
    <3> QED
        BY <1>1, <1>4, <2>4, <3>1 DEF ClaimStep, Quiet
  <2>7. CASE ClaimFails(s, a)
    <3>1. Set(s, Skipped(s, a)) /\ UNCHANGED told
        BY <2>7 DEF ClaimFails
    <3>2. Typed /\ SameHands
        BY <1>1, <1>4, <2>4, <3>1
    <3>3. Quiet \/ Misses(s, k)
        BY <2>7, <3>1, <3>2 DEF ClaimFails, Unclaimed, Quiet, Misses
    <3> QED
        BY <2>3, <3>2, <3>3 DEF ClaimStep
  <2> QED
      BY <1>8, <2>5, <2>6, <2>7
<1>9. ASSUME NEW digest \in Digests(s), DigestSent(s, digest) \/ DigestFails(s, digest)
      PROVE  Typed /\ ClaimStep
  <2>1. digest \subseteq Pending(s)
      BY <1>1 DEF Digests, OwnDigest, AdminDigest
  <2>2. Sane(Resolved(s, digest)) /\ Resolved(s, digest).own \cup Resolved(s, digest).admin = Pending(s) \ digest
      BY <1>1 DEF Resolved, Sane, Sweep
  <2>3. Set(s, Resolved(s, digest))
      BY <1>9 DEF DigestSent, DigestFails
  <2>4. Typed /\ Pending(s)' = Pending(s) \ digest /\ OtherHands(s)
      BY <1>4, <2>2, <2>3
  <2>5. digest \in SUBSET Reminders
      BY <1>1, <2>1
  <2>6. CASE DigestSent(s, digest)
    <3>1. Tells(s, digest)
        BY <2>1, <2>4, <2>6 DEF DigestSent, Tells
    <3> QED
        BY <2>4, <2>5, <3>1 DEF ClaimStep
  <2>7. CASE DigestFails(s, digest)
    <3>1. PICK kept \in SUBSET digest :
              holder' = Released(holder, digest \ kept) /\ lost' = lost \cup kept /\ UNCHANGED told
      <4>1. GivesBack(digest) /\ UNCHANGED told
          BY <2>7 DEF DigestFails
      <4>2. CASE holder' = Released(holder, digest) /\ UNCHANGED <<lost, faults>>
        <5>1. digest \ {} = digest /\ lost \cup {} = lost /\ {} \in SUBSET digest
            OBVIOUS
        <5> QED
            BY <4>1, <4>2, <5>1
      <4> QED
          BY <4>1, <4>2 DEF GivesBack
    <3>2. Lets(s, digest \ kept, kept)
      <4>1. (digest \ kept) \cup kept = digest /\ (digest \ kept) \cap kept = {}
          OBVIOUS
      <4> QED
          BY <2>1, <2>4, <3>1, <4>1 DEF Lets
    <3>3. digest \ kept \in SUBSET Reminders /\ kept \in SUBSET Reminders
        BY <2>5
    <3> QED
        BY <2>4, <3>2, <3>3 DEF ClaimStep
  <2> QED
      BY <1>9, <2>6, <2>7
<1>10. CASE Panic(s) \/ Crash(s)
  <2>1. PICK kept \in SUBSET Pending(s) :
            holder' = Released(holder, Pending(s) \ kept) /\ lost' = lost \cup kept /\ UNCHANGED told
    <3>1. CASE Panic(s)
        BY <3>1 DEF Panic
    <3>2. CASE Crash(s)
      <4>1. holder' = holder /\ lost' = lost \cup Pending(s) /\ UNCHANGED told
          BY <3>2 DEF Crash
      <4>2. Released(holder, Pending(s) \ Pending(s)) = holder
          BY DEF Released, AuditRemindersTypeOK
      <4> QED
          BY <4>1, <4>2
    <3> QED
        BY <1>10, <3>1, <3>2
  <2>2. Set(s, Idle) /\ Sane(Idle)
      BY <1>10, IdleType DEF Panic, Crash, Sane
  <2>3. Typed /\ Pending(s)' = {} /\ OtherHands(s)
      BY <1>4, <2>2, IdleType
  <2>4. Lets(s, Pending(s) \ kept, kept)
    <3>1. (Pending(s) \ kept) \cup kept = Pending(s) /\ (Pending(s) \ kept) \cap kept = {}
        OBVIOUS
    <3> QED
        BY <2>1, <2>3, <3>1 DEF Lets
  <2>5. Pending(s) \ kept \in SUBSET Reminders /\ kept \in SUBSET Reminders
      BY <1>1
  <2> QED
      BY <2>3, <2>4, <2>5 DEF ClaimStep
<1> QED
    BY <1>5, <1>6, <1>7, <1>8, <1>9, <1>10 DEF SweepStep

LEMMA ClaimsNext == AuditRemindersTypeOK /\ Claims /\ ClaimStep => Claims'
<1> SUFFICES ASSUME AuditRemindersTypeOK, Claims, ClaimStep PROVE Claims'
    OBVIOUS
<1> USE AuditRemindersAssumption
<1>1. /\ holder \in [ Reminders -> Servers \cup { NoServer } ] /\ told \in [ Reminders -> Nat ]
      /\ lost \subseteq Reminders
    BY DEF AuditRemindersTypeOK
<1>2. CASE Quiet
  <2>1. holder' = holder /\ told' = told /\ lost' = lost
      BY <1>2 DEF Quiet
  <2>2. \A q \in Servers : Pending(q)' = Pending(q)
      BY <1>2 DEF Quiet, SameHands
  <2>3. \A q \in Servers : Grip(q)'
      BY <2>1, <2>2 DEF Claims, Grip
  <2>4. \A k \in Reminders : Row(k)'
      BY <2>1, <2>2 DEF Claims, Row
  <2> QED
      BY <2>3, <2>4 DEF Claims
<1>3. ASSUME NEW s \in Servers, NEW k \in Reminders, Takes(s, k) PROVE Claims'
  <2>1. \A q \in Servers : k \notin Pending(q) /\ told[k] = 0 /\ k \notin lost
      BY <1>1, <1>3 DEF Claims, Grip, Row, Takes
  <2>2. \A q \in Servers : Grip(q)'
      BY <1>1, <1>3, <2>1 DEF Claims, Grip, Takes, OtherHands
  <2>3. \A j \in Reminders : Row(j)'
      BY <1>1, <1>3, <2>1 DEF Claims, Row, Takes, OtherHands
  <2> QED
      BY <2>2, <2>3 DEF Claims
<1>4. ASSUME NEW s \in Servers, NEW k \in Reminders, Misses(s, k) PROVE Claims'
  <2>1. \A q \in Servers : k \notin Pending(q) /\ told[k] = 0 /\ k \notin lost
      BY <1>1, <1>4 DEF Claims, Grip, Row, Misses
  <2>2. \A q \in Servers : Grip(q)'
      BY <1>1, <1>4, <2>1 DEF Claims, Grip, Misses, SameHands
  <2>3. \A j \in Reminders : Row(j)'
      BY <1>1, <1>4, <2>1 DEF Claims, Row, Misses, SameHands
  <2> QED
      BY <2>2, <2>3 DEF Claims
<1>5. ASSUME NEW s \in Servers, NEW sent \in SUBSET Reminders, Tells(s, sent) PROVE Claims'
  <2>1. \A k \in sent : holder[k] = s /\ told[k] = 0 /\ k \notin lost
      BY <1>5 DEF Claims, Grip, Tells
  <2>2. \A q \in Servers : Grip(q)'
      BY <1>1, <1>5, <2>1 DEF Claims, Grip, Tells, OtherHands
  <2>3. \A j \in Reminders : Row(j)'
      BY <1>1, <1>5, <2>1 DEF Claims, Row, Tells, OtherHands
  <2> QED
      BY <2>2, <2>3 DEF Claims
<1>6. ASSUME NEW s \in Servers, NEW back \in SUBSET Reminders, NEW dropped \in SUBSET Reminders,
             Lets(s, back, dropped)
      PROVE  Claims'
  <2>1. \A k \in back \cup dropped : holder[k] = s /\ told[k] = 0 /\ k \notin lost
      BY <1>6 DEF Claims, Grip, Lets
  <2>2. \A q \in Servers : Grip(q)'
      BY <1>1, <1>6, <2>1 DEF Claims, Grip, Lets, OtherHands, Released
  <2>3. \A j \in Reminders : Row(j)'
      BY <1>1, <1>6, <2>1 DEF Claims, Row, Lets, OtherHands, Released
  <2> QED
      BY <2>2, <2>3 DEF Claims
<1> QED
    BY <1>2, <1>3, <1>4, <1>5, <1>6 DEF ClaimStep

LEMMA ClaimsInit == SweepInit => Claims
<1> SUFFICES ASSUME SweepInit PROVE Claims
    OBVIOUS
<1>1. \A s \in Servers : Pending(s) = {}
    BY IdleType DEF SweepInit, Pending
<1>2. \A k \in Reminders : holder[k] = NoServer /\ told[k] = 0 /\ k \notin lost
    BY DEF SweepInit
<1> QED
    BY <1>1, <1>2 DEF Claims, Grip, Row

LEMMA TypeNext ==
    AuditRemindersTypeOK /\ ShapesOK /\ Claims /\ [SweepNext]_sweepVars
        => AuditRemindersTypeOK' /\ ShapesOK' /\ ClaimStep
<1> SUFFICES ASSUME AuditRemindersTypeOK, ShapesOK, Claims, [SweepNext]_sweepVars
             PROVE  AuditRemindersTypeOK' /\ ShapesOK' /\ ClaimStep
    OBVIOUS
<1>1. UNCHANGED <<holder, sweeps, told, lost>> => ClaimStep
    BY DEF ClaimStep, Quiet, SameHands, Pending
<1>2. CASE UNCHANGED sweepVars
    BY <1>1, <1>2 DEF sweepVars, AuditRemindersTypeOK, ShapesOK, Audits
<1>3. CASE NextDay
    BY <1>1, <1>3 DEF NextDay, AuditRemindersTypeOK, ShapesOK, Audits
<1>4. ASSUME NEW c \in Controls, NEW row \in Shapes, ControlChanges(c, row)
      PROVE  AuditRemindersTypeOK' /\ ShapesOK' /\ ClaimStep
  <2>1. control' \in [ Controls -> Shapes ] /\ control' \in [ Controls -> Control ]
      BY <1>4, ShapesAssumption DEF ControlChanges, ShapesOK
  <2>2. edits' \in 0..MaxEdits
      BY <1>4, AuditRemindersAssumption DEF ControlChanges, Edit, AuditRemindersTypeOK
  <2> QED
      BY <1>1, <1>4, <2>1, <2>2 DEF ControlChanges, AuditRemindersTypeOK, ShapesOK, Audits
<1>5. ASSUME NEW a \in Audits, AuditCloses(a)
      PROVE  AuditRemindersTypeOK' /\ ShapesOK' /\ ClaimStep
  <2>1. edits' \in 0..MaxEdits
      BY <1>5, AuditRemindersAssumption DEF AuditCloses, Edit, AuditRemindersTypeOK
  <2> QED
      BY <1>1, <1>5, <2>1 DEF AuditCloses, AuditRemindersTypeOK, ShapesOK, Audits
<1>6. ASSUME NEW s \in Servers, SweepStep(s)
      PROVE  AuditRemindersTypeOK' /\ ShapesOK' /\ ClaimStep
    BY <1>6, SweepClaims, TypedIsType
<1> QED
    BY <1>2, <1>3, <1>4, <1>5, <1>6 DEF SweepNext

-----------------------------------------------------------------------------
(* The ledger. *)

LEMMA LedgerInit == SweepInit => Ledger!Init
<1> SUFFICES ASSUME SweepInit PROVE Ledger!Init
    OBVIOUS
<1>1. \A s \in Servers : Pending(s) = {}
    BY IdleType DEF SweepInit, Pending
<1>2. ASSUME NEW k \in Reminders PROVE Entry(k) = "free"
  <2>1. told[k] = 0 /\ k \notin lost
      BY DEF SweepInit
  <2> QED
      BY <1>1, <2>1 DEF Entry, Held
<1> QED
    BY <1>2 DEF Ledger!Init

LEMMA LedgerNext == AuditRemindersTypeOK /\ Claims /\ ClaimStep => Ledger!Next
<1> SUFFICES ASSUME AuditRemindersTypeOK, Claims, ClaimStep PROVE Ledger!Next
    OBVIOUS
<1> USE AuditRemindersAssumption
<1>1. /\ holder \in [ Reminders -> Servers \cup { NoServer } ] /\ told \in [ Reminders -> Nat ]
      /\ lost \subseteq Reminders
    BY DEF AuditRemindersTypeOK
<1>2. \A k \in Reminders : Entry(k)' \in Ledger!Entries
    BY DEF Entry, Ledger!Entries
<1>3. ASSUME NEW k \in Reminders, Entry(k)' # Entry(k)
      PROVE  <<Entry(k), Entry(k)'>> \in Ledger!Legal
  <2>1. Row(k) /\ \A q \in Servers : k \in Pending(q) => holder[k] = q /\ told[k] = 0 /\ k \notin lost
      BY DEF Claims, Grip
  <2>2. CASE Quiet
      BY <1>3, <2>2 DEF Quiet, SameHands, Entry, Held
  <2>3. ASSUME NEW s \in Servers, NEW j \in Reminders, Takes(s, j)
        PROVE  <<Entry(k), Entry(k)'>> \in Ledger!Legal
    <3>1. k = j
        BY <1>1, <1>3, <2>3 DEF Takes, OtherHands, Entry, Held
    <3>2. Entry(k) = "free" /\ Entry(k)' = "held"
        BY <1>1, <2>1, <2>3, <3>1 DEF Takes, Row, Entry, Held
    <3> QED
        BY <3>2 DEF Ledger!Legal
  <2>4. ASSUME NEW s \in Servers, NEW j \in Reminders, Misses(s, j)
        PROVE  <<Entry(k), Entry(k)'>> \in Ledger!Legal
    <3>1. k = j
        BY <1>1, <1>3, <2>4 DEF Misses, SameHands, Entry, Held
    <3>2. Entry(k) = "free" /\ Entry(k)' = "lost"
        BY <1>1, <2>1, <2>4, <3>1 DEF Misses, Row, Entry, Held
    <3> QED
        BY <3>2 DEF Ledger!Legal
  <2>5. ASSUME NEW s \in Servers, NEW sent \in SUBSET Reminders, Tells(s, sent)
        PROVE  <<Entry(k), Entry(k)'>> \in Ledger!Legal
    <3>1. k \in sent
        BY <1>1, <1>3, <2>5 DEF Tells, OtherHands, Entry, Held
    <3>2. Entry(k) = "held"
        BY <2>1, <2>5, <3>1 DEF Tells, Entry, Held
    <3>3. Entry(k)' = "told"
      <4>1. ~Held(k)' /\ k \notin lost'
          BY <2>1, <2>5, <3>1 DEF Tells, OtherHands, Held
      <4>2. told'[k] > 0
          BY <1>1, <2>5, <3>1 DEF Tells
      <4> QED
          BY <4>1, <4>2 DEF Entry
    <3> QED
        BY <3>2, <3>3 DEF Ledger!Legal
  <2>6. ASSUME NEW s \in Servers, NEW back \in SUBSET Reminders, NEW dropped \in SUBSET Reminders,
               Lets(s, back, dropped)
        PROVE  <<Entry(k), Entry(k)'>> \in Ledger!Legal
    <3>1. k \in back \cup dropped
        BY <1>1, <1>3, <2>6 DEF Lets, OtherHands, Entry, Held
    <3>2. Entry(k) = "held" /\ told[k] = 0
        BY <2>1, <2>6, <3>1 DEF Lets, Entry, Held
    <3>3. Entry(k)' \in { "free", "lost" }
      <4>1. ~Held(k)' /\ told'[k] = 0
          BY <2>1, <2>6, <3>1, <3>2 DEF Lets, OtherHands, Held
      <4> QED
          BY <4>1 DEF Entry
    <3> QED
        BY <3>2, <3>3 DEF Ledger!Legal
  <2> QED
      BY <2>2, <2>3, <2>4, <2>5, <2>6 DEF ClaimStep
<1> QED
    BY <1>2, <1>3 DEF Ledger!Next

-----------------------------------------------------------------------------
(* The theorems. *)

\* The types, and what a row of the table and a sweep's pending claims mean together.
THEOREM SweepInductive == SweepSpec => []SweepInv
<1>1. SweepInit => SweepInv
    BY TypeInit, ClaimsInit DEF SweepInv
<1>2. SweepInv /\ [SweepNext]_sweepVars => SweepInv'
    BY TypeNext, ClaimsNext DEF SweepInv
<1> QED
    BY <1>1, <1>2, PTL DEF SweepSpec

\* Nobody is told the same in two digests, and a claim is told, lost to a fault or
\* pending in the sweep that made it, which a failed digest or a panic gives back
\* (runOnce and its deferred release, audit/job/reminder_job.go).
THEOREM ClaimsStayAccountedFor == SweepSpec => []ClaimsAreAccountedFor
<1>1. SweepInv => ClaimsAreAccountedFor
    BY DEF SweepInv, Claims, Row, ClaimsAreAccountedFor
<1> QED
    BY <1>1, SweepInductive, PTL

\* The sweeps of any number of servers, batched into digests, implement the ledger.
THEOREM SweepImplementsLedger == SweepSpec => ImplementsLedger
<1>1. SweepInit => Ledger!Init
    BY LedgerInit
<1>2. SweepInv /\ [SweepNext]_sweepVars => Ledger!Next
    BY TypeNext, LedgerNext DEF SweepInv
<1> QED
    BY <1>1, <1>2, SweepInductive, PTL DEF SweepSpec, ImplementsLedger, Ledger!Spec

=============================================================================
