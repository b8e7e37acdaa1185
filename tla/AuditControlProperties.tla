----------------------- MODULE AuditControlProperties -----------------------
(* The properties of AuditControl. *)
EXTENDS AuditControl, FiniteSets

\* A DESIGN control never has a population round, so that nothing of the population
\* phase can be submitted, reviewed or sampled for it: whatever change of type,
\* resubmission and override are under way (ChangeRequirementType, audit_control_repo.go;
\* createReplacementRound, audit_population_repo.go).
DesignHasNoPopulation ==
    ControlExists /\ type = "DESIGN" => Rows("population") = {}

\* What a step does to the status of a round is the insert, the delete, a step of the
\* review workflow, or the end of an override: no decision skips a stage or lands on a
\* round somebody else has decided meanwhile (UpdatePopulation and UpdateEvidence,
\* isValid...Transition).  An override takes a round below the status it has read it
\* in, and only the latest it has read; between its read and its commit a decision may
\* have come, which the demotion, checking no status, writes over (demote...Round).
LegalRoundStep(kind, from, to) ==
    \/ from = to
    \/ from = "NONE" /\ to = IF kind = "population" THEN "PENDING" ELSE "SUBMITTED"
    \/ from # "GONE" /\ to = "GONE"
    \/ from \in RoundStatuses /\ to \in RoundStatuses /\ ValidRoundTransition(kind, from, to)

\* The override under way commits, and demotes the round.
DemotedFrom(kind, i) ==
    /\ \E q \in Requests : At(q, "demote") /\ status = req[q].seen /\ status' = req[q].cto
    /\ i \in Rows(kind)
    /\ LatestRead(kind, i)
    /\ rounds'[kind][i] \in RoundStatuses
    /\ RoundStatusRank[rounds'[kind][i]] < RoundStatusRank[view[kind][i]]

RoundsMoveLegally ==
    [][ \A kind \in Kinds, i \in RoundIds :
            \/ LegalRoundStep(kind, rounds[kind][i], rounds'[kind][i])
            \/ DemotedFrom(kind, i) ]_vars

\* A round that a newer one has superseded is history: as long as the control exists,
\* it is neither deleted nor stripped of its files, whenever the request that would do
\* so looked which round is the latest (DeleteEvidence, DeleteEvidenceFile,
\* DeletePopulationFile).
HistoryIsKept ==
    [][ ControlExists' /\ ControlExists => \A kind \in Kinds : \A i \in Rows(kind) :
            \/ IsLatest(kind, i)
            \/ i \in Rows(kind)' /\ content[kind][i] \subseteq content'[kind][i] ]_vars

\* A control whose type changes keeps no evidence or population of the team's from
\* before and loses none: nothing has been submitted or recorded for it.
TypeChangeLosesNoWork ==
    [][ ControlExists /\ type' # type =>
            /\ Rows("evidence") = {}
            /\ \A i \in Rows("population") :
                  rounds["population"][i] = "PENDING" /\ content["population"][i] = {} ]_vars

\* The cascade of an override strands no control by itself: back where the team submits
\* a population the latest round is one it can submit, and back before the review of the
\* evidence no round that is still under review or approved stays the latest
\* (overridePopulationTarget, overrideEvidenceTarget).  Excepted is the round another
\* request has put there between the read and the commit: one that has become the
\* latest, or that was read low enough and has been submitted or decided on since.
MovedSinceRead(kind, i) ==
    \/ ~ LatestRead(kind, i)
    \/ rounds[kind][i] # view[kind][i] /\ rounds'[kind][i] = rounds[kind][i]

OverrideStrandsNothing ==
    [][ (\E q \in Requests : At(q, "demote") /\ At(q, "done")') /\ status' # status =>
            /\ status' \in { "POPULATION_PENDING", "POPULATION_NEED_CLARIFICATION" }
                  => \A i \in RoundIds : IsLatest("population", i)'
                        => ActivePopulation(i)' \/ MovedSinceRead("population", i)
            /\ ControlStatusRank[status'] <= ControlStatusRank["EVIDENCE_PENDING"]
                  => \A i \in RoundIds : IsLatest("evidence", i)'
                        => \/ rounds'["evidence"][i] \in Rejected
                           \/ MovedSinceRead("evidence", i) ]_vars

\* The requests, call by call, do to the control and its audit what AuditLifecycle does
\* in single steps: the workflow order is never skipped, and the status of the audit is
\* recomputed by whatever changes a control.
Lifecycle == INSTANCE AuditLifecycle
ImplementsLifecycle == Lifecycle!LifecycleSpec

=============================================================================
