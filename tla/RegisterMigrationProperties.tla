--------------------- MODULE RegisterMigrationProperties ---------------------
(* What the import of the register promises. *)
EXTENDS RegisterMigration

\* Every variable holds values of its type, a risk's number has been taken
\* from its counter, the tool works on a risk of the row it works on, and the
\* number a transaction holds is its counter's next.
MigrationTypeOK ==
    /\ \A i \in DOMAIN risks :
         risks[i] \in Risk /\ risks[i].number <= sequence[risks[i].register]
    /\ grants \subseteq Grants
    /\ sequence \in [ Registers -> Nat ]
    /\ \A c \in Connections :
         creates[c].stage = "numbered" =>
            creates[c].number = sequence[creates[c].register] + 1
    /\ late \subseteq [ what : { "assessment", "escalation" }, risk : DOMAIN risks ]
    /\ run.pc \in { "off", "count", "select", "fetch", "write", "verify" }
    /\ run.found \in [ Rows -> SUBSET Match ] /\ run.cutoff \subseteq Rows
    /\ run.todo \subseteq Rows
    /\ run.resume \in [ Rows -> Resume ]
    /\ Work.risk # 0 => risks[Work.risk].of = Work.row
    /\ clean \subseteq SUBSET Rows /\ delayed \subseteq Rows /\ crossed \subseteq Rows
    /\ faults \in 0..MaxFaults

\* A search may have missed the row's risk: one that shares its second with another of a
\* list of several pages, or one that another had pushed behind the total.
MayBeMissed(r) ==
    \/ r \in crossed
    \/ \E i \in RisksOf(r) : MayBeOverlooked(DOMAIN risks, CreatedAt, SearchLimit, i)

Certain(r) == r \notin delayed /\ ~MayBeMissed(r)

\* The above, and: however often the import is interrupted and run again, a row
\* has one risk, with one assessment and one OPEN escalation: unless a request
\* was carried out after the tool had stopped waiting for it, or a search may have
\* missed the risk.  (main.go, "RESUME": the only ledger is what the entity holds.)
WrittenOnce ==
    /\ MigrationTypeOK
    /\ \A r \in Rows :
        Certain(r) =>
            /\ Cardinality(RisksOf(r)) <= 1
            /\ \A i \in RisksOf(r) : risks[i].assessments <= 1 /\ risks[i].marked <= 1

\* All of a row is in the entity, for a run of that date; only a risk that fell due after
\* it may have been escalated by the sweep.
Migrated(r, cutoff) ==
    /\ Cardinality(RisksOf(r)) = 1
    /\ \A i \in RisksOf(r) :
         /\ \/ risks[i].status = (IF r \in Closed THEN "CLOSED" ELSE "IN_REMEDIATION")
            \/ risks[i].status = "ESCALATED" /\ r \in LaterDue \ (cutoff \cup Closed)
         /\ r \in Differs => risks[i].assessments > 0
         /\ r \in cutoff \ Closed => risks[i].marked > 0
         /\ r \in Closed => risks[i].planDone
    /\ r \notin Closed => GrantsOf(r) \subseteq grants

\* Once a run has ended with nothing to report, every row is in the entity with all its
\* parts, and stays so through later runs and sweeps: a risk that was overdue on the run's
\* date is never escalated.  (README of the tool, "Verification", and D8 in state.go.)
CleanMeansMigrated ==
    \A cutoff \in clean, r \in Rows : Certain(r) => Migrated(r, cutoff)

\* After such a run, another one with the same date changes nothing.  (README of the tool:
\* "re-run the exact same real-run command ... Every row must come back Skipped, and
\* none of the counts above may change".)
RerunChangesNothing ==
    [][run.cutoff \in clean /\ (\A r \in Rows : Certain(r)) /\ run' # run =>
          UNCHANGED <<risks, grants, creates>>]_vars

\* The codes of the risks: numbers of a register in the order of the commits,
\* none twice and none left out, whoever creates risks and whichever
\* transactions are rolled back.  (riskRepo.CreateRisk: "concurrent creates
\* cannot take the same number".)
Numbers == INSTANCE RiskNumbers WITH
    issued <- [ i \in DOMAIN risks |->
                  [ register |-> risks[i].register, number |-> risks[i].number ] ]

ImplementsNumbers == Numbers!Spec

\* If the import is run again and again and calls stop failing, every row comes to be in the
\* entity for good: except for a row one of whose requests was left behind, one whose risk a
\* search may miss, and one whose risk stays ESCALATED because nobody comments on it.
EventuallyMigrated ==
    \A r \in Rows :
        \/ []<>(~Certain(r) \/ \E i \in RisksOf(r) : risks[i].status = "ESCALATED")
        \/ <>[]Migrated(r, Overdue)

=============================================================================
