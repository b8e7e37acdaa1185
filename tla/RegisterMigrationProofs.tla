---------------------- MODULE RegisterMigrationProofs ----------------------
(***************************************************************************)
(* Proofs, for any rows, registers, grants, connections, page length and     *)
(* bounds, that the numbers of the risks implement RiskNumbers, that no row   *)
(* whose risk the searches are certain to find is imported twice, that a run *)
(* with nothing to report means a complete import, and that another one of   *)
(* the same date changes nothing.                                            *)
(***************************************************************************)
EXTENDS RegisterMigrationProperties, FiniteSetTheorems, SequenceTheorems, TLAPS

Creation ==
    [ of : Rows \cup { ByHand }, register : Registers \cup { "none" },
      stage : { "idle", "checked", "numbered" }, number : Nat, second : Nat ]

Job == [ row : Rows \cup { 0 }, risk : Nat, current : RiskStatuses,
         on : Connections \cup { "none" }, assess : BOOLEAN, escalate : BOOLEAN,
         grant : SUBSET Grants, plan : BOOLEAN ]

RunStates ==
    [ pc : { "off", "count", "select", "fetch", "write", "verify" }, cutoff : SUBSET Rows,
      then : { "off", "fetch", "verify" }, offset : Nat, total : Nat,
      found : [ Rows -> SUBSET Match ],
      todo : SUBSET Rows, resume : [ Rows -> Resume ], work : Job, findings : BOOLEAN ]

\* i is the risk of a row.
IsRiskOf(i, r) == i \in DOMAIN risks /\ risks[i].of = r

Types ==
    /\ risks \in Seq(Risk) /\ grants \subseteq Grants
    /\ sequence \in [ Registers -> Nat ]
    /\ creates \in [ Connections -> Creation ]
    /\ late \subseteq [ what : { "assessment", "escalation" }, risk : DOMAIN risks ]
    /\ run \in RunStates
    /\ clean \subseteq SUBSET Rows /\ delayed \subseteq Rows /\ crossed \subseteq Rows
    /\ faults \in 0..MaxFaults

\* The tool's idea of whose risk is whose; and a row in hand is one that is to do.
Pointers ==
    /\ \A r \in Rows : IsFiniteSet(run.found[r]) /\ \A m \in run.found[r] : IsRiskOf(m.id, r)
    /\ \A r \in Rows : \A i : run.resume[r].risk = i /\ i # 0 => IsRiskOf(i, r)
    /\ \A i, r : Work.risk = i /\ i # 0 /\ Work.row = r => IsRiskOf(i, r)
    /\ \A c \in Connections : Work.on = c =>
          creates[c] # NoCreate /\ creates[c].of = Work.row /\ Work.risk = 0
    /\ Work # NoWork => run.pc = "write" /\ Work.row \in run.todo
    /\ run.todo # {} => First \in run.todo
    /\ run.pc \in { "fetch", "verify" } => run.todo # {}
    /\ run.pc \in { "count", "select" } => run.then \in { "fetch", "verify" }
    /\ run.pc \notin { "count", "select" } => run.offset = 0
    /\ run.pc # "off" => Overdue \subseteq run.cutoff
    /\ \A cutoff \in clean : Overdue \subseteq cutoff

-----------------------------------------------------------------------------
(* What is read and written. *)

\* The row with the smallest Migration ID: the one with the fewest before it.
LEMMA FirstIs ==
    ASSUME NEW S \in SUBSET Rows, S # {}
    PROVE  Min(S) \in S
<1> DEFINE Below(x) == { q \in S : q < x }
           Belows   == { Below(x) : x \in S }
<1>1. S \subseteq Nat /\ IsFiniteSet(S)
    BY MigrationAssumption, FS_Subset
<1>2. Belows \subseteq FiniteSubsetsOf(S) /\ Belows # {}
  <2>1. ASSUME NEW x \in S PROVE Below(x) \in FiniteSubsetsOf(S)
      BY <1>1, FS_Subset DEF FiniteSubsetsOf
  <2> QED
      BY <2>1
<1>3. PICK B \in Belows : \A C \in Belows : <<C, B>> \notin StrictSubsetOrdering(S)
  <2> HIDE DEF Belows
  <2> QED
      BY <1>1, <1>2, FS_StrictSubsetOrderingWellFounded, WFMin
<1>4. PICK m \in S : B = Below(m)
    OBVIOUS
<1>5. ASSUME NEW q \in S, q < m PROVE FALSE
  <2>1. \A x : (x \in B <=> x \in S /\ x < m) /\ (x \in Below(q) <=> x \in S /\ x < q)
      BY <1>4
  <2>2. q \in B /\ q \notin Below(q) /\ B \subseteq S
      BY <1>1, <1>5, <2>1
  <2>3. ASSUME NEW x \in Below(q) PROVE x \in B
      BY <1>1, <1>5, <2>1
  <2>4. <<Below(q), B>> \in StrictSubsetOrdering(S)
      BY <2>2, <2>3 DEF StrictSubsetOrdering
  <2> QED
      BY <1>3, <2>4
<1>6. \A q \in S : m <= q
    BY <1>1, <1>5
<1> QED
    BY <1>6 DEF Min

LEMMA StatusFacts ==
    /\ Born \in RiskStatuses /\ \A r : Target(r) \in RiskStatuses
    /\ \A s \in RiskStatuses : \A t : IsValidRiskTransition(s, t) => t \in RiskStatuses
BY DEF Born, Target, RiskStatuses, IsValidRiskTransition, AllowedRiskTransitions, RemediationEdges

LEMMA OffIs ==
    /\ Off \in RunStates /\ Off.pc = "off" /\ Off.todo = {} /\ Off.work = NoWork
    /\ Off.offset = 0 /\ Off.cutoff = {}
    /\ \A r \in Rows : Off.found[r] = {} /\ Off.resume[r] = Unread
    /\ Unread \in Resume /\ Unread.risk = 0 /\ Unread.stage = "unread"
    /\ NoWork \in Job /\ NoWork.row = 0 /\ NoWork.risk = 0 /\ NoWork.on = "none"
BY StatusFacts DEF Off, RunStates, NoWork, Job, Unread, Resume, Match

LEMMA NoCreateIs == NoCreate \in Creation /\ NoCreate.stage = "idle" /\ NoCreate.of = ByHand
BY DEF NoCreate, Creation, ByHand

\* What no call changes of the run.
Kept == /\ run'.pc = run.pc /\ run'.cutoff = run.cutoff /\ run'.then = run.then
        /\ run'.offset = run.offset /\ run'.total = run.total
        /\ run'.found = run.found /\ run'.resume = run.resume

LEMMA AnsweredIs ==
    ASSUME Types, NEW w \in Job, Answered(w)
    PROVE  \/ run' = Off
           \/ /\ run' \in RunStates /\ run'.work = w /\ Kept
              /\ run'.todo = run.todo /\ run'.findings = run.findings
BY DEF Types, RunStates, Answered, Dies, Kept

LEMMA RejectIs ==
    ASSUME Types, RejectRow
    PROVE  /\ run' \in RunStates /\ run'.work = NoWork /\ run'.todo = run.todo \ { Work.row }
           /\ Kept /\ run'.findings = TRUE
<1> DEFINE todo == run.todo \ { Work.row }
<1>1. todo \in SUBSET Rows /\ run \in RunStates /\ run' = [ run EXCEPT !.todo = todo, !.work = NoWork, !.findings = TRUE ]
    BY DEF Types, RejectRow, RunStates
<1> HIDE DEF todo
<1>2. run' \in RunStates /\ run'.work = NoWork /\ run'.todo = todo /\ Kept /\ run'.findings = TRUE
    BY <1>1, OffIs DEF RunStates, Kept
<1> QED
    BY <1>2 DEF todo

\* One risk is written, its row and its number excepted.
Writes(i, u) ==
    /\ i \in DOMAIN risks /\ u \in Risk
    /\ u.of = risks[i].of /\ u.register = risks[i].register /\ u.number = risks[i].number
    /\ u.second = risks[i].second
    /\ risks' = [ risks EXCEPT ![i] = u ]

SameKeys ==
    /\ DOMAIN risks' = DOMAIN risks /\ Len(risks') = Len(risks)
    /\ \A j \in DOMAIN risks :
          /\ risks'[j].of = risks[j].of /\ risks'[j].register = risks[j].register
          /\ risks'[j].number = risks[j].number /\ risks'[j].second = risks[j].second

LEMMA WritesIs ==
    ASSUME risks \in Seq(Risk), NEW i, NEW u, Writes(i, u)
    PROVE  /\ risks' \in Seq(Risk) /\ SameKeys
           /\ risks'[i] = u /\ \A j \in DOMAIN risks : j # i => risks'[j] = risks[j]
<1>1. i \in 1..Len(risks) /\ DOMAIN risks = 1..Len(risks) /\ u \in Risk
    BY LenProperties DEF Writes
<1>2. risks' \in Seq(Risk) /\ Len(risks') = Len(risks)
    BY <1>1, ExceptSeq DEF Writes
<1>3. DOMAIN risks' = DOMAIN risks
    BY DEF Writes
<1>4. risks'[i] = u /\ \A j \in DOMAIN risks : j # i => risks'[j] = risks[j]
    BY <1>1 DEF Writes
<1> QED
    BY <1>2, <1>3, <1>4 DEF SameKeys, Writes

\* The fields of a risk that are written after its creation.
LEMMA RiskFields ==
    ASSUME NEW x \in Risk
    PROVE  /\ x.marked \in Nat /\ x.assessments \in Nat /\ x.status \in RiskStatuses
           /\ x.of \in Rows \cup { ByHand } /\ x.register \in Registers /\ x.number \in Nat \ { 0 }
           /\ x.second \in Nat /\ x.planDone \in BOOLEAN
           /\ \A n \in Nat : [ x EXCEPT !.marked = n ] \in Risk /\ [ x EXCEPT !.assessments = n ] \in Risk
           /\ \A s \in RiskStatuses, b \in BOOLEAN :
                 /\ [ x EXCEPT !.status = s ] \in Risk /\ [ x EXCEPT !.planDone = b ] \in Risk
                 /\ [ x EXCEPT !.status = s, !.swept = b ] \in Risk
BY DEF Risk

LEMMA InsertedIs ==
    ASSUME risks \in Seq(Risk), NEW t \in Creation, t.register \in Registers, t.number # 0, Inserted(t)
    PROVE  /\ risks' \in Seq(Risk) /\ Len(risks') = Len(risks) + 1 /\ Len(risks) \in Nat
           /\ DOMAIN risks = 1..Len(risks) /\ DOMAIN risks' = 1..(Len(risks) + 1)
           /\ \A j \in DOMAIN risks : risks'[j] = risks[j]
           /\ LET x == risks'[Len(risks) + 1]
              IN  /\ x.of = t.of /\ x.register = t.register /\ x.number = t.number
                  /\ x.second = t.second /\ x.marked = 0 /\ x.assessments = 0
<1> DEFINE x == [ of |-> t.of, register |-> t.register, number |-> t.number,
                  second |-> t.second, status |-> Born, marked |-> 0, swept |-> FALSE,
                  assessments |-> 0, planDone |-> FALSE ]
<1>1. x \in Risk
    BY StatusFacts DEF Risk, Creation
<1>2. risks' = Append(risks, x)
    BY DEF Inserted
<1>3. x.of = t.of /\ x.register = t.register /\ x.number = t.number /\ x.second = t.second
      /\ x.marked = 0 /\ x.assessments = 0
    OBVIOUS
<1> HIDE DEF x
<1>4. /\ risks' \in Seq(Risk) /\ Len(risks') = Len(risks) + 1
      /\ \A j \in 1..Len(risks) : risks'[j] = risks[j]
      /\ risks'[Len(risks) + 1] = x
    BY <1>1, <1>2, AppendProperties
<1>5. DOMAIN risks = 1..Len(risks) /\ DOMAIN risks' = 1..(Len(risks) + 1) /\ Len(risks) \in Nat
    BY <1>4, LenProperties
<1> QED
    BY <1>3, <1>4, <1>5

-----------------------------------------------------------------------------
(* What the tool reads. *)

LEMMA RisksAre ==
    ASSUME risks \in Seq(Risk)
    PROVE  /\ IsFiniteSet(DOMAIN risks) /\ DOMAIN risks \subseteq Nat \ { 0 }
           /\ \A i \in DOMAIN risks : risks[i] \in Risk
<1>1. DOMAIN risks = 1..Len(risks) /\ Len(risks) \in Nat /\ risks \in [ 1..Len(risks) -> Risk ]
    BY LenProperties
<1>2. IsFiniteSet(1..Len(risks))
    BY <1>1, FS_Interval
<1> HIDE DEF Risk
<1> QED
    BY <1>1, <1>2

-----------------------------------------------------------------------------
(* Lists and their pages. *)

\* How many of a list are newer: those are before it on every page.
Newer(found, second, i) == Cardinality({ q \in found : second[q] > second[i] })

Seconded(found, second) == IsFiniteSet(found) /\ \A q \in found : second[q] \in Nat

LEMMA NewerType ==
    ASSUME NEW found, NEW second, Seconded(found, second), NEW i \in found
    PROVE  /\ Cardinality(found) \in Nat /\ IsFiniteSet({ q \in found : second[q] > second[i] })
           /\ Newer(found, second, i) \in Nat /\ Newer(found, second, i) < Cardinality(found)
<1> DEFINE above == { q \in found : second[q] > second[i] }
<1>1. IsFiniteSet(found) /\ second[i] \in Nat
    BY DEF Seconded
<1>2. IsFiniteSet(above) /\ Cardinality(above) <= Cardinality(found)
      /\ (Cardinality(found) = Cardinality(above) => found = above)
    BY <1>1, FS_Subset
<1>3. Cardinality(above) \in Nat /\ Cardinality(found) \in Nat
    BY <1>1, <1>2, FS_CardinalityType
<1>4. i \notin above
    BY <1>1
<1>5. above # found
    BY <1>4
<1> HIDE DEF above
<1>6. Cardinality(above) < Cardinality(found)
    BY <1>2, <1>3, <1>5
<1> QED
    BY <1>2, <1>3, <1>6 DEF Newer, above

\* A longer list puts nobody nearer to its beginning, and those of one second stay so.
LEMMA ListGrows ==
    ASSUME NEW found, NEW second, Seconded(found, second),
           NEW more, NEW seconds, Seconded(more, seconds),
           found \subseteq more, \A q \in found : seconds[q] = second[q], NEW i \in found
    PROVE  /\ Newer(found, second, i) <= Newer(more, seconds, i)
           /\ MayBeOverlooked(found, second, SearchLimit, i)
                 => MayBeOverlooked(more, seconds, SearchLimit, i)
<1> DEFINE above == { q \in found : second[q] > second[i] }
           aboves == { q \in more : seconds[q] > seconds[i] }
<1>1. above \subseteq aboves
    OBVIOUS
<1>2. IsFiniteSet(aboves) /\ i \in more
    BY NewerType
<1>3. Cardinality(above) <= Cardinality(aboves)
    BY <1>1, <1>2, FS_Subset
<1>4. Newer(found, second, i) <= Newer(more, seconds, i)
    BY <1>3 DEF Newer
<1>5. /\ Cardinality(found) \in Nat /\ Cardinality(more) \in Nat /\ SearchLimit \in Nat
      /\ Cardinality(found) <= Cardinality(more)
    BY NewerType, FS_Subset, MigrationAssumption DEF Seconded
<1>6. MayBeOverlooked(found, second, SearchLimit, i) => MayBeOverlooked(more, seconds, SearchLimit, i)
  <2>1. \A q \in found \ { i } : second[q] = second[i] => q \in more \ { i } /\ seconds[q] = seconds[i]
      OBVIOUS
  <2> QED
      BY <1>5, <2>1 DEF MayBeOverlooked
<1> QED
    BY <1>4, <1>6

LEMMA PageType ==
    ASSUME NEW found, NEW second, Seconded(found, second), NEW offset \in Nat,
           NEW page \in PagesOf(found, second, offset, SearchLimit)
    PROVE  page \subseteq found /\ IsFiniteSet(page) /\ Cardinality(page) \in Nat
<1>1. page \subseteq found /\ IsFiniteSet(found)
    BY DEF PagesOf, Seconded
<1>2. IsFiniteSet(page)
    BY <1>1, FS_Subset
<1> QED
    BY <1>1, <1>2, FS_CardinalityType

\* Of a list, what is at the offset or later and not on the page is at the next offset or
\* later, and there is more to read; or it shares its second.
LEMMA LeftOut ==
    ASSUME NEW found, NEW second, Seconded(found, second), NEW offset \in Nat,
           NEW page \in PagesOf(found, second, offset, SearchLimit),
           NEW r \in found, r \notin page, Newer(found, second, r) >= offset
    PROVE  \/ /\ Newer(found, second, r) >= offset + Cardinality(page)
              /\ offset + Cardinality(page) < Cardinality(found)
           \/ MayBeOverlooked(found, second, SearchLimit, r)
<1>1. PICK before \in Beginnings(found, second, offset) :
          page \cap before = {} /\ page \cup before \in Beginnings(found, second, offset + SearchLimit)
    BY DEF PagesOf
<1> DEFINE both  == page \cup before
           above == { q \in found : second[q] > second[r] }
<1>2. /\ IsFiniteSet(found) /\ Cardinality(found) \in Nat /\ IsFiniteSet(above)
      /\ Newer(found, second, r) \in Nat /\ Newer(found, second, r) = Cardinality(above)
    BY NewerType DEF Newer, Seconded
<1>3. SearchLimit \in Nat /\ SearchLimit > 0 /\ \A q \in found : second[q] \in Nat
    BY MigrationAssumption DEF Seconded
<1>4. /\ before \subseteq found /\ both \subseteq found
      /\ Cardinality(before) = offset \/ (Cardinality(before) < offset /\ before = found)
      /\ Cardinality(both) = offset + SearchLimit
            \/ (Cardinality(both) < offset + SearchLimit /\ both = found)
      /\ r \in before => above \subseteq before
      /\ \A q \in both : second[r] > second[q] => r \in both
  <2>1. r \in before => \A q \in found : second[q] > second[r] => q \in before
      BY <1>1 DEF Beginnings
  <2>2. \A t \in both, q \in found : second[q] > second[t] => q \in both
    <3> HIDE DEF both
    <3>1. both \in Beginnings(found, second, offset + SearchLimit)
        BY <1>1 DEF both
    <3> QED
        BY <3>1 DEF Beginnings
  <2>3. before \subseteq found
        /\ (Cardinality(before) = offset \/ (Cardinality(before) < offset /\ before = found))
      BY <1>1 DEF Beginnings
  <2>4. both \subseteq found
        /\ (Cardinality(both) = offset + SearchLimit
              \/ (Cardinality(both) < offset + SearchLimit /\ both = found))
    <3> HIDE DEF both
    <3>1. both \in Beginnings(found, second, offset + SearchLimit)
        BY <1>1 DEF both
    <3> QED
        BY <3>1 DEF Beginnings
  <2>5. \A q \in both : second[r] > second[q] => r \in both
      BY <2>2
  <2> HIDE DEF both
  <2> QED
      BY <2>1, <2>3, <2>4, <2>5
<1>5. /\ IsFiniteSet(before) /\ IsFiniteSet(page) /\ IsFiniteSet(both)
      /\ Cardinality(before) \in Nat /\ Cardinality(page) \in Nat
      /\ Cardinality(both) = Cardinality(page) + Cardinality(before)
  <2>1. IsFiniteSet(before) /\ IsFiniteSet(page) /\ IsFiniteSet(both)
      BY <1>2, <1>4, FS_Subset
  <2>2. Cardinality(page \cap before) = 0
      BY <1>1, FS_EmptySet
  <2>3. Cardinality(both) = Cardinality(page) + Cardinality(before) - Cardinality(page \cap before)
      BY <2>1, FS_Union
  <2>4. Cardinality(before) \in Nat /\ Cardinality(page) \in Nat
      BY <2>1, FS_CardinalityType
  <2> QED
      BY <2>1, <2>2, <2>3, <2>4
<1>6. r \notin before
  <2> SUFFICES ASSUME r \in before PROVE FALSE
      OBVIOUS
  <2> DEFINE more == above \cup { r }
  <2>1. more \subseteq before
      BY <1>4
  <2>2. Cardinality(more) = Cardinality(above) + 1
    <3>1. r \notin above /\ Cardinality(above) \in Nat
        BY <1>2, <1>3
    <3> HIDE DEF above
    <3> QED
        BY <1>2, <3>1, FS_AddElement
  <2>3. Cardinality(more) <= Cardinality(before)
    <3> HIDE DEF more
    <3> QED
        BY <1>5, <2>1, FS_Subset
  <2> HIDE DEF more, above
  <2> QED
      BY <1>2, <1>4, <1>5, <2>2, <2>3
<1>7. r \notin both /\ both # found
    BY <1>6
<1>8. before # found
    BY <1>6
<1>9. Cardinality(both) = offset + SearchLimit /\ Cardinality(before) = offset
      /\ Cardinality(both) = offset + Cardinality(page)
    BY <1>4, <1>5, <1>7, <1>8
<1>10. Cardinality(both) < Cardinality(found)
  <2>1. /\ Cardinality(both) <= Cardinality(found)
        /\ (Cardinality(found) = Cardinality(both) => found = both)
      BY <1>2, <1>4, FS_Subset
  <2> HIDE DEF both
  <2> QED
      BY <1>2, <1>5, <1>7, <1>9, <2>1, <1>3
<1>11. CASE \E q \in found \ { r } : second[q] = second[r]
    BY <1>2, <1>3, <1>9, <1>10, <1>11 DEF MayBeOverlooked
<1>12. CASE ~ \E q \in found \ { r } : second[q] = second[r]
  <2>1. both \subseteq above
    <3>1. ASSUME NEW q \in both PROVE q \in above
      <4>1. q \in found /\ q # r /\ second[q] # second[r] /\ ~(second[r] > second[q])
          BY <1>4, <1>7, <1>12, <3>1
      <4>2. second[q] \in Nat /\ second[r] \in Nat
          BY <1>3, <4>1
      <4> QED
          BY <4>1, <4>2
    <3> QED
        BY <3>1
  <2>2. Cardinality(both) <= Cardinality(above)
    <3> HIDE DEF both, above
    <3> QED
        BY <1>2, <2>1, FS_Subset
  <2> QED
      BY <1>2, <1>9, <1>10, <2>2
<1> QED
    BY <1>11, <1>12

\* After an empty page nothing of the list is at the offset or later.
LEMMA NothingLater ==
    ASSUME NEW found, NEW second, Seconded(found, second), NEW offset \in Nat,
           {} \in PagesOf(found, second, offset, SearchLimit), NEW r \in found
    PROVE  ~(Newer(found, second, r) >= offset)
<1>1. PICK before \in Beginnings(found, second, offset) :
          before \in Beginnings(found, second, offset + SearchLimit)
  <2>1. PICK before \in Beginnings(found, second, offset) :
            {} \cup before \in Beginnings(found, second, offset + SearchLimit)
      BY DEF PagesOf
  <2>2. {} \cup before = before
      OBVIOUS
  <2> QED
      BY <2>1, <2>2
<1>2. /\ Cardinality(before) = offset \/ (Cardinality(before) < offset /\ before = found)
      /\ Cardinality(before) = offset + SearchLimit
            \/ (Cardinality(before) < offset + SearchLimit /\ before = found)
    BY <1>1 DEF Beginnings
<1>3. SearchLimit \in Nat /\ SearchLimit > 0
    BY MigrationAssumption
<1>4. /\ Cardinality(found) \in Nat
      /\ Newer(found, second, r) \in Nat /\ Newer(found, second, r) < Cardinality(found)
    BY NewerType
<1>5. before = found /\ Cardinality(found) <= offset
    BY <1>2, <1>3, <1>4
<1> QED
    BY <1>4, <1>5

LEMMA MatchesIs ==
    ASSUME Types, Pointers, NEW r \in Rows, NEW page \in SUBSET (DOMAIN risks)
    PROVE  /\ MatchesOn(page, r) \in SUBSET Match /\ IsFiniteSet(MatchesOn(page, r))
           /\ \A m \in MatchesOn(page, r) : IsRiskOf(m.id, r) /\ m.status = risks[m.id].status
           /\ \A i \in page : IsRiskOf(i, r) => MatchesOn(page, r) # {}
<1> DEFINE S == page \cap RisksOf(r)
           Again(i) == \E x \in run.found[r] : x.id = i
           f == [ i \in S |-> [ id |-> i, status |-> risks[i].status, again |-> Again(i) ] ]
<1>1. \A i \in DOMAIN risks : risks[i].status \in RiskStatuses /\ i \in Nat
    BY RisksAre, RiskFields DEF Types
<1>2. MatchesOn(page, r) = { [ id |-> i, status |-> risks[i].status, again |-> Again(i) ] : i \in S }
    BY DEF MatchesOn
<1>3. S \subseteq DOMAIN risks /\ IsFiniteSet(S) /\ \A i : i \in S <=> i \in page /\ IsRiskOf(i, r)
    BY RisksAre, FS_Subset DEF Types, RisksOf, IsRiskOf
<1>4. \A i : Again(i) \in BOOLEAN
    OBVIOUS
<1> HIDE DEF S, Again
<1>5. f \in Surjection(S, MatchesOn(page, r))
    BY <1>2 DEF Surjection
<1>6. IsFiniteSet(MatchesOn(page, r))
    BY <1>3, <1>5, FS_Surjection
<1>7. MatchesOn(page, r) \in SUBSET Match
    BY <1>1, <1>2, <1>3, <1>4 DEF Match
<1>8. \A m \in MatchesOn(page, r) : IsRiskOf(m.id, r) /\ m.status = risks[m.id].status
    BY <1>2, <1>3
<1>9. \A i \in page : IsRiskOf(i, r) => MatchesOn(page, r) # {}
    BY <1>2, <1>3
<1> QED
    BY <1>6, <1>7, <1>8, <1>9

LEMMA StageType ==
    ASSUME NEW r, NEW i, NEW status
    PROVE  StageOf(r, i, status) \in { "Created", "StatusWalked", "Escalated", "Granted", "Complete" }
BY DEF StageOf

LEMMA ResumeIs ==
    ASSUME Types, Pointers, NEW r \in Rows
    PROVE  /\ ResumeState(r) \in Resume
           /\ ResumeState(r).stage # "unread"
           /\ ResumeState(r).risk # 0 => IsRiskOf(ResumeState(r).risk, r)
           /\ run.found[r] = {} => ResumeState(r).risk = 0 /\ ResumeState(r).stage = "None"
           /\ \/ run.found[r] = {} \/ \E m \in Match : run.found[r] = { m }
              \/ ResumeState(r).stage = "REJECT" /\ ResumeState(r).risk = 0
           /\ \A m : run.found[r] = { m } =>
                 ResumeState(r) = [ stage |-> StageOf(r, m.id, m.status), risk |-> m.id,
                                    status |-> m.status, assessed |-> HasMarkerAssessment(m.id) ]
<1>1. run.found[r] \in SUBSET Match /\ IsFiniteSet(run.found[r])
    BY DEF Types, Pointers, RunStates
<1>2. Cardinality(run.found[r]) \in Nat
    BY <1>1, FS_CardinalityType
<1>3. CASE run.found[r] = {}
  <2>1. Cardinality(run.found[r]) = 0
      BY <1>3, FS_EmptySet
  <2>2. ResumeState(r) = [ Unread EXCEPT !.stage = "None" ]
    <3>1. /\ ~(Cardinality(run.found[r]) = 1) /\ ~(Cardinality(run.found[r]) > 1)
        BY <2>1
    <3> QED
        BY <1>3, <3>1, Zenon DEF ResumeState
  <2>3. ResumeState(r) \in Resume /\ ResumeState(r).risk = 0 /\ ResumeState(r).stage = "None"
    <3>1. /\ [ Unread EXCEPT !.stage = "None" ] \in Resume
          /\ [ Unread EXCEPT !.stage = "None" ].risk = 0
          /\ [ Unread EXCEPT !.stage = "None" ].stage = "None"
        BY StatusFacts DEF Unread, Resume
    <3> QED
        BY <2>2, <3>1
  <2>4. \A m : run.found[r] # { m }
      BY <1>3
  <2> QED
      BY <1>3, <2>3, <2>4
<1>4. ASSUME NEW m \in Match, run.found[r] = { m }
      PROVE  /\ ResumeState(r) \in Resume /\ ResumeState(r).stage # "unread"
             /\ IsRiskOf(ResumeState(r).risk, r)
             /\ ResumeState(r) = [ stage |-> StageOf(r, m.id, m.status), risk |-> m.id,
                                    status |-> m.status, assessed |-> HasMarkerAssessment(m.id) ]
  <2>1. Cardinality(run.found[r]) = 1 /\ run.found[r] # {} /\ (CHOOSE x \in run.found[r] : TRUE) = m
      BY <1>4, FS_Singleton
  <2>2. ResumeState(r) = [ stage |-> StageOf(r, m.id, m.status), risk |-> m.id,
                           status |-> m.status, assessed |-> HasMarkerAssessment(m.id) ]
    <3>1. /\ ~(run.found[r] = {}) /\ Cardinality(run.found[r]) = 1
          /\ ~(Cardinality(run.found[r]) > 1)
        BY <2>1
    <3> QED
        BY <2>1, <3>1, Zenon DEF ResumeState
  <2>3. StageOf(r, m.id, m.status) \in { "Created", "StatusWalked", "Escalated", "Granted", "Complete" }
      BY StageType
  <2>4. m.id \in Nat /\ m.status \in RiskStatuses /\ HasMarkerAssessment(m.id) \in BOOLEAN
      BY DEF Match, HasMarkerAssessment
  <2>5. ResumeState(r) \in Resume /\ ResumeState(r).stage # "unread" /\ ResumeState(r).risk = m.id
    <3> DEFINE stage == StageOf(r, m.id, m.status)
               assessed == HasMarkerAssessment(m.id)
    <3>1. /\ ResumeState(r) = [ stage |-> stage, risk |-> m.id, status |-> m.status, assessed |-> assessed ]
          /\ stage \in { "Created", "StatusWalked", "Escalated", "Granted", "Complete" }
          /\ assessed \in BOOLEAN
        BY <2>2, <2>3, <2>4
    <3> HIDE DEF stage, assessed
    <3> QED
        BY <2>4, <3>1 DEF Resume
  <2>6. IsRiskOf(m.id, r)
      BY <1>4 DEF Pointers
  <2> QED
      BY <2>2, <2>5, <2>6
<1>5. CASE run.found[r] # {} /\ ~ \E m \in Match : run.found[r] = { m }
  <2>1. Cardinality(run.found[r]) > 1
    <3>1. Cardinality(run.found[r]) # 0
        BY <1>1, <1>5, FS_EmptySet
    <3>2. Cardinality(run.found[r]) # 1
        BY <1>1, <1>5, FS_Singleton
    <3> QED
        BY <1>2, <3>1, <3>2
  <2>2. ResumeState(r) = [ Unread EXCEPT !.stage = "REJECT" ]
      BY <1>2, <1>5, <2>1 DEF ResumeState
  <2>3. \A m : run.found[r] # { m }
      BY <1>1, <1>5
  <2>4. ResumeState(r) \in Resume /\ ResumeState(r).risk = 0 /\ ResumeState(r).stage = "REJECT"
      BY <2>2, OffIs DEF Resume
  <2> QED
      BY <1>5, <2>3, <2>4
<1>6. \A m : run.found[r] = { m } => m \in Match
    BY <1>1
<1> QED
    BY <1>3, <1>4, <1>5, <1>6

LEMMA FetchIs ==
    ASSUME Types, Pointers, Fetch
    PROVE  /\ First \in run.todo /\ run' \in RunStates /\ run'.work = run.work
           /\ run'.resume[First] = ResumeState(First) /\ run'.found[First] = {}
           /\ \A r \in Rows : r # First =>
                 run'.resume[r] = run.resume[r] /\ run'.found[r] = run.found[r]
           /\ \/ run'.pc = "write" /\ run'.todo = Rows /\ run.todo = { First }
              \/ run'.pc = "fetch" /\ run'.todo = run.todo \ { First } /\ run'.todo # {}
           /\ run'.cutoff = run.cutoff /\ run'.then = run.then /\ run'.offset = run.offset
<1> DEFINE r == First
           rs == ResumeState(r)
           last == run.todo = { r }
           pc == IF last THEN "write" ELSE "fetch"
           todo == IF last THEN Rows ELSE run.todo \ { r }
           findings == run.findings \/ rs.stage = "REJECT"
           found == [ run.found EXCEPT ![r] = {} ]
           resume == [ run.resume EXCEPT ![r] = rs ]
<1>1. run \in RunStates /\ r \in run.todo /\ run.todo \subseteq Rows /\ r \in Rows
    BY DEF Types, Pointers, Fetch, RunStates
<1>2. rs \in Resume
    BY <1>1, ResumeIs
<1>3. run' = [ run EXCEPT !.pc = pc, !.todo = todo, !.found = found, !.resume = resume, !.findings = findings ]
    BY <1>1 DEF Fetch, RunStates
<1>4. /\ found \in [ Rows -> SUBSET Match ] /\ resume \in [ Rows -> Resume ]
      /\ todo \in SUBSET Rows /\ findings \in BOOLEAN /\ pc \in { "write", "fetch" }
    BY <1>1, <1>2 DEF RunStates
<1>5. /\ found[r] = {} /\ resume[r] = rs
      /\ \A q \in Rows : q # r => found[q] = run.found[q] /\ resume[q] = run.resume[q]
    BY <1>1 DEF RunStates
<1>6. \/ pc = "write" /\ todo = Rows /\ run.todo = { r }
      \/ pc = "fetch" /\ todo = run.todo \ { r } /\ todo # {}
    BY <1>1
<1> HIDE DEF rs, pc, todo, findings, found, resume, r
<1>7. /\ run' \in RunStates /\ run'.work = run.work /\ run'.pc = pc /\ run'.todo = todo
      /\ run'.found = found /\ run'.resume = resume
      /\ run'.cutoff = run.cutoff /\ run'.then = run.then /\ run'.offset = run.offset
    BY <1>1, <1>3, <1>4 DEF RunStates
<1> QED
    BY <1>1, <1>5, <1>6, <1>7 DEF r, rs

\* What a row is taken up with.
JobOf(r) ==
    [ row |-> r, risk |-> run.resume[r].risk, current |-> run.resume[r].status, on |-> "none",
      assess |-> NeedsResidualAssessment(r) /\ ~run.resume[r].assessed,
      escalate |-> WantsSuppressingEscalation(r),
      grant |-> ExpectedGrants(r), plan |-> r \in Closed ]

LEMMA TakeRowIs ==
    ASSUME Types, Pointers, TakeRow
    PROVE  /\ First \in run.todo /\ run' \in RunStates
           /\ run'.pc = "write" /\ run.pc = "write" /\ Work = NoWork
           /\ run'.resume[First] = Unread /\ run'.found = run.found
           /\ run'.cutoff = run.cutoff /\ run'.then = run.then /\ run'.offset = run.offset
           /\ \A r \in Rows : r # First => run'.resume[r] = run.resume[r]
           /\ \/ /\ run.resume[First].stage \in { "REJECT", "Complete" }
                 /\ run'.todo = run.todo \ { First } /\ run'.work = NoWork
              \/ /\ run.resume[First].stage \notin { "REJECT", "Complete" }
                 /\ run'.todo = run.todo /\ run'.work = JobOf(First) /\ JobOf(First) \in Job
<1> DEFINE r == First
           rs == run.resume[r]
           resume == [ run.resume EXCEPT ![r] = Unread ]
           rest == run.todo \ { r }
           job == JobOf(r)
<1>1. run \in RunStates /\ r \in run.todo /\ run.todo \subseteq Rows /\ r \in Rows
      /\ run.pc = "write" /\ Work = NoWork
    BY DEF Types, Pointers, TakeRow, Writing, RunStates
<1>2. rs \in Resume
    BY <1>1 DEF RunStates
<1>3. job \in Job
    BY <1>1, <1>2, MigrationAssumption
       DEF JobOf, Job, Resume, NeedsResidualAssessment, WantsSuppressingEscalation, ExpectedGrants
<1>4. \/ /\ rs.stage \in { "REJECT", "Complete" }
         /\ run' = [ run EXCEPT !.todo = rest, !.resume = resume ]
      \/ /\ rs.stage \notin { "REJECT", "Complete" }
         /\ run' = [ run EXCEPT !.resume = resume, !.work = job ]
    BY <1>1 DEF TakeRow, RunStates, JobOf
<1>5. resume \in [ Rows -> Resume ] /\ rest \in SUBSET Rows
    BY <1>1, OffIs DEF RunStates
<1>6. resume[r] = Unread /\ \A q \in Rows : q # r => resume[q] = run.resume[q]
    BY <1>1 DEF RunStates
<1> HIDE DEF resume, rest, job, rs, r
<1>7. CASE rs.stage \in { "REJECT", "Complete" }
  <2>1. /\ run' \in RunStates /\ run'.pc = run.pc /\ run'.work = run.work /\ run'.todo = rest
        /\ run'.found = run.found /\ run'.resume = resume
        /\ run'.cutoff = run.cutoff /\ run'.then = run.then /\ run'.offset = run.offset
      BY <1>1, <1>4, <1>5, <1>7 DEF RunStates
  <2> QED
      BY <1>1, <1>6, <1>7, <2>1, OffIs DEF r, rs, rest, Work
<1>8. CASE rs.stage \notin { "REJECT", "Complete" }
  <2>1. /\ run' \in RunStates /\ run'.pc = run.pc /\ run'.work = job /\ run'.todo = run.todo
        /\ run'.found = run.found /\ run'.resume = resume
        /\ run'.cutoff = run.cutoff /\ run'.then = run.then /\ run'.offset = run.offset
      BY <1>1, <1>3, <1>4, <1>5, <1>8 DEF RunStates
  <2> QED
      BY <1>1, <1>3, <1>6, <1>8, <2>1 DEF r, rs, job
<1> QED
    BY <1>7, <1>8

\* The verification finds fault with a row.
Bad(r) == ~ \E m \in run.found[r] : run.found[r] = { m } /\ VerifyRow(r, m.id)

LEMMA VerifyIs ==
    ASSUME Types, Pointers, Verify
    PROVE  /\ First \in run.todo /\ Work = NoWork
           /\ \/ /\ run' = Off /\ run.todo = { First }
                 /\ clean' = clean \cup (IF Bad(First) \/ run.findings THEN {} ELSE { run.cutoff })
              \/ /\ run' \in RunStates /\ run'.pc = "verify" /\ run'.work = NoWork
                 /\ run'.todo = run.todo \ { First } /\ run'.todo # {}
                 /\ run'.resume = run.resume /\ clean' = clean
                 /\ run'.cutoff = run.cutoff /\ run'.then = run.then /\ run'.offset = run.offset
                 /\ run'.findings = (run.findings \/ Bad(First))
                 /\ \A r \in Rows : run'.found[r] \in { {}, run.found[r] }
                 /\ \A r \in Rows : r # First => run'.found[r] = run.found[r]
<1> DEFINE r == First
           bad == Bad(r)
           rest == run.todo \ { r }
           found == [ run.found EXCEPT ![r] = {} ]
           findings == run.findings \/ bad
<1>1. run \in RunStates /\ r \in run.todo /\ run.pc = "verify" /\ Work = NoWork /\ r \in Rows
    BY DEF Types, Pointers, Verify, RunStates
<1>2. \/ run.todo = { r } /\ run' = Off /\ clean' = clean \cup (IF bad \/ run.findings THEN {} ELSE { run.cutoff })
      \/ /\ run.todo # { r } /\ clean' = clean
         /\ run' = [ run EXCEPT !.todo = rest, !.found = found, !.findings = findings ]
    BY <1>1 DEF Verify, RunStates, Bad
<1>3. /\ rest \in SUBSET Rows /\ found \in [ Rows -> SUBSET Match ] /\ findings \in BOOLEAN
      /\ \A q \in Rows : found[q] \in { {}, run.found[q] }
      /\ \A q \in Rows : q # r => found[q] = run.found[q]
  <2>1. run.findings \in BOOLEAN /\ bad \in BOOLEAN
      BY <1>1 DEF RunStates, Bad
  <2>2. findings \in BOOLEAN
      BY <2>1
  <2> HIDE DEF findings, bad
  <2> QED
      BY <1>1, <2>2 DEF RunStates
<1>4. run.todo # { r } => rest # {}
    BY <1>1
<1> HIDE DEF bad, rest, found, findings, r
<1>5. ASSUME run' = [ run EXCEPT !.todo = rest, !.found = found, !.findings = findings ]
      PROVE  /\ run' \in RunStates /\ run'.pc = "verify" /\ run'.work = NoWork
             /\ run'.todo = rest /\ run'.resume = run.resume /\ run'.found = found
             /\ run'.findings = findings
             /\ run'.cutoff = run.cutoff /\ run'.then = run.then /\ run'.offset = run.offset
    BY <1>1, <1>3, <1>5 DEF RunStates, Work
<1> QED
    BY <1>1, <1>2, <1>3, <1>4, <1>5 DEF r, rest, bad, findings

\* A search begins: for the rows' state, or for the verification.
LEMMA StartIs ==
    ASSUME Start
    PROVE  /\ run' \in RunStates /\ run.pc = "off" /\ run'.pc = "count" /\ run'.then = "fetch"
           /\ run'.work = NoWork /\ run'.todo = {} /\ run'.offset = 0 /\ Overdue \subseteq run'.cutoff
           /\ \A r \in Rows : run'.found[r] = {} /\ run'.resume[r] = Unread
<1>1. PICK cutoff \in { Overdue, Overdue \cup LaterDue } :
          run' = [ Off EXCEPT !.pc = "count", !.then = "fetch", !.cutoff = cutoff ]
    BY DEF Start
<1>2. cutoff \subseteq Rows /\ Overdue \subseteq cutoff
    BY MigrationAssumption
<1>3. /\ run'.pc = "count" /\ run'.then = "fetch" /\ run'.cutoff = cutoff /\ run'.work = Off.work
      /\ run'.todo = Off.todo /\ run'.offset = Off.offset
      /\ run'.found = Off.found /\ run'.resume = Off.resume
    BY <1>1 DEF Off
<1>4. run' \in RunStates
    BY <1>1, <1>2, OffIs DEF RunStates
<1> QED
    BY <1>2, <1>3, <1>4, OffIs DEF Start

LEMMA BeginVerifyIs ==
    ASSUME Types, Pointers, BeginVerify
    PROVE  /\ run' \in RunStates /\ run.pc = "write" /\ run'.pc = "count" /\ run'.then = "verify"
           /\ Work = NoWork /\ run'.work = NoWork /\ run'.todo = {} /\ run.todo = {}
           /\ run.offset = 0 /\ run'.offset = 0
           /\ run'.cutoff = run.cutoff /\ run'.found = run.found /\ run'.resume = run.resume
<1>1. run \in RunStates /\ run' = [ run EXCEPT !.pc = "count", !.then = "verify" ]
    BY DEF Types, BeginVerify
<1>2. /\ run' \in RunStates /\ run'.pc = "count" /\ run'.then = "verify" /\ run'.work = run.work
      /\ run'.todo = run.todo /\ run'.offset = run.offset
      /\ run'.cutoff = run.cutoff /\ run'.found = run.found /\ run'.resume = run.resume
    BY <1>1 DEF RunStates
<1>3. Work = NoWork /\ run.pc = "write" /\ run.todo = {} /\ run.offset = 0
    BY DEF BeginVerify, Pointers
<1> QED
    BY <1>2, <1>3 DEF Work

LEMMA CountIs ==
    ASSUME Types, Pointers, CountRisks
    PROVE  /\ run' \in RunStates /\ run.pc = "count" /\ run'.pc = "select" /\ run'.total = Len(risks)
           /\ Work = NoWork /\ run'.work = NoWork /\ run'.todo = run.todo /\ run'.offset = run.offset
           /\ run'.then = run.then
           /\ run'.cutoff = run.cutoff /\ run'.found = run.found /\ run'.resume = run.resume
<1> DEFINE n == Len(risks)
<1>1. run \in RunStates /\ n \in Nat /\ run.pc = "count" /\ Work = NoWork
      /\ run' = [ run EXCEPT !.pc = "select", !.total = n ]
    BY LenProperties DEF Types, CountRisks, Pointers
<1> HIDE DEF n
<1>2. /\ run' \in RunStates /\ run'.pc = "select" /\ run'.total = n /\ run'.work = run.work
      /\ run'.todo = run.todo /\ run'.offset = run.offset /\ run'.then = run.then
      /\ run'.cutoff = run.cutoff /\ run'.found = run.found /\ run'.resume = run.resume
    BY <1>1 DEF RunStates
<1> QED
    BY <1>1, <1>2 DEF Work, n

\* The risks are a list.
LEMMA RisksSeconded ==
    ASSUME risks \in Seq(Risk)
    PROVE  /\ Seconded(DOMAIN risks, CreatedAt) /\ Cardinality(DOMAIN risks) = Len(risks)
           /\ \A i \in DOMAIN risks : CreatedAt[i] = risks[i].second
<1>1. \A i \in DOMAIN risks : CreatedAt[i] = risks[i].second /\ risks[i].second \in Nat
    BY RisksAre, RiskFields DEF CreatedAt
<1>2. DOMAIN risks = 1..Len(risks) /\ Len(risks) \in Nat
    BY LenProperties
<1>3. Cardinality(1..Len(risks)) = Len(risks)
    BY <1>2, FS_Interval
<1> QED
    BY <1>1, <1>2, <1>3, RisksAre DEF Seconded

\* What a page leaves of the run; last: it is the search's last one.
Selected(page, last) ==
    /\ run' \in RunStates /\ run.pc = "select" /\ run'.work = NoWork /\ Work = NoWork
    /\ run.then \in { "fetch", "verify" } /\ run'.then = run.then
    /\ run'.cutoff = run.cutoff /\ run'.resume = run.resume
    /\ \A r \in Rows : run'.found[r] = run.found[r] \cup MatchesOn(page, r)
    /\ last => /\ run'.pc = run.then /\ run'.todo = Rows /\ run'.offset = 0
               /\ page = {} \/ run.offset + Cardinality(page) >= run.total
    /\ ~last => run'.pc = "count" /\ run'.todo = {} /\ run'.offset = run.offset + Cardinality(page)

LEMMA SelectIs ==
    ASSUME Types, Pointers, SelectPage
    PROVE  \E page \in PagesOf(DOMAIN risks, CreatedAt, run.offset, SearchLimit), last \in BOOLEAN :
              page \subseteq DOMAIN risks /\ Selected(page, last)
<1>1. run \in RunStates /\ risks \in Seq(Risk) /\ run.pc = "select" /\ Work = NoWork
      /\ run.then \in { "fetch", "verify" } /\ run.offset \in Nat /\ run.total \in Nat
    BY DEF Types, SelectPage, Pointers, RunStates
<1>2. PICK page \in PagesOf(DOMAIN risks, CreatedAt, run.offset, SearchLimit) :
          LET offset == run.offset + Cardinality(page)
              last   == page = {} \/ offset >= run.total
          IN  run' = [ run EXCEPT !.pc = IF last THEN run.then ELSE "count",
                                  !.offset = IF last THEN 0 ELSE offset,
                                  !.total = 0,
                                  !.found = [ r \in Rows |-> run.found[r] \cup MatchesOn(page, r) ],
                                  !.todo = IF last THEN Rows ELSE {} ]
    BY <1>1 DEF SelectPage, RunStates
<1>3. page \subseteq DOMAIN risks /\ Cardinality(page) \in Nat
    BY <1>1, RisksSeconded, PageType
<1> DEFINE size == run.offset + Cardinality(page)
           last == page = {} \/ size >= run.total
           found == [ r \in Rows |-> run.found[r] \cup MatchesOn(page, r) ]
           pc == IF last THEN run.then ELSE "count"
           offset == IF last THEN 0 ELSE size
           todo == IF last THEN Rows ELSE {}
<1>4. found \in [ Rows -> SUBSET Match ]
  <2>1. \A r \in Rows : run.found[r] \in SUBSET Match /\ MatchesOn(page, r) \in SUBSET Match
      BY <1>1, <1>3, MatchesIs DEF RunStates
  <2>2. \A r \in Rows : run.found[r] \cup MatchesOn(page, r) \in SUBSET Match
      BY <2>1
  <2> QED
      BY <2>2
<1>5. size \in Nat /\ offset \in Nat /\ pc \in { "fetch", "verify", "count" } /\ todo \in SUBSET Rows
    BY <1>1, <1>3
<1>6. \A r \in Rows : found[r] = run.found[r] \cup MatchesOn(page, r)
    OBVIOUS
<1>7. /\ last \in BOOLEAN /\ (last => pc = run.then /\ todo = Rows /\ offset = 0
                                  /\ (page = {} \/ size >= run.total))
      /\ ~last => pc = "count" /\ todo = {} /\ offset = size
    OBVIOUS
<1>8. run' = [ run EXCEPT !.pc = pc, !.offset = offset, !.total = 0, !.found = found, !.todo = todo ]
    BY <1>2
<1> HIDE DEF pc, offset, found, todo, last
<1>9. /\ run' \in RunStates /\ run'.pc = pc /\ run'.offset = offset /\ run'.found = found /\ run'.todo = todo
      /\ run'.work = run.work /\ run'.then = run.then /\ run'.cutoff = run.cutoff
      /\ run'.resume = run.resume
    BY <1>1, <1>4, <1>5, <1>8 DEF RunStates
<1>10. Selected(page, last)
    BY <1>1, <1>6, <1>7, <1>9 DEF Selected, Work
<1> QED
    BY <1>3, <1>7, <1>10

-----------------------------------------------------------------------------
(* What the calls change. *)

\* The work in hand becomes w, the rest of the run being as it was.
JobTo(w) ==
    run' \in RunStates /\ run'.work = w /\ run'.todo = run.todo /\ Kept

\* The row in hand is done with.
RowLeft ==
    run' \in RunStates /\ run'.work = NoWork /\ run'.todo = run.todo \ { Work.row } /\ Kept

\* A risk that the sweep has escalated cannot be walked on.
LEMMA EscalatedIs ==
    /\ \A t : ~StatusAtLeast("ESCALATED", t)
    /\ ~IsValidRiskTransition("ESCALATED", NextHop("ESCALATED"))
<1>1. \A n \in DOMAIN Path : Path[n] # "ESCALATED"
    BY DEF Path, Born
<1>2. ~OnPath("ESCALATED")
    BY <1>1 DEF OnPath
<1>3. NextHop("ESCALATED") = Path[2]
    BY <1>2 DEF NextHop
<1>4. NextHop("ESCALATED") = "PENDING_COMPLIANCE_REVIEW"
    BY <1>3 DEF Path
<1>5. AllowedRiskTransitions["ESCALATED"] = { "PENDING_MANAGEMENT_APPROVAL", "IN_REMEDIATION", "CANCELLED" }
    BY DEF AllowedRiskTransitions, RiskStatuses
<1> QED
    BY <1>2, <1>4, <1>5 DEF StatusAtLeast, IsValidRiskTransition

\* Nothing is left to do for the row but to walk a risk that the sweep has escalated.
Stuck == Work.risk # 0 /\ ~Work.assess /\ Work.current = "ESCALATED" /\ Work.on = "none"

LEMMA DueIs ==
    /\ \A call : Due(call) => Work # NoWork /\ run.pc = "write" /\ run.todo # {}
    /\ Due("create") => Work.risk = 0
    /\ Due("assess") => Work.risk # 0 /\ Work.assess
    /\ \A call \in { "walk", "escalate", "grant", "plan", "nothing" } :
          Due(call) => Work.risk # 0 /\ ~Work.assess
    /\ Due("walk") => ~StatusAtLeast(Work.current, Target(Work.row))
    /\ \A call : Due(call) /\ Stuck => call = "walk"
<1> DEFINE A == Work.risk = 0
           B == Work.risk # 0 /\ Work.assess
           C == ~StatusAtLeast(Work.current, Target(Work.row))
           next == CASE A -> "create" [] B -> "assess"
                     [] OTHER -> IF C THEN "walk" ELSE IF Work.escalate THEN "escalate"
                                 ELSE IF Work.grant # {} THEN "grant"
                                 ELSE IF Work.plan THEN "plan" ELSE "nothing"
<1>1. \A call : Due(call) => Writing /\ Work # NoWork /\ call = next
    BY Zenon DEF Due
<1>2. next = "create" => A
    OBVIOUS
<1>3. next = "assess" => B
    OBVIOUS
<1>4. next \in { "walk", "escalate", "grant", "plan", "nothing" } => ~A /\ ~B
    OBVIOUS
<1>5. (next = "walk" => C) /\ (~A /\ ~B /\ C => next = "walk")
    OBVIOUS
<1>6. Stuck => ~A /\ ~B /\ C
    BY EscalatedIs DEF Stuck
<1> HIDE DEF A, B, C, next
<1> QED
    BY <1>1, <1>2, <1>3, <1>4, <1>5, <1>6 DEF A, B, C, Writing

\* A call never undoes what there is of a risk.
Adds(i, u) ==
    /\ u.planDone \in { TRUE, risks[i].planDone }
    /\ \/ u.status = risks[i].status
       \/ risks[i].status # "ESCALATED" /\ ~StatusAtLeast(risks[i].status, Target(risks[i].of))

\* The calls on the row in hand: one field of its risk is written, or none; then
\* the run goes on, rejects the row, or stops.
CallOn(i) ==
    /\ i = Work.risk /\ i # 0 /\ Work # NoWork /\ run.pc = "write"
    /\ \/ risks' = risks
       \/ \E u : /\ Writes(i, u) /\ Adds(i, u)
                 /\ \/ Work.assess /\ u.assessments = risks[i].assessments + 1
                       /\ u.marked = risks[i].marked
                    \/ ~(risks[i].marked > 0) /\ u.marked = risks[i].marked + 1
                       /\ u.assessments = risks[i].assessments
                    \/ u.marked = risks[i].marked /\ u.assessments = risks[i].assessments
    /\ \/ run' = Off
       \/ RowLeft
       \/ \E w \in Job : /\ JobTo(w) /\ w.row = Work.row /\ w.risk = Work.risk /\ w.on = Work.on
                         /\ w.assess => Work.assess /\ risks'[i].assessments = risks[i].assessments
    /\ Stuck => RowLeft /\ risks' = risks /\ grants' = grants
    /\ grants \subseteq grants' /\ grants' \subseteq Grants
    /\ UNCHANGED <<sequence, creates, late, history>>
    /\ faults' = faults \/ Fault

Call == \/ PostAssessment \/ PatchRisk \/ PostEscalation \/ (\E g \in Grants : PostGrant(g))
        \/ PatchActionPlan

LEMMA JobFields ==
    ASSUME NEW w \in Job
    PROVE  /\ w.row \in Rows \cup { 0 } /\ w.risk \in Nat /\ w.assess \in BOOLEAN
           /\ w.current \in RiskStatuses /\ w.grant \subseteq Grants
           /\ LET v == [ w EXCEPT !.assess = FALSE ]
              IN  v \in Job /\ v.row = w.row /\ v.risk = w.risk /\ v.on = w.on /\ ~v.assess
           /\ LET v == [ w EXCEPT !.escalate = FALSE ]
              IN  v \in Job /\ v.row = w.row /\ v.risk = w.risk /\ v.on = w.on /\ v.assess = w.assess
           /\ LET v == [ w EXCEPT !.plan = FALSE ]
              IN  v \in Job /\ v.row = w.row /\ v.risk = w.risk /\ v.on = w.on /\ v.assess = w.assess
           /\ \A s \in RiskStatuses : LET v == [ w EXCEPT !.current = s ]
              IN  v \in Job /\ v.row = w.row /\ v.risk = w.risk /\ v.on = w.on /\ v.assess = w.assess
           /\ \A g \in SUBSET Grants : LET v == [ w EXCEPT !.grant = g ]
              IN  v \in Job /\ v.row = w.row /\ v.risk = w.risk /\ v.on = w.on /\ v.assess = w.assess
           /\ \A c \in Connections : LET v == [ w EXCEPT !.on = c ]
              IN  v \in Job /\ v.row = w.row /\ v.risk = w.risk /\ v.on = c /\ v.assess = w.assess
BY DEF Job

LEMMA CallIs ==
    ASSUME Types, Pointers, Call
    PROVE  CallOn(Work.risk)
<1> DEFINE i == Work.risk
<1>1. Work \in Job /\ run \in RunStates /\ risks \in Seq(Risk) /\ grants \subseteq Grants
    BY DEF Types, RunStates, Work
<1>2. Work # NoWork /\ run.pc = "write" /\ i # 0
    BY DueIs DEF Call, PostAssessment, PatchRisk, PostEscalation, PostGrant, PatchActionPlan
<1>3. i \in DOMAIN risks /\ risks[i] \in Risk /\ risks[i].of = Work.row
    BY <1>1, <1>2, RisksAre DEF Pointers, IsRiskOf
<1>4. ASSUME NEW w \in Job, Answered(w) PROVE (run' = Off \/ JobTo(w)) /\ (faults' = faults \/ Fault)
    BY <1>4, AnsweredIs DEF Types, JobTo, Answered, Dies
<1>10. \A call \in { "assess", "escalate", "grant", "plan" } : Due(call) => ~Stuck
    BY DueIs
<1>5. CASE PostAssessment
  <2> DEFINE n == risks[i].assessments + 1
             u == [ risks[i] EXCEPT !.assessments = n ]
             w == [ Work EXCEPT !.assess = FALSE ]
  <2>1. n \in Nat
      BY <1>3 DEF Risk
  <2>2. risks' = [ risks EXCEPT ![i] = u ] /\ Answered(w) /\ Work.assess /\ ~Stuck
        /\ UNCHANGED <<grants, sequence, creates, late, history>>
      BY <1>3, <1>5, DueIs DEF PostAssessment, Stuck
  <2> HIDE DEF n
  <2>3. /\ u \in Risk /\ u.of = risks[i].of /\ u.register = risks[i].register
        /\ u.number = risks[i].number /\ u.marked = risks[i].marked /\ u.assessments = n
        /\ u.second = risks[i].second /\ Adds(i, u)
      BY <1>3, <2>1 DEF Risk, Adds
  <2>4. w \in Job /\ w.row = Work.row /\ w.risk = Work.risk /\ w.on = Work.on /\ ~w.assess
      BY <1>1, JobFields
  <2> HIDE DEF u, w
  <2>5. Writes(i, u)
      BY <1>3, <2>2, <2>3 DEF Writes
  <2> QED
      BY <1>1, <1>2, <1>4, <2>2, <2>3, <2>4, <2>5 DEF CallOn, n
<1>6. CASE PatchRisk
  <2> DEFINE hop == NextHop(Work.current)
             u == [ risks[i] EXCEPT !.status = hop ]
             w == [ Work EXCEPT !.current = hop ]
  <2>1. UNCHANGED <<grants, sequence, creates, late, history>>
      BY <1>6 DEF PatchRisk
  <2>2. CASE /\ IsValidRiskTransition(Work.current, hop) /\ risks' = [ risks EXCEPT ![i] = u ]
             /\ Answered(w) /\ risks[i].status = Work.current
    <3>1. hop \in RiskStatuses
        BY <1>1, <2>2, StatusFacts, JobFields
    <3>5. Work.current # "ESCALATED" /\ ~StatusAtLeast(Work.current, Target(Work.row))
        BY <1>6, <2>2, EscalatedIs, DueIs DEF PatchRisk
    <3>6. ~Stuck
        BY <3>5 DEF Stuck
    <3> HIDE DEF hop
    <3>2. /\ u \in Risk /\ u.of = risks[i].of /\ u.register = risks[i].register
          /\ u.number = risks[i].number /\ u.marked = risks[i].marked
          /\ u.assessments = risks[i].assessments /\ u.planDone = risks[i].planDone
          /\ u.second = risks[i].second
        BY <1>3, <3>1 DEF Risk
    <3>7. Adds(i, u)
        BY <1>3, <2>2, <3>2, <3>5 DEF Adds
    <3>3. w \in Job /\ w.row = Work.row /\ w.risk = Work.risk /\ w.on = Work.on /\ w.assess = Work.assess
        BY <1>1, <3>1, JobFields
    <3> HIDE DEF u, w
    <3>4. Writes(i, u) /\ risks'[i] = u
        BY <1>3, <2>2, <3>2 DEF Writes
    <3> QED
        BY <1>1, <1>2, <1>4, <2>1, <2>2, <3>2, <3>3, <3>4, <3>6, <3>7 DEF CallOn
  <2>3. CASE /\ risks' = risks /\ faults' = faults
             /\ (run' = Off /\ IsValidRiskTransition(Work.current, hop)) \/ RejectRow
    <3>1. (run' = Off /\ ~Stuck) \/ RowLeft
        BY <2>3, EscalatedIs, RejectIs DEF RowLeft, Stuck
    <3> QED
        BY <1>1, <1>2, <2>1, <2>3, <3>1 DEF CallOn
  <2> QED
    <3>1. \/ /\ IsValidRiskTransition(Work.current, hop) /\ risks' = [ risks EXCEPT ![i] = u ]
             /\ Answered(w) /\ risks[i].status = Work.current
          \/ /\ risks' = risks /\ faults' = faults
             /\ (run' = Off /\ IsValidRiskTransition(Work.current, hop)) \/ RejectRow
        BY <1>3, <1>6 DEF PatchRisk
    <3> QED
        BY <2>2, <2>3, <3>1
<1>7. CASE PostEscalation
  <2> DEFINE n == risks[i].marked + 1
             u == [ risks[i] EXCEPT !.marked = n ]
             w == [ Work EXCEPT !.escalate = FALSE ]
  <2>1. n \in Nat
      BY <1>3 DEF Risk
  <2>2. /\ risks' = IF HasOpenMarkerEscalation(i) THEN risks ELSE [ risks EXCEPT ![i] = u ]
        /\ Answered(w) /\ UNCHANGED <<grants, sequence, creates, late, history>> /\ ~Stuck
      BY <1>3, <1>7, <1>10 DEF PostEscalation
  <2> HIDE DEF n
  <2>3. /\ u \in Risk /\ u.of = risks[i].of /\ u.register = risks[i].register
        /\ u.number = risks[i].number /\ u.marked = n /\ u.assessments = risks[i].assessments
        /\ u.second = risks[i].second /\ Adds(i, u)
      BY <1>3, <2>1 DEF Risk, Adds
  <2>4. w \in Job /\ w.row = Work.row /\ w.risk = Work.risk /\ w.on = Work.on /\ w.assess = Work.assess
      BY <1>1, JobFields
  <2> HIDE DEF u, w
  <2>5. CASE HasOpenMarkerEscalation(i)
      BY <1>1, <1>2, <1>4, <2>2, <2>4, <2>5 DEF CallOn
  <2>6. CASE ~HasOpenMarkerEscalation(i)
    <3>1. Writes(i, u) /\ risks'[i] = u
        BY <1>3, <2>2, <2>3, <2>6 DEF Writes
    <3> QED
        BY <1>1, <1>2, <1>4, <2>2, <2>3, <2>4, <2>6, <3>1 DEF CallOn, n, HasOpenMarkerEscalation
  <2> QED
      BY <2>5, <2>6
<1>8. ASSUME NEW g \in Grants, PostGrant(g) PROVE CallOn(i)
  <2> DEFINE left == Work.grant \ { g }
             w == [ Work EXCEPT !.grant = left ]
  <2>1. left \in SUBSET Grants
      BY <1>1, JobFields
  <2>2. Answered(w) /\ risks' = risks /\ grants' = grants \cup { g } /\ ~Stuck
        /\ UNCHANGED <<sequence, creates, late, history>>
      BY <1>1, <1>8, <1>10 DEF PostGrant, Job
  <2> HIDE DEF left
  <2>3. w \in Job /\ w.row = Work.row /\ w.risk = Work.risk /\ w.on = Work.on /\ w.assess = Work.assess
      BY <1>1, <2>1, JobFields
  <2> HIDE DEF w
  <2> QED
      BY <1>1, <1>2, <1>4, <2>2, <2>3 DEF CallOn
<1>9. CASE PatchActionPlan
  <2> DEFINE u == [ risks[i] EXCEPT !.planDone = TRUE ]
             w == [ Work EXCEPT !.plan = FALSE ]
  <2>2. risks' = [ risks EXCEPT ![i] = u ] /\ Answered(w) /\ ~Stuck
        /\ UNCHANGED <<grants, sequence, creates, late, history>>
      BY <1>3, <1>9, <1>10 DEF PatchActionPlan
  <2>3. /\ u \in Risk /\ u.of = risks[i].of /\ u.register = risks[i].register
        /\ u.number = risks[i].number /\ u.marked = risks[i].marked /\ u.assessments = risks[i].assessments
        /\ u.second = risks[i].second /\ Adds(i, u)
      BY <1>3 DEF Risk, Adds
  <2>4. w \in Job /\ w.row = Work.row /\ w.risk = Work.risk /\ w.on = Work.on /\ w.assess = Work.assess
      BY <1>1, JobFields
  <2> HIDE DEF u, w
  <2>5. Writes(i, u) /\ risks'[i] = u
      BY <1>3, <2>2, <2>3 DEF Writes
  <2> QED
      BY <1>1, <1>2, <1>4, <2>2, <2>3, <2>4, <2>5 DEF CallOn
<1> QED
    BY <1>5, <1>6, <1>7, <1>8, <1>9 DEF Call

LEMMA FaultIs == Types /\ (faults' = faults \/ Fault) => faults' \in 0..MaxFaults
BY MigrationAssumption DEF Types, Fault

\* The transactions.
CreatesOK ==
    /\ \A c \in Connections :
          \/ creates[c] = NoCreate
          \/ creates[c].stage \in { "checked", "numbered" } /\ creates[c].register \in Registers
    /\ \A c \in Connections : creates[c].stage = "numbered" =>
          /\ creates[c].number = sequence[creates[c].register] + 1
          /\ \A d \in Connections :
                creates[d].stage = "numbered" /\ creates[d].register = creates[c].register => d = c

\* Each step of the database, and each write somebody else makes.
CommitIs(c) ==
    /\ creates[c].stage = "numbered" /\ Inserted(creates[c])
    /\ creates' = [ creates EXCEPT ![c] = NoCreate ]
    /\ UNCHANGED <<grants, late, clean, delayed>> /\ crossed' = crossed \cup Unseen
    /\ faults' = faults \/ Fault
    /\ \/ Work.on # c /\ run' = run
       \/ Work.on = c /\ run' = Off
       \/ /\ Work.on = c
          /\ \E w \in Job : JobTo(w) /\ w.row = Work.row /\ w.risk = Len(risks) + 1
                            /\ w.assess = Work.assess /\ w.on = "none"

LEMMA CommitDoes ==
    ASSUME Types, NEW c \in Connections, Commit(c)
    PROVE  CommitIs(c)
<1>1. Work \in Job /\ run \in RunStates /\ risks \in Seq(Risk)
    BY DEF Types, RunStates, Work
<1> DEFINE n == Len(risks) + 1
           w == [ Work EXCEPT !.risk = n, !.on = "none" ]
<1>2. n \in Nat
    BY <1>1, LenProperties
<1>3. IF Work.on = c THEN Answered(w) ELSE UNCHANGED run /\ (faults' = faults \/ Fault)
    BY DEF Commit
<1> HIDE DEF n
<1>4. w \in Job /\ w.row = Work.row /\ w.risk = n /\ w.assess = Work.assess /\ w.on = "none"
  <2> DEFINE old == Work
  <2>1. old \in Job /\ w = [ old EXCEPT !.risk = n, !.on = "none" ]
      BY <1>1
  <2> SUFFICES w \in Job /\ w.row = old.row /\ w.risk = n /\ w.assess = old.assess /\ w.on = "none"
      OBVIOUS
  <2> HIDE DEF old, w
  <2> QED
      BY <1>2, <2>1 DEF Job
<1> HIDE DEF w
<1>5. Work.on = c => (run' = Off \/ JobTo(w)) /\ (faults' = faults \/ Fault)
    BY <1>3, <1>4, AnsweredIs DEF JobTo, Answered, Dies
<1>6. \/ Work.on # c /\ run' = run
      \/ Work.on = c /\ run' = Off
      \/ /\ Work.on = c
         /\ \E v \in Job : JobTo(v) /\ v.row = Work.row /\ v.risk = n
                           /\ v.assess = Work.assess /\ v.on = "none"
    BY <1>3, <1>4, <1>5
<1>7. faults' = faults \/ Fault
    BY <1>3, <1>5
<1>8. /\ creates[c].stage = "numbered" /\ Inserted(creates[c])
      /\ creates' = [ creates EXCEPT ![c] = NoCreate ]
      /\ UNCHANGED <<grants, late, clean, delayed>> /\ crossed' = crossed \cup Unseen
    BY DEF Commit
<1> QED
    BY <1>6, <1>7, <1>8 DEF CommitIs, n

RollbackIs(c) ==
    /\ creates' = [ creates EXCEPT ![c] = NoCreate ]
    /\ UNCHANGED <<risks, grants, sequence, late, history>>
    /\ faults' = faults \/ Fault
    /\ \/ Work.on # c /\ run' = run
       \/ Work.on = c /\ (run' = Off \/ RowLeft)

LEMMA RollbackDoes ==
    ASSUME Types, NEW c \in Connections, Rollback(c)
    PROVE  RollbackIs(c)
BY RejectIs DEF Rollback, RollbackIs, Dies, RowLeft, Types

PostIs(c) ==
    /\ Idle(c) /\ Work # NoWork /\ run.pc = "write" /\ Work.risk = 0 /\ Work.on = "none"
    /\ creates' = [ creates EXCEPT ![c] =
                      [ of |-> Work.row, register |-> RegisterOf(Work.row), stage |-> "checked", number |-> 0, second |-> 0 ] ]
    /\ UNCHANGED <<risks, grants, sequence, late, history, faults>>
    /\ \E w \in Job : JobTo(w) /\ w.row = Work.row /\ w.risk = Work.risk
                      /\ w.assess = Work.assess /\ w.on = c

LEMMA PostDoes ==
    ASSUME Types, NEW c \in Connections, PostRisk(c)
    PROVE  PostIs(c)
<1>1. Work \in Job /\ run \in RunStates
    BY DEF Types, RunStates, Work
<1> DEFINE w == [ Work EXCEPT !.on = c ]
<1>2. run' = [ run EXCEPT !.work = w ]
    BY <1>1 DEF PostRisk, RunStates, Work
<1>3. w \in Job /\ w.row = Work.row /\ w.risk = Work.risk /\ w.on = c /\ w.assess = Work.assess
    BY <1>1, JobFields
<1> HIDE DEF w
<1>4. JobTo(w)
    BY <1>1, <1>2, <1>3 DEF RunStates, JobTo, Kept
<1> QED
    BY <1>3, <1>4, DueIs DEF PostRisk, PostIs, BeginCreate

OnlyGrows(i, u) == /\ u.status = risks[i].status /\ u.planDone = risks[i].planDone
               /\ u.marked >= risks[i].marked /\ u.assessments >= risks[i].assessments

Swept(i, u) ==
    \/ risks[i].status = "ESCALATED" /\ u.status = "IN_REMEDIATION"
    \/ /\ risks[i].status = "IN_REMEDIATION" /\ risks[i].of \in Overdue \cup LaterDue
       /\ risks[i].marked = 0 /\ u.status = "ESCALATED"

\* A write that was left behind, or one of the sweep or a commenter.
OutsideIs ==
    /\ UNCHANGED <<grants, sequence, creates, run, history, faults>> /\ late' \subseteq late
    /\ \/ risks' = risks
       \/ \E w \in late : \E u : Writes(w.risk, u) /\ OnlyGrows(w.risk, u) /\ w \notin late'
       \/ \E i, u : /\ Writes(i, u) /\ late' = late
                    /\ u.marked = risks[i].marked /\ u.assessments = risks[i].assessments
                    /\ u.planDone = risks[i].planDone
                    /\ Swept(i, u)

LEMMA OutsideDoes ==
    ASSUME Types,
           \/ \E w \in late : Arrives(w)
           \/ \E i \in DOMAIN risks : SweepEscalates(i) \/ Comment(i)
    PROVE  OutsideIs
<1>1. risks \in Seq(Risk) /\ \A i \in DOMAIN risks : risks[i] \in Risk
    BY RisksAre DEF Types
<1>2. ASSUME NEW w \in late, Arrives(w) PROVE OutsideIs
  <2> DEFINE i == w.risk
             m == risks[i].marked + 1
             n == risks[i].assessments + 1
             u == IF w.what = "assessment" THEN [ risks[i] EXCEPT !.assessments = n ]
                  ELSE [ risks[i] EXCEPT !.marked = m ]
  <2>1. i \in DOMAIN risks /\ risks[i] \in Risk
      BY <1>1 DEF Types
  <2>2. m \in Nat /\ n \in Nat
      BY <2>1 DEF Risk
  <2>3. risks' = risks \/ risks' = [ risks EXCEPT ![i] = u ]
      BY <1>2, <2>1 DEF Arrives
  <2>4. UNCHANGED <<grants, sequence, creates, run, history, faults>>
        /\ late' = late \ { w }
      BY <1>2 DEF Arrives
  <2>7. m >= risks[i].marked /\ n >= risks[i].assessments
        /\ risks[i].marked \in Nat /\ risks[i].assessments \in Nat
      BY <2>1 DEF Risk
  <2> HIDE DEF m, n, i
  <2>5. /\ u \in Risk /\ u.of = risks[i].of /\ u.register = risks[i].register
        /\ u.number = risks[i].number /\ u.second = risks[i].second
      BY <2>1, <2>2 DEF Risk
  <2>8. OnlyGrows(i, u)
      BY <2>1, <2>2, <2>7 DEF Risk, OnlyGrows
  <2> HIDE DEF u
  <2>6. risks' = risks \/ Writes(i, u)
      BY <2>1, <2>3, <2>5 DEF Writes
  <2> QED
      BY <2>4, <2>6, <2>8 DEF OutsideIs, i
<1>3. ASSUME NEW i \in DOMAIN risks, SweepEscalates(i) \/ Comment(i) PROVE OutsideIs
  <2>1. \E s \in { "ESCALATED", "IN_REMEDIATION" }, b \in BOOLEAN :
            /\ s = IF SweepEscalates(i) THEN "ESCALATED" ELSE "IN_REMEDIATION"
            /\ risks' = [ risks EXCEPT ![i] = [ risks[i] EXCEPT !.status = s, !.swept = b ] ]
    <3>1. risks[i] = [ risks[i] EXCEPT !.swept = risks[i].swept ] /\ risks[i].swept \in BOOLEAN
        BY <1>1 DEF Risk
    <3>2. CASE SweepEscalates(i)
      <4>1. risks' = [ risks EXCEPT ![i] = [ risks[i] EXCEPT !.status = "ESCALATED", !.swept = TRUE ] ]
          BY <1>1, <3>2 DEF SweepEscalates
      <4> QED
          BY <3>2, <4>1
    <3>3. CASE Comment(i) /\ ~SweepEscalates(i)
      <4>1. risks' = [ risks EXCEPT ![i] = [ risks[i] EXCEPT !.status = "IN_REMEDIATION" ] ]
          BY <1>1, <3>3 DEF Comment
      <4>2. [ risks[i] EXCEPT !.status = "IN_REMEDIATION" ]
              = [ risks[i] EXCEPT !.status = "IN_REMEDIATION", !.swept = risks[i].swept ]
          BY <1>1 DEF Risk
      <4> QED
          BY <3>1, <3>3, <4>1, <4>2
    <3> QED
        BY <1>3, <3>2, <3>3
  <2>2. PICK s \in { "ESCALATED", "IN_REMEDIATION" }, b \in BOOLEAN :
            /\ s = IF SweepEscalates(i) THEN "ESCALATED" ELSE "IN_REMEDIATION"
            /\ risks' = [ risks EXCEPT ![i] = [ risks[i] EXCEPT !.status = s, !.swept = b ] ]
      BY <2>1
  <2> DEFINE u == [ risks[i] EXCEPT !.status = s, !.swept = b ]
  <2>3. /\ u \in Risk /\ u.of = risks[i].of /\ u.register = risks[i].register
        /\ u.number = risks[i].number /\ u.second = risks[i].second /\ u.status = s
        /\ u.marked = risks[i].marked /\ u.assessments = risks[i].assessments
        /\ u.planDone = risks[i].planDone
      BY <1>1 DEF Risk, RiskStatuses
  <2> HIDE DEF u
  <2>4. Writes(i, u)
      BY <2>2, <2>3 DEF Writes, u
  <2>5. Swept(i, u)
    <3>1. risks[i].marked \in Nat
        BY <1>1 DEF Risk
    <3>2. \/ Comment(i) /\ s = "IN_REMEDIATION"
          \/ SweepEscalates(i) /\ s = "ESCALATED"
        BY <1>3, <2>2
    <3>3. CASE Comment(i) /\ s = "IN_REMEDIATION"
        BY <2>3, <3>3 DEF Comment, Swept
    <3>4. CASE SweepEscalates(i) /\ s = "ESCALATED"
      <4>1. /\ risks[i].status = "IN_REMEDIATION" /\ risks[i].of \in Overdue \cup LaterDue
            /\ ~(risks[i].marked > 0)
          BY <3>4, Zenon DEF SweepEscalates, HasOpenMarkerEscalation
      <4> QED
          BY <2>3, <3>1, <3>4, <4>1 DEF Swept
    <3> QED
        BY <3>2, <3>3, <3>4
  <2>6. UNCHANGED <<grants, sequence, creates, run, history, faults>> /\ late' = late
      BY <1>3 DEF SweepEscalates, Comment
  <2>7. \E j, v : /\ Writes(j, v) /\ late' = late
                  /\ v.marked = risks[j].marked /\ v.assessments = risks[j].assessments
                  /\ v.planDone = risks[j].planDone /\ Swept(j, v)
      BY <2>3, <2>4, <2>5, <2>6
  <2> QED
      BY <2>6, <2>7 DEF OutsideIs
<1> QED
    BY <1>2, <1>3

\* A person begins to create a risk, or a transaction takes its number.
BeginsByHand(c) ==
    /\ \E k \in Registers : BeginCreate(c, ByHand, k)
    /\ UNCHANGED <<risks, grants, sequence, late, run, history, faults>>

\* The tool stops waiting for its call.
Leaves ==
    /\ run' = Off /\ Fault
    /\ UNCHANGED <<risks, grants, sequence, creates, clean, crossed>>
    /\ \/ Work.on = "none" /\ UNCHANGED <<late, delayed>>
       \/ /\ delayed' = delayed \cup { Work.row } /\ Work.row \in Rows
          /\ \/ Work.on # "none" /\ late' = late
             \/ /\ Work # NoWork /\ IsRiskOf(Work.risk, Work.row)
                /\ \E what \in { "assessment", "escalation" } :
                      late' = late \cup { [ what |-> what, risk |-> Work.risk ] }

LEMMA LeavesIs ==
    ASSUME Types, Pointers, Stops \/ GivesUp
    PROVE  Leaves
<1>1. Work \in Job /\ (Work # NoWork => Work.row \in Rows) /\ (Work.on # "none" => Work # NoWork)
    BY OffIs DEF Types, RunStates, Work, Pointers
<1>2. CASE Stops
    BY <1>2 DEF Stops, Dies, Leaves, entity, history
<1>3. CASE GivesUp
  <2>1. /\ run' = Off /\ Fault /\ delayed' = delayed \cup { Work.row }
        /\ UNCHANGED <<risks, grants, sequence, creates, clean, crossed>>
      BY <1>3 DEF GivesUp, Dies
  <2>2. CASE Work.on # "none" /\ late' = late
      BY <1>1, <2>1, <2>2 DEF Leaves
  <2>3. CASE /\ Due("assess") \/ Due("escalate")
             /\ late' = late \cup { [ what |-> IF Due("assess") THEN "assessment" ELSE "escalation",
                                      risk |-> Work.risk ] }
    <3>1. Work # NoWork /\ Work.risk # 0
        BY <2>3, DueIs
    <3>2. IsRiskOf(Work.risk, Work.row)
        BY <3>1 DEF Pointers
    <3>3. \E what \in { "assessment", "escalation" } :
              late' = late \cup { [ what |-> what, risk |-> Work.risk ] }
        BY <2>3
    <3> QED
        BY <1>1, <2>1, <3>1, <3>2, <3>3 DEF Leaves
  <2> QED
      BY <1>3, <2>2, <2>3 DEF GivesUp
<1> QED
    BY <1>2, <1>3

\* The tool reads, or turns to its next row.
Turns == Start \/ CountRisks \/ SelectPage \/ Fetch \/ TakeRow \/ BeginVerify \/ Verify

LEMMA TurnsIs == Turns => UNCHANGED <<entity, delayed, crossed, faults>> /\ (Verify \/ clean' = clean)
BY DEF Turns, Start, CountRisks, SelectPage, Fetch, TakeRow, BeginVerify, Verify, history

LEMMA Steps ==
    ASSUME Types, Pointers, [Next]_vars
    PROVE  \/ UNCHANGED vars \/ Turns
           \/ CallOn(Work.risk)
           \/ RowLeft /\ Work.risk # 0 /\ UNCHANGED <<entity, history, faults>>
           \/ Leaves \/ OutsideIs
           \/ \E c \in Connections :
                 PostIs(c) \/ CommitIs(c) \/ RollbackIs(c) \/ BeginsByHand(c) \/ Reserve(c)
<1>1. ASSUME RowDone PROVE RowLeft /\ Work.risk # 0 /\ UNCHANGED <<entity, history, faults>>
  <2> DEFINE rest == run.todo \ { Work.row }
  <2>1. run \in RunStates /\ rest \in SUBSET Rows /\ run' = [ run EXCEPT !.todo = rest, !.work = NoWork ]
        /\ UNCHANGED <<entity, history, faults>>
      BY <1>1 DEF Types, RunStates, RowDone
  <2> HIDE DEF rest
  <2>2. /\ run' \in RunStates /\ run'.work = NoWork /\ run'.todo = rest
        /\ Kept
      BY <2>1, OffIs DEF RunStates, Kept
  <2> QED
      BY <1>1, <2>1, <2>2, DueIs DEF RowLeft, rest, RowDone
<1>2. \A c \in Connections : CreateByHand(c) => BeginsByHand(c)
    BY DEF CreateByHand, BeginsByHand
<1>3. \A c \in Connections : PostRisk(c) => PostIs(c)
    BY PostDoes
<1>4. \A c \in Connections : (Commit(c) => CommitIs(c)) /\ (Rollback(c) => RollbackIs(c))
    BY CommitDoes, RollbackDoes
<1>5. Call => CallOn(Work.risk)
    BY CallIs
<1>6. Stops \/ GivesUp => Leaves
    BY LeavesIs
<1>7. \/ UNCHANGED vars \/ Turns
      \/ Call \/ RowDone \/ Stops \/ GivesUp
      \/ (\E w \in late : Arrives(w)) \/ (\E i \in DOMAIN risks : SweepEscalates(i) \/ Comment(i))
      \/ \E c \in Connections :
            PostRisk(c) \/ Commit(c) \/ Rollback(c) \/ CreateByHand(c) \/ Reserve(c)
    BY DEF Next, Tool, Call, Turns
<1> QED
    BY <1>1, <1>2, <1>3, <1>4, <1>5, <1>6, <1>7, OutsideDoes

-----------------------------------------------------------------------------
(* The types, and whose risk is whose. *)

\* What is written of the risks table in a step.
LEMMA RisksNext ==
    ASSUME Types, Pointers, CreatesOK, [Next]_vars
    PROVE  \/ risks' = risks /\ sequence' = sequence
           \/ (\E i, u : Writes(i, u)) /\ sequence' = sequence
           \/ \E c \in Connections :
                 /\ CommitIs(c) /\ creates[c] \in Creation
                 /\ creates[c].register \in Registers /\ creates[c].number # 0
                 /\ creates[c].number = sequence[creates[c].register] + 1
<1>1. UNCHANGED vars => risks' = risks /\ sequence' = sequence
    BY DEF vars, entity
<1>2. Turns => risks' = risks /\ sequence' = sequence
    BY TurnsIs DEF entity
<1>3. CallOn(Work.risk) => sequence' = sequence /\ (risks' = risks \/ \E i, u : Writes(i, u))
    BY DEF CallOn
<1>4. Leaves \/ UNCHANGED <<entity, history, faults>> => risks' = risks /\ sequence' = sequence
    BY DEF Leaves, entity
<1>5. OutsideIs => sequence' = sequence /\ (risks' = risks \/ \E i, u : Writes(i, u))
    BY DEF OutsideIs
<1>6. ASSUME NEW c \in Connections
      PROVE  /\ PostIs(c) \/ RollbackIs(c) \/ BeginsByHand(c) \/ Reserve(c)
                   => risks' = risks /\ sequence' = sequence
             /\ CommitIs(c) =>
                   /\ creates[c] \in Creation
                   /\ creates[c].register \in Registers /\ creates[c].number # 0
                   /\ creates[c].number = sequence[creates[c].register] + 1
  <2>1. PostIs(c) \/ RollbackIs(c) \/ BeginsByHand(c) \/ Reserve(c) => risks' = risks /\ sequence' = sequence
      BY DEF PostIs, RollbackIs, BeginsByHand, Reserve
  <2>2. ASSUME CommitIs(c)
        PROVE  /\ creates[c] \in Creation
               /\ creates[c].register \in Registers /\ creates[c].number # 0
               /\ creates[c].number = sequence[creates[c].register] + 1
    <3>1. creates[c] \in Creation /\ creates[c].stage = "numbered" /\ creates[c] # NoCreate
        BY <2>2, NoCreateIs DEF CommitIs, Types
    <3>2. /\ creates[c].register \in Registers
          /\ creates[c].number = sequence[creates[c].register] + 1
        BY <3>1 DEF CreatesOK
    <3>3. sequence[creates[c].register] \in Nat
        BY <3>2 DEF Types
    <3> QED
        BY <3>1, <3>2, <3>3
  <2> QED
      BY <2>1, <2>2
<1> QED
    BY <1>1, <1>2, <1>3, <1>4, <1>5, <1>6, Steps

\* Risks are only added, and a risk stays its row's.
LEMMA RisksGrow ==
    ASSUME Types, Pointers, CreatesOK, [Next]_vars
    PROVE  /\ risks' \in Seq(Risk) /\ DOMAIN risks \subseteq DOMAIN risks'
           /\ sequence' \in [ Registers -> Nat ]
           /\ \A i, r : IsRiskOf(i, r) => IsRiskOf(i, r)'
           /\ \A i \in DOMAIN risks : risks'[i].second = risks[i].second
<1>0. risks \in Seq(Risk) /\ sequence \in [ Registers -> Nat ]
    BY DEF Types
<1>1. CASE risks' = risks /\ sequence' = sequence
    BY <1>0, <1>1 DEF IsRiskOf
<1>2. ASSUME NEW i, NEW u, Writes(i, u), sequence' = sequence
      PROVE  /\ risks' \in Seq(Risk) /\ DOMAIN risks \subseteq DOMAIN risks'
             /\ sequence' \in [ Registers -> Nat ]
             /\ \A j, r : IsRiskOf(j, r) => IsRiskOf(j, r)'
             /\ \A j \in DOMAIN risks : risks'[j].second = risks[j].second
    BY <1>0, <1>2, WritesIs DEF SameKeys, IsRiskOf
<1>3. ASSUME NEW c \in Connections, CommitIs(c), creates[c] \in Creation,
             creates[c].register \in Registers, creates[c].number # 0
      PROVE  /\ risks' \in Seq(Risk) /\ DOMAIN risks \subseteq DOMAIN risks'
             /\ sequence' \in [ Registers -> Nat ]
             /\ \A j, r : IsRiskOf(j, r) => IsRiskOf(j, r)'
             /\ \A j \in DOMAIN risks : risks'[j].second = risks[j].second
  <2>1. Inserted(creates[c])
      BY <1>3 DEF CommitIs
  <2>2. /\ risks' \in Seq(Risk) /\ DOMAIN risks \subseteq DOMAIN risks'
        /\ \A j \in DOMAIN risks : risks'[j] = risks[j]
      BY <1>0, <1>3, <2>1, InsertedIs
  <2>3. creates[c].number \in Nat
      BY <1>3 DEF Creation
  <2>4. sequence' \in [ Registers -> Nat ]
      BY <1>0, <2>1, <2>3 DEF Inserted
  <2> QED
      BY <2>2, <2>4 DEF IsRiskOf
<1> QED
    BY <1>1, <1>2, <1>3, RisksNext

\* What a step leaves of the run.
LEMMA RunNext ==
    ASSUME Types, Pointers, CreatesOK, [Next]_vars
    PROVE  /\ run' \in RunStates
           /\ \A r \in Rows :
                 /\ IsFiniteSet(run'.found[r]) /\ \A m \in run'.found[r] : IsRiskOf(m.id, r)
                 /\ \/ run'.resume[r] \in { Unread, run.resume[r] }
                    \/ run'.resume[r] = ResumeState(r)
           /\ run'.work # NoWork => run'.pc = "write" /\ run'.work.row \in run'.todo
           /\ run'.pc \in { "fetch", "verify" } => run'.todo # {}
           /\ run'.pc \in { "count", "select" } => run'.then \in { "fetch", "verify" }
           /\ run'.pc \notin { "count", "select" } => run'.offset = 0
           /\ run'.pc # "off" => Overdue \subseteq run'.cutoff
<1> DEFINE Listed == \A r \in Rows : IsFiniteSet(run'.found[r]) /\ \A m \in run'.found[r] : IsRiskOf(m.id, r)
           Read == \A r \in Rows : \/ run'.resume[r] \in { Unread, run.resume[r] }
                                   \/ run'.resume[r] = ResumeState(r)
           Goal ==
             /\ run' \in RunStates /\ Listed /\ Read
             /\ run'.work # NoWork => run'.pc = "write" /\ run'.work.row \in run'.todo
             /\ run'.pc \in { "fetch", "verify" } => run'.todo # {}
             /\ run'.pc \in { "count", "select" } => run'.then \in { "fetch", "verify" }
             /\ run'.pc \notin { "count", "select" } => run'.offset = 0
             /\ run'.pc # "off" => Overdue \subseteq run'.cutoff
<1>0. /\ run \in RunStates /\ Rows # {}
      /\ Work # NoWork => run.pc = "write" /\ Work.row \in run.todo
      /\ run.pc \in { "fetch", "verify" } => run.todo # {}
      /\ run.pc \in { "count", "select" } => run.then \in { "fetch", "verify" }
      /\ run.pc \notin { "count", "select" } => run.offset = 0
      /\ run.pc # "off" => Overdue \subseteq run.cutoff
    BY MigrationAssumption DEF Types, Pointers
<1>a. \A r \in Rows : IsFiniteSet(run.found[r]) /\ \A m \in run.found[r] : IsRiskOf(m.id, r)
    BY DEF Pointers
<1>b. run'.found = run.found => Listed
    BY <1>a
<1>c. (\A r \in Rows : run'.found[r] = {}) => Listed
    BY FS_EmptySet
<1>d. run'.resume = run.resume => Read
    OBVIOUS
<1> HIDE DEF Listed, Read
<1>1. run' = run => Goal
    BY <1>0, <1>b, <1>d DEF Work
<1>2. run' = Off => Goal
  <2> SUFFICES ASSUME run' = Off PROVE Goal
      OBVIOUS
  <2>1. Listed
      BY <1>c, OffIs
  <2>2. Read
      BY OffIs DEF Read
  <2> QED
      BY <2>1, <2>2, OffIs
<1>3. Start => Goal
  <2> SUFFICES ASSUME Start PROVE Goal
      OBVIOUS
  <2>1. Listed
      BY <1>c, StartIs
  <2>2. Read
      BY StartIs DEF Read
  <2> QED
      BY <2>1, <2>2, StartIs
<1>4. BeginVerify => Goal
    BY <1>0, <1>b, <1>d, BeginVerifyIs
<1>16. CountRisks => Goal
    BY <1>0, <1>b, <1>d, CountIs
<1>17. SelectPage => Goal
  <2> SUFFICES ASSUME SelectPage PROVE Goal
      OBVIOUS
  <2>1. PICK page \in PagesOf(DOMAIN risks, CreatedAt, run.offset, SearchLimit), last \in BOOLEAN :
            page \subseteq DOMAIN risks /\ Selected(page, last)
      BY SelectIs
  <2>2. Listed
    <3>1. ASSUME NEW r \in Rows
          PROVE  IsFiniteSet(run'.found[r]) /\ \A m \in run'.found[r] : IsRiskOf(m.id, r)
      <4>1. run'.found[r] = run.found[r] \cup MatchesOn(page, r)
          BY <2>1 DEF Selected
      <4>2. IsFiniteSet(MatchesOn(page, r)) /\ \A m \in MatchesOn(page, r) : IsRiskOf(m.id, r)
          BY <2>1, MatchesIs
      <4> QED
          BY <1>a, <4>1, <4>2, FS_Union
    <3> QED
        BY <3>1 DEF Listed
  <2>3. Read
      BY <1>d, <2>1 DEF Selected
  <2>4. last \/ ~last
      OBVIOUS
  <2>5. CASE last
      BY <1>0, <2>1, <2>2, <2>3, <2>5 DEF Selected
  <2>6. CASE ~last
      BY <1>0, <2>1, <2>2, <2>3, <2>6 DEF Selected
  <2> QED
      BY <2>5, <2>6
<1>5. Fetch => Goal
  <2> SUFFICES ASSUME Fetch PROVE Goal
      OBVIOUS
  <2>1. Work = NoWork /\ run.pc = "fetch"
      BY <1>0 DEF Fetch
  <2>2. Listed
    <3>1. \A r \in Rows : run'.found[r] = {} \/ run'.found[r] = run.found[r]
        BY FetchIs
    <3> QED
        BY <1>a, <3>1, FS_EmptySet DEF Listed
  <2>3. Read
      BY FetchIs DEF Read
  <2> QED
      BY <1>0, <2>1, <2>2, <2>3, FetchIs DEF Work
<1>6. TakeRow => Goal
  <2> SUFFICES ASSUME TakeRow PROVE Goal
      OBVIOUS
  <2>2. Listed /\ Read
      BY <1>b, TakeRowIs DEF Read
  <2> QED
      BY <1>0, <2>2, TakeRowIs DEF JobOf
<1>7. Verify => Goal
  <2> SUFFICES ASSUME Verify PROVE Goal
      OBVIOUS
  <2>1. CASE run' = Off
      BY <1>2, <2>1
  <2>2. CASE /\ run' \in RunStates /\ run'.pc = "verify" /\ run'.work = NoWork
             /\ run'.todo # {} /\ run'.resume = run.resume
             /\ run'.cutoff = run.cutoff /\ run'.then = run.then /\ run'.offset = run.offset
             /\ \A r \in Rows : run'.found[r] \in { {}, run.found[r] }
    <3>1. Listed
        BY <1>a, <2>2, FS_EmptySet DEF Listed
    <3>2. Read /\ run.pc = "verify"
        BY <1>d, <2>2 DEF Verify
    <3> QED
        BY <1>0, <2>2, <3>1, <3>2
  <2> QED
      BY <2>1, <2>2, VerifyIs
<1>8. \A w \in Job : JobTo(w) /\ Work # NoWork /\ w.row = Work.row => Goal
    BY <1>0, <1>b, <1>d DEF JobTo, Kept
<1>9. RowLeft => Goal
  <2> SUFFICES ASSUME RowLeft PROVE Goal
      OBVIOUS
  <2>1. run.pc \in { "fetch", "verify" } => Work = NoWork /\ run.todo \ { Work.row } # {}
    <3>1. run.pc \in { "fetch", "verify" } => Work = NoWork
        BY <1>0
    <3>2. NoWork.row \notin Rows
        BY MigrationAssumption, OffIs
    <3> QED
        BY <1>0, <3>1, <3>2 DEF RunStates
  <2> QED
      BY <1>0, <1>b, <1>d, <2>1 DEF RowLeft, Kept
<1> HIDE DEF Goal
<1>10. CallOn(Work.risk) => Goal
    BY <1>2, <1>8, <1>9 DEF CallOn
<1>11. \A c \in Connections : CommitIs(c) => Goal
  <2> SUFFICES ASSUME NEW c \in Connections, CommitIs(c) PROVE Goal
      OBVIOUS
  <2>1. Work.on = c => Work # NoWork
      BY OffIs, MigrationAssumption
  <2> QED
      BY <1>1, <1>2, <1>8, <2>1 DEF CommitIs
<1>12. \A c \in Connections : PostIs(c) \/ RollbackIs(c) \/ BeginsByHand(c) \/ Reserve(c) => Goal
    BY <1>1, <1>2, <1>8, <1>9 DEF PostIs, RollbackIs, BeginsByHand, Reserve
<1>13. UNCHANGED vars \/ OutsideIs => run' = run
    BY DEF vars, OutsideIs
<1>14. Leaves => run' = Off
    BY DEF Leaves
<1>18. Turns => Goal
    BY <1>3, <1>4, <1>5, <1>6, <1>7, <1>16, <1>17 DEF Turns
<1>15. Goal
    BY <1>1, <1>2, <1>9, <1>10, <1>11, <1>12, <1>13, <1>14, <1>18, Steps
<1> QED
    BY <1>15 DEF Goal, Listed, Read

\* The seconds are numbers.
LEMMA ReserveIs ==
    ASSUME Types, NEW c \in Connections, Reserve(c)
    PROVE  /\ \E s \in Nat :
                creates' = [ creates EXCEPT ![c] =
                    [ creates[c] EXCEPT !.stage = "numbered", !.second = s,
                                        !.number = sequence[creates[c].register] + 1 ] ]
           /\ faults' = faults \/ Fault
<1>1. \A i \in DOMAIN risks : risks[i].second \in Nat
    BY RisksAre, RiskFields DEF Types
<1>2. \A d \in Connections : creates[d].second \in Nat
    BY DEF Types, Creation
<1>3. Seconds \subseteq Nat
    BY <1>1, <1>2 DEF Seconds
<1>4. Seconds \cup { t + 1 : t \in Seconds \cup { 0 } } \subseteq Nat
  <2>1. \A t \in Seconds \cup { 0 } : t + 1 \in Nat
      BY <1>3
  <2> QED
      BY <1>3, <2>1
<1>5. PICK s \in Seconds \cup { t + 1 : t \in Seconds \cup { 0 } } :
          /\ IF s \in Seconds THEN Fault ELSE UNCHANGED faults
          /\ creates' = [ creates EXCEPT ![c].stage = "numbered", ![c].second = s,
                                         ![c].number = sequence[creates[c].register] + 1 ]
    BY Zenon DEF Reserve
<1>6. creates' = [ creates EXCEPT ![c] =
                    [ creates[c] EXCEPT !.stage = "numbered", !.second = s,
                                        !.number = sequence[creates[c].register] + 1 ] ]
    BY <1>5 DEF Types, Creation
<1>7. faults' = faults \/ Fault
    BY <1>5
<1> QED
    BY <1>4, <1>5, <1>6, <1>7

\* What becomes of the transactions.
LEMMA CreatesNext ==
    ASSUME Types, Pointers, CreatesOK, [Next]_vars
    PROVE  \/ creates' = creates
           \/ \E c \in Connections, t \in Creation :
                 /\ creates' = [ creates EXCEPT ![c] = t ]
                 /\ \/ t = NoCreate /\ CommitIs(c)
                    \/ t = NoCreate /\ RollbackIs(c)
                    \/ /\ creates[c] = NoCreate /\ t.stage = "checked" /\ t.register \in Registers
                       /\ t.number = 0 /\ BeginsByHand(c) /\ t.of = ByHand
                    \/ /\ creates[c] = NoCreate /\ t.stage = "checked" /\ t.register \in Registers
                       /\ t.number = 0 /\ PostIs(c) /\ t.of = Work.row /\ Work.row \in Rows
                    \/ /\ creates[c].stage = "checked" /\ t.stage = "numbered" /\ t.of = creates[c].of
                       /\ t.register \in Registers /\ t.register = creates[c].register
                       /\ t.number = sequence[t.register] + 1 /\ ~Locked(t.register) /\ Reserve(c)
<1> DEFINE Goal ==
       \/ creates' = creates
       \/ \E c \in Connections, t \in Creation :
             /\ creates' = [ creates EXCEPT ![c] = t ]
             /\ \/ t = NoCreate /\ CommitIs(c)
                \/ t = NoCreate /\ RollbackIs(c)
                \/ /\ creates[c] = NoCreate /\ t.stage = "checked" /\ t.register \in Registers
                   /\ t.number = 0 /\ BeginsByHand(c) /\ t.of = ByHand
                \/ /\ creates[c] = NoCreate /\ t.stage = "checked" /\ t.register \in Registers
                   /\ t.number = 0 /\ PostIs(c) /\ t.of = Work.row /\ Work.row \in Rows
                \/ /\ creates[c].stage = "checked" /\ t.stage = "numbered" /\ t.of = creates[c].of
                   /\ t.register \in Registers /\ t.register = creates[c].register
                   /\ t.number = sequence[t.register] + 1 /\ ~Locked(t.register) /\ Reserve(c)
<1>0. creates \in [ Connections -> Creation ] /\ run \in RunStates /\ sequence \in [ Registers -> Nat ]
    BY DEF Types
<1>1. CASE creates' = creates
    BY <1>1
<1>2. ASSUME NEW c \in Connections, CommitIs(c) \/ RollbackIs(c) PROVE Goal
    BY <1>2, NoCreateIs DEF CommitIs, RollbackIs
<1>3. ASSUME NEW c \in Connections, BeginsByHand(c) PROVE Goal
  <2>1. PICK k \in Registers : BeginCreate(c, ByHand, k)
      BY <1>3 DEF BeginsByHand
  <2> DEFINE t == [ of |-> ByHand, register |-> k, stage |-> "checked", number |-> 0, second |-> 0 ]
  <2>2. t \in Creation /\ t.stage = "checked" /\ t.register \in Registers /\ t.number = 0 /\ t.of = ByHand
      BY DEF Creation
  <2>3. creates[c] = NoCreate /\ creates' = [ creates EXCEPT ![c] = t ]
      BY <2>1 DEF BeginCreate, Idle
  <2> HIDE DEF t
  <2> QED
      BY <1>3, <2>2, <2>3
<1>4. ASSUME NEW c \in Connections, PostIs(c) PROVE Goal
  <2> DEFINE t == [ of |-> Work.row, register |-> RegisterOf(Work.row), stage |-> "checked", number |-> 0, second |-> 0 ]
  <2>1. Work.row \in Rows
      BY <1>4 DEF PostIs, Pointers, Types, RunStates
  <2>2. RegisterOf(Work.row) \in Registers
      BY <2>1, MigrationAssumption
  <2>3. t \in Creation /\ t.stage = "checked" /\ t.register \in Registers /\ t.number = 0 /\ t.of = Work.row
      BY <2>1, <2>2 DEF Creation
  <2>4. creates[c] = NoCreate /\ creates' = [ creates EXCEPT ![c] = t ]
      BY <1>4 DEF PostIs, Idle
  <2> HIDE DEF t
  <2> QED
      BY <1>4, <2>1, <2>3, <2>4
<1>5. ASSUME NEW c \in Connections, Reserve(c) PROVE Goal
  <2> DEFINE n == sequence[creates[c].register] + 1
             t(s) == [ creates[c] EXCEPT !.stage = "numbered", !.second = s, !.number = n ]
  <2>1. creates[c] \in Creation /\ creates[c].stage = "checked" /\ ~Locked(creates[c].register)
      BY <1>0, <1>5 DEF Reserve
  <2>2. creates[c].register \in Registers
      BY <2>1, NoCreateIs DEF CreatesOK
  <2>3. n \in Nat
      BY <1>0, <2>2
  <2>4. PICK s \in Nat : creates' = [ creates EXCEPT ![c] = t(s) ]
      BY <1>0, <1>5, ReserveIs
  <2> DEFINE u == t(s)
  <2> HIDE DEF n
  <2>5. /\ u \in Creation /\ u.stage = "numbered" /\ u.of = creates[c].of
        /\ u.register = creates[c].register /\ u.number = n
      BY <2>1, <2>3 DEF Creation
  <2>6. creates' = [ creates EXCEPT ![c] = u ]
      BY <2>4
  <2> HIDE DEF u
  <2> QED
      BY <1>5, <2>1, <2>2, <2>5, <2>6 DEF n
<1> HIDE DEF Goal
<1>6. \/ creates' = creates
      \/ \E c \in Connections :
            CommitIs(c) \/ RollbackIs(c) \/ BeginsByHand(c) \/ PostIs(c) \/ Reserve(c)
  <2>1. UNCHANGED vars => creates' = creates
      BY DEF vars, entity
  <2>2. Turns => creates' = creates
      BY TurnsIs DEF entity
  <2>3. CallOn(Work.risk) \/ Leaves \/ OutsideIs => creates' = creates
      BY DEF CallOn, Leaves, OutsideIs
  <2>4. UNCHANGED <<entity, history, faults>> => creates' = creates
      BY DEF entity
  <2> QED
      BY <2>1, <2>2, <2>3, <2>4, Steps
<1>7. creates' = creates => Goal
    BY DEF Goal
<1>8. Goal
    BY <1>2, <1>3, <1>4, <1>5, <1>6, <1>7
<1> QED
    BY <1>8 DEF Goal

LEMMA CreatesTypes ==
    ASSUME Types, Pointers, CreatesOK, [Next]_vars
    PROVE  creates' \in [ Connections -> Creation ] /\ CreatesOK'
<1>0. creates \in [ Connections -> Creation ] /\ sequence \in [ Registers -> Nat ]
    BY DEF Types
<1>1. CASE creates' = creates
  <2>1. sequence' = sequence
    <3>1. ASSUME NEW c \in Connections, CommitIs(c) PROVE FALSE
      <4>1. creates'[c] = NoCreate /\ creates[c].stage = "numbered"
          BY <1>0, <3>1 DEF CommitIs
      <4> QED
          BY <1>1, <4>1, NoCreateIs
    <3> QED
        BY <3>1, RisksNext
  <2> QED
      BY <1>0, <1>1, <2>1 DEF CreatesOK
<1>2. ASSUME NEW c \in Connections, NEW t \in Creation,
             creates' = [ creates EXCEPT ![c] = t ],
             \/ t = NoCreate /\ CommitIs(c)
             \/ t = NoCreate /\ RollbackIs(c)
             \/ t.stage = "checked" /\ t.register \in Registers /\ (BeginsByHand(c) \/ PostIs(c))
             \/ /\ t.stage = "numbered" /\ t.register \in Registers
                /\ t.number = sequence[t.register] + 1 /\ ~Locked(t.register) /\ Reserve(c)
      PROVE  creates' \in [ Connections -> Creation ] /\ CreatesOK'
  <2>1. creates' \in [ Connections -> Creation ]
        /\ creates'[c] = t /\ \A d \in Connections : d # c => creates'[d] = creates[d]
      BY <1>0, <1>2
  <2>2. CASE t = NoCreate /\ CommitIs(c)
    <3> DEFINE k == creates[c].register
    <3>1. creates[c].stage = "numbered" /\ k \in Registers
        BY <2>2, NoCreateIs DEF CommitIs, CreatesOK
    <3>2. sequence' = [ sequence EXCEPT ![k] = creates[c].number ]
        BY <2>2 DEF CommitIs, Inserted
    <3>3. \A d \in Connections : d # c /\ creates[d].stage = "numbered" =>
             creates[d].register # k /\ creates[d].register \in Registers
        BY <3>1, NoCreateIs DEF CreatesOK
    <3>4. \A d \in Connections : d # c /\ creates[d].stage = "numbered" =>
             sequence'[creates[d].register] = sequence[creates[d].register]
        BY <1>0, <3>2, <3>3
    <3> QED
        BY <2>1, <2>2, <3>4, NoCreateIs DEF CreatesOK
  <2>3. CASE ~CommitIs(c)
    <3>1. sequence' = sequence
        BY <1>2, <2>3 DEF RollbackIs, BeginsByHand, PostIs, Reserve
    <3>2. t = NoCreate \/ (t.stage \in { "checked", "numbered" } /\ t.register \in Registers)
        BY <1>2, <2>3
    <3>3. ASSUME t.stage = "numbered"
          PROVE  /\ t.number = sequence[t.register] + 1
                 /\ \A d \in Connections : d # c /\ creates[d].stage = "numbered" =>
                       creates[d].register # t.register
        BY <1>2, <2>3, <3>3, NoCreateIs DEF Locked
    <3> QED
        BY <2>1, <3>1, <3>2, <3>3 DEF CreatesOK
  <2>4. CommitIs(c) => t = NoCreate
      BY <1>0, <2>1 DEF CommitIs
  <2> QED
      BY <2>2, <2>3, <2>4
<1> QED
    BY <1>1, <1>2, CreatesNext

LEMMA TypesNext ==
    ASSUME Types, Pointers, CreatesOK, [Next]_vars
    PROVE  Types'
<1> DEFINE L == [ what : { "assessment", "escalation" }, risk : DOMAIN risks ]
<1>0. /\ grants \subseteq Grants /\ late \subseteq L /\ clean \subseteq SUBSET Rows
      /\ delayed \subseteq Rows /\ crossed \subseteq Rows /\ faults \in 0..MaxFaults
    BY DEF Types
<1>1. grants' \subseteq Grants /\ clean' \subseteq SUBSET Rows /\ delayed' \subseteq Rows /\ crossed' \subseteq Rows
      /\ late' \subseteq L /\ faults' \in 0..MaxFaults
  <2>1. CASE UNCHANGED vars
      BY <1>0, <2>1 DEF vars, entity, history
  <2>2. CASE Turns /\ ~Verify
      BY <1>0, <2>2, TurnsIs DEF entity
  <2>3. CASE Verify
    <3>1. clean' \subseteq SUBSET Rows
      <4>1. run.cutoff \in SUBSET Rows
          BY DEF Types, RunStates
      <4> QED
          BY <1>0, <2>3, <4>1, VerifyIs
    <3> QED
        BY <1>0, <2>3, <3>1, TurnsIs DEF Turns, entity
  <2>4. CASE CallOn(Work.risk)
      BY <1>0, <2>4, FaultIs DEF CallOn, history
  <2>5. CASE RowLeft /\ UNCHANGED <<entity, history, faults>>
      BY <1>0, <2>5 DEF entity, history
  <2>6. CASE Leaves
    <3>1. \A what \in { "assessment", "escalation" } :
             Work.risk \in DOMAIN risks => [ what |-> what, risk |-> Work.risk ] \in L
        OBVIOUS
    <3>2. late' \subseteq L
        BY <1>0, <2>6, <3>1 DEF Leaves, IsRiskOf
    <3>3. delayed' \subseteq Rows
        BY <1>0, <2>6 DEF Leaves
    <3>4. faults' \in 0..MaxFaults
        BY <2>6, FaultIs DEF Leaves
    <3> QED
        BY <1>0, <2>6, <3>2, <3>3, <3>4 DEF Leaves
  <2>7. CASE OutsideIs
      BY <1>0, <2>7 DEF OutsideIs, history
  <2>8. ASSUME NEW c \in Connections, PostIs(c) \/ BeginsByHand(c) \/ Reserve(c)
        PROVE  /\ grants' \subseteq Grants /\ clean' \subseteq SUBSET Rows /\ delayed' \subseteq Rows /\ crossed' \subseteq Rows
               /\ late' \subseteq L /\ faults' \in 0..MaxFaults
    <3>1. faults' \in 0..MaxFaults
        BY <1>0, <2>8, FaultIs, ReserveIs DEF PostIs, BeginsByHand
    <3> QED
        BY <1>0, <2>8, <3>1 DEF PostIs, BeginsByHand, Reserve, history
  <2>9. ASSUME NEW c \in Connections, CommitIs(c) \/ RollbackIs(c)
        PROVE  /\ grants' \subseteq Grants /\ clean' \subseteq SUBSET Rows /\ delayed' \subseteq Rows /\ crossed' \subseteq Rows
               /\ late' \subseteq L /\ faults' \in 0..MaxFaults
    <3>1. faults' \in 0..MaxFaults
        BY <2>9, FaultIs DEF CommitIs, RollbackIs
    <3> QED
        BY <1>0, <2>9, <3>1 DEF CommitIs, RollbackIs, history, Unseen
  <2> HIDE DEF L
  <2> QED
      BY <2>1, <2>2, <2>3, <2>4, <2>5, <2>6, <2>7, <2>8, <2>9, Steps
<1>2. L \subseteq [ what : { "assessment", "escalation" }, risk : DOMAIN risks' ]
    BY RisksGrow
<1>3. late' \subseteq [ what : { "assessment", "escalation" }, risk : DOMAIN risks' ]
    BY <1>1, <1>2
<1>4. creates' \in [ Connections -> Creation ] /\ run' \in RunStates
    BY CreatesTypes, RunNext
<1>5. risks' \in Seq(Risk) /\ sequence' \in [ Registers -> Nat ]
    BY RisksGrow
<1> HIDE DEF L
<1> QED
    BY <1>1, <1>3, <1>4, <1>5 DEF Types

LEMMA CleanNext ==
    ASSUME Types, Pointers, CreatesOK, [Next]_vars
    PROVE  clean \subseteq clean' /\ \A cutoff \in clean' : Overdue \subseteq cutoff
<1>1. \A cutoff \in clean : Overdue \subseteq cutoff
    BY DEF Pointers
<1>2. clean' = clean \/ Verify
  <2>1. UNCHANGED vars => clean' = clean
      BY DEF vars, history
  <2>2. Turns => clean' = clean \/ Verify
      BY TurnsIs
  <2>3. CallOn(Work.risk) \/ Leaves \/ OutsideIs \/ UNCHANGED <<entity, history, faults>> => clean' = clean
      BY DEF CallOn, Leaves, OutsideIs, history
  <2>4. \A c \in Connections :
           PostIs(c) \/ CommitIs(c) \/ RollbackIs(c) \/ BeginsByHand(c) \/ Reserve(c) => clean' = clean
      BY DEF PostIs, CommitIs, RollbackIs, BeginsByHand, Reserve, history
  <2> QED
      BY <2>1, <2>2, <2>3, <2>4, Steps
<1>3. ASSUME Verify
      PROVE  clean \subseteq clean' /\ \A cutoff \in clean' : Overdue \subseteq cutoff
  <2>1. Overdue \subseteq run.cutoff
      BY <1>3 DEF Pointers, Verify
  <2>2. clean' = clean \/ clean' = clean \cup { run.cutoff }
      BY <1>3, VerifyIs
  <2> QED
      BY <1>1, <2>1, <2>2
<1> QED
    BY <1>1, <1>2, <1>3

LEMMA PointersNext ==
    ASSUME Types, Pointers, CreatesOK, [Next]_vars
    PROVE  Pointers'
<1>0. run \in RunStates /\ creates \in [ Connections -> Creation ] /\ "none" \notin Connections
    BY MigrationAssumption DEF Types
<1>1. \A i, r : IsRiskOf(i, r) => IsRiskOf(i, r)'
    BY RisksGrow
<1>2. ASSUME NEW r \in Rows
      PROVE  /\ IsFiniteSet(run'.found[r]) /\ \A m \in run'.found[r] : IsRiskOf(m.id, r)
             /\ \A i : run'.resume[r].risk = i /\ i # 0 => IsRiskOf(i, r)
  <2>1. IsFiniteSet(run'.found[r]) /\ \A m \in run'.found[r] : IsRiskOf(m.id, r)
      BY RunNext
  <2>2. \A i : run'.resume[r].risk = i /\ i # 0 => IsRiskOf(i, r)
      BY RunNext, ResumeIs, OffIs DEF Pointers
  <2> QED
      BY <2>1, <2>2
<1>3. /\ run'.work # NoWork => run'.pc = "write" /\ run'.work.row \in run'.todo
      /\ run'.pc \in { "fetch", "verify" } => run'.todo # {}
      /\ run'.pc \in { "count", "select" } => run'.then \in { "fetch", "verify" }
      /\ run'.pc \notin { "count", "select" } => run'.offset = 0
      /\ run'.pc # "off" => Overdue \subseteq run'.cutoff
    BY RunNext
<1>7. \A cutoff \in clean' : Overdue \subseteq cutoff
    BY CleanNext
<1>4. run'.todo # {} => Min(run'.todo) \in run'.todo
  <2>1. run'.todo \in SUBSET Rows
      BY RunNext DEF RunStates
  <2> QED
      BY <2>1, FirstIs
\* The job in hand.
<1> DEFINE Goal ==
       /\ \A i, r : run'.work.risk = i /\ i # 0 /\ run'.work.row = r => IsRiskOf(i, r)'
       /\ \A c \in Connections : run'.work.on = c =>
             creates'[c] # NoCreate /\ creates'[c].of = run'.work.row /\ run'.work.risk = 0
<1>5. Goal
  <2>0. /\ \A i, r : Work.risk = i /\ i # 0 /\ Work.row = r => IsRiskOf(i, r)
        /\ \A c \in Connections : Work.on = c =>
              creates[c] # NoCreate /\ creates[c].of = Work.row /\ Work.risk = 0
      BY DEF Pointers
  <2>1. run'.work = NoWork => Goal
      BY <1>0, OffIs
  <2>2. ASSUME run'.work.row = Work.row, run'.work.risk = Work.risk, run'.work.on = Work.on,
               \A c \in Connections : Work.on = c => creates'[c] = creates[c]
        PROVE  Goal
    <3>1. \A i, r : run'.work.risk = i /\ i # 0 /\ run'.work.row = r => IsRiskOf(i, r)'
        BY <1>1, <2>0, <2>2
    <3>2. \A c \in Connections : run'.work.on = c =>
             creates'[c] # NoCreate /\ creates'[c].of = run'.work.row /\ run'.work.risk = 0
        BY <2>0, <2>2
    <3> QED
        BY <3>1, <3>2
  <2>3. CASE UNCHANGED vars \/ OutsideIs \/ Fetch
    <3>1. run'.work = run.work /\ creates' = creates
        BY <2>3, FetchIs DEF vars, entity, OutsideIs, Fetch
    <3> HIDE DEF Goal
    <3> QED
        BY <2>2, <3>1 DEF Work
  <2>4. CASE Start \/ CountRisks \/ SelectPage \/ BeginVerify \/ Verify \/ Leaves \/ RowLeft
    <3>1. run'.work = NoWork
        BY <2>4, StartIs, CountIs, SelectIs, BeginVerifyIs, VerifyIs, OffIs DEF Leaves, RowLeft, Selected
    <3> QED
        BY <2>1, <3>1
  <2>5. CASE TakeRow
    <3>1. run'.work = NoWork \/ run'.work = JobOf(First)
        BY <2>5, TakeRowIs
    <3>2. First \in Rows
        BY <1>0, <2>5, TakeRowIs DEF RunStates
    <3>3. \A i, r : r = First /\ run.resume[First].risk = i /\ i # 0 => IsRiskOf(i, r)'
        BY <1>1, <3>2 DEF Pointers
    <3>4. /\ JobOf(First).risk = run.resume[First].risk /\ JobOf(First).row = First
          /\ JobOf(First).on = "none"
        BY DEF JobOf
    <3>5. run'.work = JobOf(First) => Goal
        BY <1>0, <3>3, <3>4
    <3> HIDE DEF Goal
    <3> QED
        BY <2>1, <3>1, <3>5
  <2>6. CASE CallOn(Work.risk)
    <3>1. \/ run'.work = NoWork
          \/ run'.work.row = Work.row /\ run'.work.risk = Work.risk /\ run'.work.on = Work.on
        BY <2>6, OffIs DEF CallOn, RowLeft, JobTo
    <3>2. creates' = creates
        BY <2>6 DEF CallOn
    <3> HIDE DEF Goal
    <3> QED
        BY <2>1, <2>2, <3>1, <3>2
  <2>7. ASSUME NEW c \in Connections, CommitIs(c) PROVE Goal
    <3>1. CASE Work.on # c /\ run' = run
      <4>1. run'.work = Work /\ \A d \in Connections : Work.on = d => creates'[d] = creates[d]
          BY <1>0, <2>7, <3>1 DEF CommitIs, Work
      <4> HIDE DEF Goal
      <4> QED
          BY <2>2, <4>1
    <3>2. CASE run' = Off
        BY <2>1, <3>2, OffIs
    <3>3. CASE /\ Work.on = c
               /\ \E w \in Job : JobTo(w) /\ w.row = Work.row /\ w.risk = Len(risks) + 1 /\ w.on = "none"
      <4>1. run'.work.row = Work.row /\ run'.work.risk = Len(risks) + 1 /\ run'.work.on = "none"
          BY <3>3 DEF JobTo
      <4>2. creates[c].of = Work.row /\ creates[c] # NoCreate
          BY <2>0, <3>3
      <4>3. creates[c].stage = "numbered" /\ creates[c].register \in Registers /\ creates[c] \in Creation
            /\ creates[c].number # 0 /\ Inserted(creates[c])
        <5>1. creates[c].stage = "numbered" /\ Inserted(creates[c])
            BY <2>7 DEF CommitIs
        <5>2. creates[c].register \in Registers /\ creates[c].number = sequence[creates[c].register] + 1
            BY <4>2, <5>1 DEF CreatesOK
        <5>3. creates[c] \in Creation /\ sequence[creates[c].register] \in Nat
            BY <1>0, <5>2 DEF Types
        <5> QED
            BY <5>1, <5>2, <5>3
      <4>4. Len(risks) + 1 \in DOMAIN risks' /\ risks'[Len(risks) + 1].of = Work.row
          BY <4>2, <4>3, InsertedIs DEF Types
      <4>5. \A i, r : run'.work.risk = i /\ i # 0 /\ run'.work.row = r => IsRiskOf(i, r)'
          BY <4>1, <4>4 DEF IsRiskOf
      <4> QED
          BY <1>0, <4>1, <4>5
    <3> HIDE DEF Goal
    <3> QED
        BY <2>7, <3>1, <3>2, <3>3 DEF CommitIs
  <2>8. ASSUME NEW c \in Connections, RollbackIs(c) PROVE Goal
    <3>1. CASE Work.on # c /\ run' = run
      <4>1. run'.work = Work /\ \A d \in Connections : Work.on = d => creates'[d] = creates[d]
          BY <1>0, <2>8, <3>1 DEF RollbackIs, Work
      <4> HIDE DEF Goal
      <4> QED
          BY <2>2, <4>1
    <3>2. CASE run' = Off \/ RowLeft
        BY <2>1, <3>2, OffIs DEF RowLeft
    <3> HIDE DEF Goal
    <3> QED
        BY <2>8, <3>1, <3>2 DEF RollbackIs
  <2>9. ASSUME NEW c \in Connections, BeginsByHand(c) \/ Reserve(c) PROVE Goal
    <3>1. run' = run
        BY <2>9 DEF BeginsByHand, Reserve
    <3>2. \A d \in Connections : d # c => creates'[d] = creates[d]
        BY <1>0, <2>9, ReserveIs DEF BeginsByHand, BeginCreate
    <3>3. CASE Work.on # c
        BY <2>2, <3>1, <3>2, <3>3 DEF Work
    <3>4. CASE Work.on = c
      <4>1. creates[c] # NoCreate /\ creates[c].of = Work.row /\ Work.risk = 0
          BY <2>0, <3>4
      <4>2. Reserve(c)
          BY <2>9, <4>1 DEF BeginsByHand, BeginCreate, Idle
      <4>3. creates'[c].stage = "numbered" /\ creates'[c].of = creates[c].of
        <5>1. creates \in [ Connections -> Creation ] /\ creates[c] \in Creation
            BY <1>0 DEF Types
        <5>2. PICK s \in Nat : creates' = [ creates EXCEPT ![c] =
                    [ creates[c] EXCEPT !.stage = "numbered", !.second = s,
                                        !.number = sequence[creates[c].register] + 1 ] ]
            BY <1>0, <4>2, ReserveIs
        <5> QED
            BY <5>1, <5>2 DEF Creation
      <4>4. creates'[c] # NoCreate
          BY <4>3, NoCreateIs
      <4>5. run'.work = Work
          BY <3>1 DEF Work
      <4> QED
          BY <2>0, <3>4, <4>1, <4>3, <4>4, <4>5
    <3> QED
        BY <3>3, <3>4
  <2>10. ASSUME NEW c \in Connections, PostIs(c) PROVE Goal
    <3>1. PICK t \in Creation : creates' = [ creates EXCEPT ![c] = t ] /\ t.stage = "checked" /\ t.of = Work.row
      <4>1. \E t \in Creation : creates' = [ creates EXCEPT ![c] = t ] /\ t.stage = "checked" /\ t.of = Work.row
        <5> DEFINE t == [ of |-> Work.row, register |-> RegisterOf(Work.row), stage |-> "checked", number |-> 0, second |-> 0 ]
        <5>1. Work.row \in Rows
            BY <1>0, <2>10 DEF PostIs, Pointers, RunStates
        <5>2. RegisterOf(Work.row) \in Registers
            BY <5>1, MigrationAssumption
        <5>3. t \in Creation /\ t.stage = "checked" /\ t.of = Work.row
            BY <5>1, <5>2 DEF Creation
        <5>4. creates' = [ creates EXCEPT ![c] = t ]
            BY <2>10 DEF PostIs
        <5> HIDE DEF t
        <5> QED
            BY <5>3, <5>4
      <4> QED
          BY <4>1
    <3>2. creates'[c] # NoCreate /\ creates'[c].of = Work.row
        BY <1>0, <3>1, NoCreateIs
    <3>3. run'.work.row = Work.row /\ run'.work.risk = 0 /\ run'.work.on = c
        BY <2>10 DEF PostIs, JobTo
    <3> QED
        BY <3>2, <3>3
  <2> HIDE DEF Goal
  <2> QED
      BY <2>3, <2>4, <2>5, <2>6, <2>7, <2>8, <2>9, <2>10, Steps DEF Turns
<1>6. \A r \in Rows :
         /\ IsFiniteSet(run'.found[r]) /\ \A m \in run'.found[r] : IsRiskOf(m.id, r)'
         /\ \A i : run'.resume[r].risk = i /\ i # 0 => IsRiskOf(i, r)'
  <2>1. ASSUME NEW r \in Rows, NEW m \in run'.found[r] PROVE IsRiskOf(m.id, r)'
      BY <1>1, <1>2 DEF IsRiskOf
  <2> QED
      BY <1>1, <1>2, <2>1
<1> QED
    BY <1>3, <1>4, <1>5, <1>6, <1>7 DEF Pointers, Work, First

-----------------------------------------------------------------------------
(* The numbers of the risks. *)

\* The counter has handed out as many numbers as there are risks of it.
Counted == \A k \in Registers :
              sequence[k] = Cardinality({ i \in DOMAIN risks : risks[i].register = k })

\* A risk's number has been taken from its counter.
Bounded == \A i \in DOMAIN risks : risks[i].number <= sequence[risks[i].register]

Base == Types /\ Pointers /\ CreatesOK /\ Counted /\ Bounded

LEMMA BaseInit ==
    ASSUME Init
    PROVE  Base
<1>1. risks \in Seq(Risk) /\ DOMAIN risks = {}
    BY DEF Init
<1>2. run \in RunStates /\ run.todo = {} /\ run.work = NoWork /\ run.pc = "off" /\ NoWork.on = "none"
      /\ run.offset = 0 /\ clean = {}
      /\ NoWork.risk = 0 /\ \A r \in Rows : run.found[r] = {} /\ run.resume[r].risk = 0
    BY OffIs DEF Init
<1>3. creates \in [ Connections -> Creation ] /\ \A c \in Connections : creates[c] = NoCreate
    BY NoCreateIs DEF Init
<1>4. Types
  <2>1. 0 \in 0..MaxFaults
      BY MigrationAssumption
  <2>2. sequence \in [ Registers -> Nat ]
      BY DEF Init
  <2>3. late = {} /\ grants = {} /\ clean = {} /\ delayed = {} /\ crossed = {} /\ faults = 0
      BY DEF Init
  <2> QED
      BY <1>1, <1>2, <1>3, <2>1, <2>2, <2>3 DEF Types
<1>5. Pointers
    BY <1>2, FS_EmptySet, MigrationAssumption DEF Pointers, Work
<1>6. CreatesOK
    BY <1>3, NoCreateIs DEF CreatesOK
<1>7. \A k \in Registers : { i \in DOMAIN risks : risks[i].register = k } = {} /\ sequence[k] = 0
    BY <1>1 DEF Init
<1>8. Counted
    BY <1>7, FS_EmptySet DEF Counted
<1> QED
    BY <1>1, <1>4, <1>5, <1>6, <1>8 DEF Base, Bounded

Issued == [ i \in DOMAIN risks |-> [ register |-> risks[i].register, number |-> risks[i].number ] ]

LEMMA BaseNext ==
    ASSUME Base, [Next]_vars
    PROVE  /\ Base'
           /\ \/ Issued' = Issued
              \/ \E k \in Registers :
                    Issued' = Append(Issued, [ register |-> k, number |-> sequence[k] + 1 ])
<1>0. Types /\ Pointers /\ CreatesOK /\ risks \in Seq(Risk) /\ sequence \in [ Registers -> Nat ]
    BY DEF Base, Types
<1> DEFINE Of(k)  == { i \in DOMAIN risks : risks[i].register = k }
           OfP(k) == { i \in DOMAIN risks' : risks'[i].register = k }
           Numbering  == \/ Issued' = Issued
                     \/ \E k \in Registers :
                           Issued' = Append(Issued, [ register |-> k, number |-> sequence[k] + 1 ])
<1>1. ASSUME risks' = risks, sequence' = sequence
      PROVE  Counted' /\ Bounded' /\ Issued' = Issued
    BY <1>1 DEF Base, Counted, Bounded, Issued
<1>2. ASSUME NEW i, NEW u, Writes(i, u), sequence' = sequence
      PROVE  Counted' /\ Bounded' /\ Issued' = Issued
  <2>1. SameKeys
      BY <1>0, <1>2, WritesIs
  <2>2. \A k \in Registers : OfP(k) = Of(k)
      BY <2>1 DEF SameKeys
  <2>3. Counted'
      BY <1>2, <2>2 DEF Base, Counted
  <2>4. Issued' = Issued
      BY <2>1 DEF SameKeys, Issued
  <2>5. Bounded'
      BY <1>2, <2>1 DEF Base, Bounded, SameKeys
  <2> QED
      BY <2>3, <2>4, <2>5
<1>3. ASSUME NEW c \in Connections, CommitIs(c), creates[c] \in Creation,
             creates[c].register \in Registers, creates[c].number # 0,
             creates[c].number = sequence[creates[c].register] + 1
      PROVE  Counted' /\ Bounded' /\ Numbering
  <2> DEFINE q == creates[c].register
             n == creates[c].number
             L == Len(risks)
  <2>1. Inserted(creates[c])
      BY <1>3 DEF CommitIs
  <2>2. /\ L \in Nat /\ DOMAIN risks = 1..L /\ DOMAIN risks' = 1..(L + 1)
        /\ \A j \in DOMAIN risks : risks'[j] = risks[j]
        /\ risks'[L + 1].register = q /\ risks'[L + 1].number = n
      BY <1>0, <1>3, <2>1, InsertedIs
  <2>3. sequence' = [ sequence EXCEPT ![q] = n ] /\ q \in Registers /\ n = sequence[q] + 1
      BY <1>3, <2>1 DEF Inserted
  <2>4. \A k \in Registers : IsFiniteSet(Of(k))
      BY <1>0, RisksAre, FS_Subset
  <2> HIDE DEF q, n, L
  <2>5. L + 1 \notin DOMAIN risks /\ DOMAIN risks' = DOMAIN risks \cup { L + 1 }
      BY <2>2
  <2>6. OfP(q) = Of(q) \cup { L + 1 } /\ L + 1 \notin Of(q)
      BY <2>2, <2>5
  <2>7. \A k \in Registers : k # q => OfP(k) = Of(k)
      BY <2>2, <2>5
  <2>8. Cardinality(OfP(q)) = Cardinality(Of(q)) + 1
      BY <2>3, <2>4, <2>6, FS_AddElement
  <2>9. Counted'
    <3>1. \A k \in Registers : sequence[k] = Cardinality(Of(k))
        BY DEF Base, Counted
    <3>2. \A k \in Registers : sequence'[k] = Cardinality(OfP(k))
        BY <1>0, <2>3, <2>7, <2>8, <3>1
    <3> QED
        BY <3>2 DEF Counted
  <2>11. Bounded'
    <3>1. ASSUME NEW i \in DOMAIN risks'
          PROVE  risks'[i].number <= sequence'[risks'[i].register]
      <4>1. CASE i = L + 1
          BY <1>0, <2>2, <2>3, <4>1
      <4>2. CASE i \in DOMAIN risks
        <5>1. risks'[i] = risks[i] /\ risks[i].register \in Registers /\ risks[i].number \in Nat
              /\ risks[i].number <= sequence[risks[i].register]
            BY <1>0, <2>2, <4>2, RisksAre, RiskFields DEF Base, Bounded
        <5>2. \A k \in Registers : sequence[k] \in Nat /\ sequence[k] <= sequence'[k] /\ sequence'[k] \in Nat
            BY <1>0, <2>3
        <5> QED
            BY <5>1, <5>2
      <4> QED
          BY <2>5, <4>1, <4>2
    <3> QED
        BY <3>1 DEF Bounded
  <2>10. Issued' = Append(Issued, [ register |-> q, number |-> sequence[q] + 1 ])
    <3> DEFINE e == [ register |-> q, number |-> n ]
               E == [ register : Registers, number : Nat ]
    <3>1. Issued \in Seq(E) /\ Len(Issued) = L
      <4>1. \A j \in DOMAIN risks : risks[j].register \in Registers /\ risks[j].number \in Nat
          BY <1>0, RisksAre, RiskFields
      <4>2. Issued \in [ 1..L -> E ]
          BY <2>2, <4>1 DEF Issued
      <4> QED
          BY <2>2, <4>2 DEF Issued
    <3>2. e \in E
        BY <1>0, <2>3
    <3> HIDE DEF E, e
    <3>3. /\ Append(Issued, e) \in Seq(E) /\ Len(Append(Issued, e)) = L + 1
          /\ \A j \in 1..L : Append(Issued, e)[j] = Issued[j]
          /\ Append(Issued, e)[L + 1] = e
        BY <3>1, <3>2, AppendProperties
    <3>4. Append(Issued, e) = [ j \in 1..(L + 1) |-> Append(Issued, e)[j] ]
        BY <2>2, <3>3, LenProperties
    <3>5. Issued' = [ j \in 1..(L + 1) |-> [ register |-> risks'[j].register, number |-> risks'[j].number ] ]
        BY <2>2 DEF Issued
    <3>6. \A j \in 1..(L + 1) : Append(Issued, e)[j]
             = [ register |-> risks'[j].register, number |-> risks'[j].number ]
      <4>1. \A j \in 1..L : Issued[j] = [ register |-> risks[j].register, number |-> risks[j].number ]
          BY <2>2 DEF Issued
      <4> QED
          BY <2>2, <3>3, <4>1 DEF e
    <3> QED
        BY <2>3, <3>4, <3>5, <3>6 DEF e
  <2> QED
      BY <2>3, <2>9, <2>10, <2>11
<1>4. Counted' /\ Bounded' /\ Numbering
  <2> HIDE DEF Numbering
  <2>1. Issued' = Issued => Numbering
      BY DEF Numbering
  <2> QED
      BY <1>0, <1>1, <1>2, <1>3, <2>1, RisksNext
<1>5. Types' /\ Pointers' /\ CreatesOK'
    BY <1>0, TypesNext, PointersNext, CreatesTypes
<1> QED
    BY <1>4, <1>5 DEF Base

\* Whoever creates risks and whichever transactions are rolled back, a
\* register's numbers are handed out in the order of the commits, none twice and
\* none left out (riskRepo.CreateRisk).
THEOREM ImportImplementsNumbers == Spec => ImplementsNumbers
<1>1. Init => Base /\ Numbers!Init
  <2>1. Init => Numbers!Init
      BY DEF Init, Numbers!Init
  <2> QED
      BY <2>1, BaseInit
<1>2. Base /\ [Next]_vars => Base' /\ [Numbers!Next]_Issued
  <2> SUFFICES ASSUME Base, [Next]_vars
               PROVE  Base' /\ [Numbers!Next]_Issued
      OBVIOUS
  <2>1. ASSUME NEW k \in Registers
        PROVE  Numbers!Issue(k)
                 <=> Issued' = Append(Issued, [ register |-> k, number |-> sequence[k] + 1 ])
    <3>1. Numbers!Numbered(k) = { i \in DOMAIN risks : risks[i].register = k }
        BY DEF Numbers!Numbered
    <3>2. sequence[k] = Cardinality(Numbers!Numbered(k))
        BY <3>1 DEF Base, Counted
    <3>3. Numbers!Issue(k)
            <=> Issued' = Append(Issued, [ register |-> k, number |-> Cardinality(Numbers!Numbered(k)) + 1 ])
      <4>1. Numbers!Cardinality(Numbers!Numbered(k)) = Cardinality(Numbers!Numbered(k))
          BY DEF Numbers!Cardinality, Cardinality
      <4> QED
          BY <4>1 DEF Numbers!Issue, Issued
    <3> QED
        BY <3>2, <3>3
  <2> QED
      BY <2>1, BaseNext DEF Numbers!Next
<1> QED
    BY <1>1, <1>2, PTL DEF Spec, ImplementsNumbers, Numbers!Spec, Issued

-----------------------------------------------------------------------------
(* A row is imported once. *)

Single(r) ==
    /\ \A i, j : IsRiskOf(i, r) /\ IsRiskOf(j, r) => i = j
    /\ \A i : IsRiskOf(i, r) => risks[i].assessments <= 1 /\ risks[i].marked <= 1

\* The row's risk is created, and written, by nobody but the run at work on it.
Alone(r) ==
    /\ \A c \in Connections : creates[c].of = r => Work.row = r /\ Work.on = c /\ Work.risk = 0
    /\ \A w \in late : ~IsRiskOf(w.risk, r)

\* A search that has yet to come upon the row's risk has at least as many before it as
\* it has left behind; and at the end of the search there is none it has not come upon.
Ahead(r) ==
    run.pc \in { "count", "select" } /\ run.found[r] = {} =>
        \A i : IsRiskOf(i, r) =>
            /\ Newer(DOMAIN risks, CreatedAt, i) >= run.offset
            /\ run.pc = "select" => run.total = Len(risks)

Found(r) ==
    run.pc \in { "fetch", "verify" } /\ r \in run.todo /\ run.found[r] = {} =>
        \A i : ~IsRiskOf(i, r)

\* What the run knows of a row it has yet to take up.
Fetched(r) == \/ run.pc = "fetch" /\ r \notin run.todo
              \/ run.pc = "write" /\ r \in run.todo /\ Work.row # r

Known(r) ==
    Fetched(r) /\ run.resume[r].stage # "REJECT" =>
        /\ run.resume[r].risk = 0 => \A i : ~IsRiskOf(i, r)
        /\ ~run.resume[r].assessed => \A i : IsRiskOf(i, r) => risks[i].assessments = 0

InHand(r) ==
    Work.row = r =>
        /\ Work.risk = 0 => \A i : ~IsRiskOf(i, r)
        /\ Work.assess => \A i : IsRiskOf(i, r) => risks[i].assessments = 0

Once(r) == Single(r) /\ Alone(r) /\ Ahead(r) /\ Found(r) /\ Known(r) /\ InHand(r)

\* A step that neither writes nor creates a risk of the row.
Untouched(r) ==
    \A i : /\ IsRiskOf(i, r)' <=> IsRiskOf(i, r)
           /\ IsRiskOf(i, r) => risks'[i] = risks[i]

LEMMA SameRisks ==
    ASSUME NEW r, risks' = risks
    PROVE  Untouched(r)
BY DEF Untouched, IsRiskOf

\* Writes leave the list of the risks as it is.
LEMMA AheadKept ==
    ASSUME NEW r, Ahead(r), run' = run, SameKeys
    PROVE  Ahead(r)'
<1>1. DOMAIN risks' = DOMAIN risks /\ Len(risks') = Len(risks)
      /\ \A j \in DOMAIN risks : risks'[j].of = risks[j].of /\ risks'[j].second = risks[j].second
    BY DEF SameKeys
<1>2. CreatedAt' = CreatedAt
    BY <1>1 DEF CreatedAt
<1>3. \A i : IsRiskOf(i, r)' <=> IsRiskOf(i, r)
    BY <1>1 DEF IsRiskOf
<1> QED
    BY <1>1, <1>2, <1>3 DEF Ahead

LEMMA SameRisksSameKeys ==
    ASSUME risks' = risks
    PROVE  SameKeys
BY DEF SameKeys

LEMMA OtherWrites ==
    ASSUME Types, NEW r, NEW i, NEW u, Writes(i, u), ~IsRiskOf(i, r)
    PROVE  Untouched(r)
<1>1. /\ DOMAIN risks' = DOMAIN risks /\ risks'[i] = u /\ u.of = risks[i].of /\ i \in DOMAIN risks
      /\ \A j \in DOMAIN risks : j # i => risks'[j] = risks[j]
    BY WritesIs DEF Types, SameKeys, Writes
<1> QED
    BY <1>1 DEF Untouched, IsRiskOf

LEMMA OtherCommits ==
    ASSUME Base, NEW r, NEW c \in Connections, CommitIs(c)
    PROVE  /\ creates[c].of # r => Untouched(r)
           /\ creates[c].of = r =>
                 /\ \A i : IsRiskOf(i, r)' <=> (IsRiskOf(i, r) \/ i = Len(risks) + 1)
                 /\ risks'[Len(risks) + 1].assessments = 0 /\ risks'[Len(risks) + 1].marked = 0
                 /\ Len(risks) + 1 # 0
<1>1. creates[c].stage = "numbered" /\ Inserted(creates[c])
    BY DEF CommitIs
<1>2. creates[c].register \in Registers /\ creates[c].number = sequence[creates[c].register] + 1
    BY <1>1, NoCreateIs DEF Base, CreatesOK
<1>3. creates[c] \in Creation /\ sequence[creates[c].register] \in Nat /\ risks \in Seq(Risk)
    BY <1>2 DEF Base, Types
<1>4. creates[c].number # 0
    BY <1>2, <1>3
<1>5. /\ Len(risks) \in Nat
      /\ DOMAIN risks = 1..Len(risks) /\ DOMAIN risks' = 1..(Len(risks) + 1)
      /\ \A j \in DOMAIN risks : risks'[j] = risks[j]
      /\ risks'[Len(risks) + 1].of = creates[c].of
      /\ risks'[Len(risks) + 1].marked = 0 /\ risks'[Len(risks) + 1].assessments = 0
    BY <1>1, <1>2, <1>3, <1>4, InsertedIs
<1>6. DOMAIN risks' = DOMAIN risks \cup { Len(risks) + 1 } /\ Len(risks) + 1 \notin DOMAIN risks
    BY <1>5
<1> QED
    BY <1>5, <1>6 DEF Untouched, IsRiskOf

LEMMA SingleKept ==
    ASSUME NEW r, Untouched(r), Single(r)
    PROVE  Single(r)'
BY DEF Untouched, Single

\* The rows' numbers tell them from the risks of people, and from no work.
LEMMA RowIs ==
    ASSUME Base, NEW r \in Rows
    PROVE  /\ r # 0 /\ NoCreate.of # r /\ NoWork.row # r /\ Off.work.row # r
           /\ (run.pc # "write" => Work.row # r /\ Work = NoWork)
           /\ (Work.row = r => r \in run.todo /\ Work # NoWork)
BY MigrationAssumption, NoCreateIs, OffIs DEF Base, Pointers, ByHand

\* A step that leaves the row's risks, and adds none of its creations or late
\* writes.
LEMMA KeptSingleAlone ==
    ASSUME NEW r, Once(r), Untouched(r), late' \subseteq late,
           \A c \in Connections : creates'[c].of = r =>
               creates[c].of = r /\ run'.work.row = r /\ run'.work.on = c /\ run'.work.risk = 0
    PROVE  Single(r)' /\ Alone(r)'
<1>1. Single(r)'
    BY SingleKept DEF Once
<1>2. \A w \in late' : ~IsRiskOf(w.risk, r)
    BY DEF Once, Alone
<1>3. \A w \in late' : ~IsRiskOf(w.risk, r)'
    BY <1>2 DEF Untouched
<1> QED
    BY <1>1, <1>3 DEF Alone, Work

\* A page of the search.
LEMMA OnceKeptByPage ==
    ASSUME Base, NEW r \in Rows, Once(r), Certain(r), risks' = risks, SelectPage
    PROVE  Ahead(r)' /\ Found(r)'
<1>0. /\ Types /\ Pointers /\ risks \in Seq(Risk) /\ run.offset \in Nat /\ run.total \in Nat
      /\ Cardinality(DOMAIN risks) \in Nat /\ Seconded(DOMAIN risks, CreatedAt)
      /\ Cardinality(DOMAIN risks) = Len(risks)
  <2>1. Types /\ Pointers /\ risks \in Seq(Risk) /\ run.offset \in Nat /\ run.total \in Nat
      BY DEF Base, Types, RunStates
  <2>2. Seconded(DOMAIN risks, CreatedAt) /\ Cardinality(DOMAIN risks) = Len(risks)
      BY <2>1, RisksSeconded
  <2>3. Cardinality(DOMAIN risks) \in Nat
      BY <2>1, <2>2, LenProperties
  <2> QED
      BY <2>1, <2>2, <2>3
<1>1. PICK page \in PagesOf(DOMAIN risks, CreatedAt, run.offset, SearchLimit), last \in BOOLEAN :
          page \subseteq DOMAIN risks /\ Selected(page, last)
    BY <1>0, SelectIs
<1>2. /\ Cardinality(page) \in Nat /\ run.pc = "select"
      /\ run'.found[r] = run.found[r] \cup MatchesOn(page, r)
    BY <1>0, <1>1, PageType DEF Selected
<1>3. CreatedAt' = CreatedAt /\ (\A i : IsRiskOf(i, r)' <=> IsRiskOf(i, r)) /\ Len(risks') = Len(risks)
    BY DEF CreatedAt, IsRiskOf
<1> DEFINE next == run.offset + Cardinality(page)
<1>4. ASSUME run'.found[r] = {}, NEW i, IsRiskOf(i, r)
      PROVE  /\ Newer(DOMAIN risks, CreatedAt, i) >= next
             /\ page # {} /\ next < run.total
  <2>1. run.found[r] = {} /\ MatchesOn(page, r) = {}
      BY <1>2, <1>4
  <2>2. i \in DOMAIN risks /\ i \notin page
      BY <1>0, <1>1, <1>4, <2>1, MatchesIs DEF IsRiskOf
  <2>3. Newer(DOMAIN risks, CreatedAt, i) >= run.offset /\ run.total = Cardinality(DOMAIN risks)
      BY <1>0, <1>2, <1>4, <2>1 DEF Once, Ahead
  <2>4. ~MayBeOverlooked(DOMAIN risks, CreatedAt, SearchLimit, i)
    <3>1. i \in RisksOf(r)
        BY <1>4 DEF RisksOf, IsRiskOf
    <3> QED
        BY <3>1 DEF Certain, MayBeMissed
  <2>5. Newer(DOMAIN risks, CreatedAt, i) >= next /\ next < Cardinality(DOMAIN risks)
      BY <1>0, <1>1, <2>2, <2>3, <2>4, LeftOut
  <2>6. page # {}
      BY <1>0, <1>1, <2>2, <2>3, NothingLater
  <2> QED
      BY <2>3, <2>5, <2>6
<1>5. next \in Nat
    BY <1>0, <1>2
<1>6. CASE last
  <2>1. run'.pc \in { "fetch", "verify" } /\ (page = {} \/ next >= run.total)
      BY <1>1, <1>6 DEF Selected
  <2>2. run'.found[r] = {} => \A i : ~IsRiskOf(i, r)
    <3> HIDE DEF next
    <3> QED
        BY <1>0, <1>4, <1>5, <2>1
  <2> QED
      BY <1>3, <2>1, <2>2 DEF Ahead, Found
<1>7. CASE ~last
  <2>1. run'.pc = "count" /\ run'.offset = next
      BY <1>1, <1>7 DEF Selected
  <2> QED
      BY <1>3, <1>4, <2>1 DEF Ahead, Found
<1> QED
    BY <1>1, <1>6, <1>7

\* The run turns to something else, and nobody writes.
LEMMA OnceKeptByRun ==
    ASSUME Base, NEW r \in Rows, Once(r), Certain(r), Certain(r)',
           risks' = risks, creates' = creates,
           \/ UNCHANGED vars \/ Turns
           \/ RowLeft /\ Work.risk # 0 /\ UNCHANGED <<entity, history, faults>>
           \/ Leaves
    PROVE  Once(r)'
<1>0. Types /\ Pointers /\ run \in RunStates /\ Untouched(r) /\ r \notin delayed'
    BY SameRisks DEF Base, Types, Certain
<1>1. /\ r # 0 /\ NoWork.row # r /\ Off.work.row # r
      /\ (run.pc # "write" => Work.row # r /\ Work = NoWork)
      /\ (Work.row = r => r \in run.todo /\ Work # NoWork)
    BY RowIs
<1>2. \A i : IsRiskOf(i, r)' <=> IsRiskOf(i, r)
    BY <1>0 DEF Untouched
<1>3. Single(r)'
    BY <1>0, SingleKept DEF Once
<1>4. CASE UNCHANGED vars
  <2>1. run' = run /\ late' = late
      BY <1>4 DEF vars, entity
  <2>2. Ahead(r)'
      BY <2>1, AheadKept, SameRisksSameKeys DEF Once
  <2> QED
      BY <1>2, <1>3, <2>1, <2>2 DEF Once, Alone, Found, Known, Fetched, InHand, Work
<1>20. ASSUME run'.pc \in { "count", "select" }, Work = NoWork, run'.work = NoWork, late' = late, Ahead(r)'
       PROVE  Once(r)'
  <2>1. Alone(r)'
      BY <1>0, <1>1, <1>2, <1>20, KeptSingleAlone DEF Once, Alone
  <2>2. Found(r)' /\ Known(r)' /\ InHand(r)'
      BY <1>1, <1>20 DEF Found, Known, Fetched, InHand, Work
  <2> QED
      BY <1>3, <1>20, <2>1, <2>2 DEF Once
<1>21. ASSUME run'.pc = "count", run'.offset = 0
       PROVE  Ahead(r)'
  <2>1. \A i : IsRiskOf(i, r) => Newer(DOMAIN risks, CreatedAt, i) \in Nat
      BY <1>0, RisksSeconded, NewerType DEF Types, IsRiskOf
  <2>2. CreatedAt' = CreatedAt
      BY DEF CreatedAt
  <2>3. \A i : IsRiskOf(i, r) => Newer(DOMAIN risks, CreatedAt, i) >= 0
      BY <2>1
  <2> QED
      BY <1>2, <1>21, <2>2, <2>3 DEF Ahead
<1>22. CASE Start
  <2>1. run'.pc = "count" /\ run'.offset = 0 /\ run'.work = NoWork /\ run.pc = "off"
      BY <1>22, StartIs
  <2>2. late' = late
      BY <1>22 DEF Start, entity
  <2> QED
      BY <1>1, <1>20, <1>21, <2>1, <2>2
<1>23. CASE BeginVerify
  <2>1. run'.pc = "count" /\ run'.offset = 0 /\ run'.work = NoWork /\ Work = NoWork
      BY <1>0, <1>23, BeginVerifyIs
  <2>2. late' = late
      BY <1>23 DEF BeginVerify, entity
  <2> QED
      BY <1>20, <1>21, <2>1, <2>2
<1>24. CASE CountRisks
  <2>1. /\ run.pc = "count" /\ run'.pc = "select" /\ run'.total = Len(risks) /\ Work = NoWork
        /\ run'.work = NoWork /\ run'.offset = run.offset /\ run'.found = run.found
      BY <1>0, <1>24, CountIs
  <2>2. late' = late
      BY <1>24 DEF CountRisks, entity
  <2>3. CreatedAt' = CreatedAt
      BY DEF CreatedAt
  <2>4. Ahead(r)'
      BY <1>2, <2>1, <2>3 DEF Once, Ahead
  <2> QED
      BY <1>20, <2>1, <2>2, <2>4
<1>25. CASE SelectPage
  <2>1. late' = late
      BY <1>25 DEF SelectPage, entity
  <2>2. Ahead(r)' /\ Found(r)'
      BY <1>25, OnceKeptByPage
  <2>3. PICK page \in PagesOf(DOMAIN risks, CreatedAt, run.offset, SearchLimit), last \in BOOLEAN :
            Selected(page, last)
      BY <1>0, <1>25, SelectIs
  <2>4. /\ run'.pc \in { "count", "fetch", "verify" } /\ Work = NoWork /\ run'.work = NoWork
        /\ run'.pc = "count" \/ run'.todo = Rows
      BY <2>3 DEF Selected
  <2>5. Alone(r)'
      BY <1>0, <1>1, <1>2, <2>1, <2>4, KeptSingleAlone DEF Once, Alone
  <2>6. Known(r)' /\ InHand(r)'
      BY <1>1, <2>4 DEF Known, Fetched, InHand, Work
  <2> QED
      BY <1>3, <2>2, <2>5, <2>6 DEF Once
<1>6. CASE Fetch
  <2>1. run.pc = "fetch" /\ Work = NoWork /\ Work.row # r /\ late' = late
      BY <1>1, <1>6 DEF Fetch, entity
  <2>2. /\ First \in run.todo /\ run'.work = run.work
        /\ run'.resume[First] = ResumeState(First) /\ run'.found[First] = {}
        /\ r # First => run'.resume[r] = run.resume[r] /\ run'.found[r] = run.found[r]
        /\ \/ run'.pc = "write" /\ run'.todo = Rows /\ run.todo = { First }
           \/ run'.pc = "fetch" /\ run'.todo = run.todo \ { First }
      BY <1>0, <1>6, FetchIs
  <2>3. Alone(r)'
      BY <1>0, <1>2, <2>1, <2>2, KeptSingleAlone DEF Once, Alone, Work
  <2>4. Found(r)'
    <3>1. run'.pc \in { "fetch", "verify" } /\ r \in run'.todo => r # First /\ r \in run.todo
        BY <2>2
    <3> QED
        BY <1>2, <2>1, <2>2, <3>1 DEF Once, Found
  <2>7. Ahead(r)'
      BY <2>2 DEF Ahead
  <2>5. InHand(r)'
      BY <1>1, <2>1, <2>2 DEF InHand, Work
  <2>6. Known(r)'
    <3>1. CASE r # First
      <4>1. Fetched(r)' => Fetched(r)
          BY <2>1, <2>2, <3>1 DEF Fetched
      <4> QED
          BY <1>2, <2>2, <3>1, <4>1 DEF Once, Known
    <3>2. CASE r = First
      <4>1. run'.resume[r] = ResumeState(r) /\ r \in run.todo
          BY <2>2, <3>2
      <4>2. CASE run.found[r] = {}
        <5>1. \A i : ~IsRiskOf(i, r)
            BY <2>1, <4>1, <4>2 DEF Once, Found
        <5> QED
            BY <1>2, <5>1 DEF Known
      <4>4. CASE ResumeState(r).stage = "REJECT"
          BY <4>1, <4>4 DEF Known
      <4>5. ASSUME NEW m \in Match, run.found[r] = { m }
            PROVE  IsRiskOf(m.id, r)
          BY <1>0, <4>5 DEF Pointers
      <4>3. ASSUME NEW m, run.found[r] = { m }, IsRiskOf(m.id, r)
            PROVE  Known(r)'
        <5>1. ResumeState(r) = [ stage |-> StageOf(r, m.id, m.status), risk |-> m.id,
                                 status |-> m.status, assessed |-> HasMarkerAssessment(m.id) ]
            BY <1>0, <4>3, ResumeIs
        <5>2. ResumeState(r).risk = m.id /\ ResumeState(r).assessed = HasMarkerAssessment(m.id)
            BY <5>1
        <5>3. m.id \in Nat \ { 0 } /\ risks[m.id].assessments \in Nat
            BY <1>0, <4>3, RisksAre, RiskFields DEF Types, IsRiskOf
        <5>4. ~HasMarkerAssessment(m.id) => \A i : IsRiskOf(i, r) => risks[i].assessments = 0
            BY <4>3, <5>3 DEF Once, Single, HasMarkerAssessment
        <5> QED
            BY <1>2, <4>1, <5>2, <5>3, <5>4 DEF Known
      <4>6. run.found[r] = {} \/ (\E m \in Match : run.found[r] = { m })
            \/ ResumeState(r).stage = "REJECT"
          BY <1>0, ResumeIs
      <4> QED
          BY <4>2, <4>3, <4>4, <4>5, <4>6
    <3> QED
        BY <3>1, <3>2
  <2> QED
      BY <1>3, <2>3, <2>4, <2>5, <2>6, <2>7 DEF Once
<1>7. CASE TakeRow
  <2>1. /\ First \in run.todo /\ run'.pc = "write" /\ run.pc = "write" /\ Work = NoWork
        /\ run'.resume[First] = Unread /\ run'.found = run.found
        /\ r # First => run'.resume[r] = run.resume[r]
        /\ \/ run'.todo = run.todo \ { First } /\ run'.work = NoWork
           \/ /\ run'.todo = run.todo /\ run'.work = JobOf(First)
              /\ run.resume[First].stage # "REJECT"
      BY <1>0, <1>7, TakeRowIs
  <2>2. /\ JobOf(First).row = First /\ JobOf(First).risk = run.resume[First].risk
        /\ JobOf(First).assess => ~run.resume[First].assessed
      BY DEF JobOf
  <2>3. late' = late
      BY <1>7 DEF TakeRow, entity
  <2>4. Alone(r)'
      BY <1>0, <1>1, <1>2, <2>1, <2>3, KeptSingleAlone DEF Once, Alone
  <2>5. Found(r)' /\ Ahead(r)'
      BY <2>1 DEF Found, Ahead
  <2>6. r \in run.todo => Fetched(r)
      BY <1>1, <2>1 DEF Fetched
  <2>7. Known(r)'
    <3>1. Fetched(r)' => r # First /\ r \in run.todo
        BY <2>1, <2>2 DEF Fetched, Work
    <3> QED
        BY <1>2, <2>1, <2>6, <3>1 DEF Once, Known
  <2>8. InHand(r)'
    <3>1. run'.work.row = r => r = First /\ run'.work = JobOf(First)
                                /\ run.resume[r].stage # "REJECT"
        BY <1>1, <2>1, <2>2
    <3>2. r = First /\ run.resume[r].stage # "REJECT" =>
             /\ JobOf(r).risk = 0 => \A i : ~IsRiskOf(i, r)
             /\ JobOf(r).assess => \A i : IsRiskOf(i, r) => risks[i].assessments = 0
        BY <2>1, <2>2, <2>6 DEF Once, Known
    <3> QED
        BY <1>2, <3>1, <3>2 DEF InHand, Work
  <2> QED
      BY <1>3, <2>4, <2>5, <2>7, <2>8 DEF Once
<1>8. CASE Verify
  <2>1. /\ First \in run.todo /\ Work = NoWork /\ late' = late
        /\ \/ run' = Off
           \/ /\ run'.pc = "verify" /\ run'.work = NoWork
              /\ run'.todo = run.todo \ { First }
              /\ \A q \in Rows : q # First => run'.found[q] = run.found[q]
      BY <1>0, <1>8, VerifyIs DEF Verify, entity
  <2>2. run'.work = NoWork /\ run.pc = "verify" /\ Off.pc = "off"
      BY <1>8, <2>1, OffIs DEF Verify
  <2>3. Alone(r)'
      BY <1>0, <1>1, <1>2, <2>1, <2>2, KeptSingleAlone DEF Once, Alone
  <2>4. Found(r)' /\ Ahead(r)'
    <3>1. run'.pc \in { "fetch", "verify" } /\ r \in run'.todo =>
             r \in run.todo /\ run'.found[r] = run.found[r]
        BY <2>1, <2>2
    <3>2. run'.pc \in { "off", "verify" }
        BY <2>1, <2>2
    <3> QED
        BY <1>2, <2>2, <3>1, <3>2 DEF Once, Found, Ahead
  <2>5. ~Fetched(r)'
      BY <2>1, <2>2 DEF Fetched
  <2>6. InHand(r)'
      BY <1>1, <2>2 DEF InHand, Work
  <2> QED
      BY <1>3, <2>3, <2>4, <2>5, <2>6 DEF Once, Known
<1>9. CASE RowLeft /\ Work.risk # 0 /\ UNCHANGED <<entity, history, faults>>
  <2>1. /\ run'.work = NoWork /\ run'.todo = run.todo \ { Work.row }
        /\ run'.pc = run.pc /\ run'.found = run.found /\ run'.resume = run.resume
        /\ Work.risk # 0 /\ late' = late
      BY <1>9 DEF RowLeft, Kept, entity
  <2>2. Alone(r)'
      BY <1>0, <1>2, <2>1, KeptSingleAlone DEF Once, Alone
  <2>3. Found(r)' /\ Ahead(r)'
    <3>1. run.pc = "write"
        BY <1>1, <2>1, OffIs
    <3> QED
        BY <2>1, <3>1 DEF Found, Ahead
  <2>4. Fetched(r)' => Fetched(r)
    <3>1. Work.row \notin run'.todo
        BY <2>1
    <3> QED
        BY <1>1, <2>1, <3>1 DEF Fetched
  <2>5. Known(r)'
      BY <1>2, <2>1, <2>4 DEF Once, Known
  <2>6. InHand(r)'
      BY <1>1, <2>1 DEF InHand, Work
  <2> QED
      BY <1>3, <2>2, <2>3, <2>5, <2>6 DEF Once
<1>10. CASE Leaves
  <2>1. run' = Off /\ Off.pc = "off" /\ Off.work.row # r
      BY <1>1, <1>10, OffIs DEF Leaves
  <2>2. \A c \in Connections : creates'[c].of # r
    <3>1. ASSUME NEW c \in Connections, creates[c].of = r PROVE FALSE
      <4>1. Work.row = r /\ Work.on = c /\ c # "none"
          BY <3>1, MigrationAssumption DEF Once, Alone
      <4> QED
          BY <1>0, <1>10, <4>1 DEF Leaves
    <3> QED
        BY <3>1
  <2>3. \A w \in late' : ~IsRiskOf(w.risk, r)
    <3>1. CASE late' = late
        BY <3>1 DEF Once, Alone
    <3>2. ASSUME NEW what, Work.row # r, IsRiskOf(Work.risk, Work.row),
                 late' = late \cup { [ what |-> what, risk |-> Work.risk ] }
          PROVE  \A w \in late' : ~IsRiskOf(w.risk, r)
        BY <3>2 DEF Once, Alone, IsRiskOf
    <3> QED
        BY <1>0, <1>10, <3>1, <3>2 DEF Leaves
  <2>4. Alone(r)'
      BY <1>2, <2>2, <2>3 DEF Alone
  <2> QED
      BY <1>3, <2>1, <2>4 DEF Once, Ahead, Found, Known, Fetched, InHand, Work
<1> QED
    BY <1>4, <1>6, <1>7, <1>8, <1>9, <1>10, <1>22, <1>23, <1>24, <1>25 DEF Turns

\* A call on the row in hand.
LEMMA OnceKeptByCall ==
    ASSUME Base, NEW r \in Rows, Once(r), CallOn(Work.risk)
    PROVE  Once(r)'
<1>0. Types /\ Pointers /\ run \in RunStates
    BY DEF Base, Types
<1>1. /\ r # 0 /\ NoWork.row # r /\ Off.work.row # r /\ NoWork.on \notin Connections
      /\ (Work.row = r => r \in run.todo /\ Work # NoWork)
    BY RowIs, OffIs, MigrationAssumption
<1>2. /\ Work.risk # 0 /\ Work # NoWork /\ run.pc = "write" /\ creates' = creates /\ late' = late
    BY DEF CallOn
<1>3. IsRiskOf(Work.risk, Work.row)
    BY <1>2 DEF Base, Pointers
<1>4. \A c \in Connections : creates'[c].of # r
    BY <1>2 DEF Once, Alone
<1>5. CASE Work.row # r
  <2>1. Untouched(r)
    <3>1. ~IsRiskOf(Work.risk, r)
        BY <1>3, <1>5 DEF IsRiskOf
    <3>2. ASSUME NEW u, Writes(Work.risk, u) PROVE Untouched(r)
        BY <1>0, <3>1, <3>2, OtherWrites
    <3> QED
        BY <3>2, SameRisks DEF CallOn
  <2>2. Single(r)' /\ Alone(r)'
      BY <1>2, <1>4, <2>1, KeptSingleAlone
  <2>3. /\ run'.work.row # r
        /\ \/ run'.pc = "off"
           \/ /\ run'.pc = "write" /\ run'.resume = run.resume
              /\ run'.todo \subseteq run.todo
    <3>1. Off.pc = "off"
        BY OffIs
    <3> QED
        BY <1>1, <1>2, <1>5, <3>1 DEF CallOn, RowLeft, JobTo, Kept
  <2>4. Fetched(r)' => Fetched(r)
      BY <1>2, <1>5, <2>3 DEF Fetched
  <2>5. Known(r)'
      BY <2>1, <2>3, <2>4 DEF Once, Known, Untouched, Fetched
  <2>6. Ahead(r)' /\ Found(r)' /\ InHand(r)'
      BY <2>3 DEF Ahead, Found, InHand, Work
  <2> QED
      BY <2>2, <2>5, <2>6 DEF Once
<1>6. CASE Work.row = r
  <2> DEFINE i == Work.risk
  <2>1. i \in DOMAIN risks /\ risks[i] \in Risk /\ IsRiskOf(i, r)
      BY <1>0, <1>3, <1>6, RisksAre DEF Types, IsRiskOf
  <2>2. risks[i].assessments \in Nat /\ risks[i].marked \in Nat
        /\ risks[i].assessments <= 1 /\ risks[i].marked <= 1
        /\ (Work.assess => risks[i].assessments = 0)
        /\ \A j : IsRiskOf(j, r) => j = i
      BY <1>6, <2>1, RiskFields DEF Once, Single, InHand
  <2>3. /\ \A j : IsRiskOf(j, r)' <=> IsRiskOf(j, r)
        /\ risks'[i].assessments <= 1 /\ risks'[i].marked <= 1
    <3>1. CASE risks' = risks
        BY <2>2, <3>1 DEF IsRiskOf
    <3>2. ASSUME NEW u, Writes(i, u),
                 \/ Work.assess /\ u.assessments = risks[i].assessments + 1 /\ u.marked = risks[i].marked
                 \/ ~(risks[i].marked > 0) /\ u.marked = risks[i].marked + 1
                    /\ u.assessments = risks[i].assessments
                 \/ u.marked = risks[i].marked /\ u.assessments = risks[i].assessments
          PROVE  /\ \A j : IsRiskOf(j, r)' <=> IsRiskOf(j, r)
                 /\ risks'[i].assessments <= 1 /\ risks'[i].marked <= 1
      <4>1. SameKeys /\ risks'[i] = u
          BY <1>0, <3>2, WritesIs DEF Types
      <4>2. \A j : IsRiskOf(j, r)' <=> IsRiskOf(j, r)
          BY <4>1 DEF SameKeys, IsRiskOf
      <4>3. u.assessments <= 1 /\ u.marked <= 1
          BY <2>2, <3>2
      <4> QED
          BY <4>1, <4>2, <4>3
    <3> QED
        BY <3>1, <3>2 DEF CallOn
  <2>4. Single(r)'
      BY <2>2, <2>3 DEF Single
  <2>5. Alone(r)'
      BY <1>2, <1>4, <2>3 DEF Once, Alone
  <2>6. \/ run'.pc = "off" /\ run'.work.row # r
        \/ run'.pc = "write" /\ run'.work.row # r /\ r \notin run'.todo
        \/ /\ run'.pc = "write" /\ run'.work.row = r /\ run'.work.risk # 0
           /\ run'.work.assess => Work.assess /\ risks'[i].assessments = risks[i].assessments
    <3>1. Off.pc = "off"
        BY OffIs
    <3>2. CASE run' = Off
        BY <1>1, <3>1, <3>2
    <3>3. CASE RowLeft
        BY <1>1, <1>2, <1>6, <3>3 DEF RowLeft, Kept
    <3>4. ASSUME NEW w \in Job, JobTo(w), w.row = Work.row, w.risk = Work.risk,
                 w.assess => Work.assess /\ risks'[i].assessments = risks[i].assessments
          PROVE  /\ run'.pc = "write" /\ run'.work.row = r /\ run'.work.risk # 0
                 /\ run'.work.assess => Work.assess /\ risks'[i].assessments = risks[i].assessments
        BY <1>2, <1>6, <3>4 DEF JobTo, Kept
    <3> QED
        BY <3>2, <3>3, <3>4 DEF CallOn
  <2>7. Ahead(r)' /\ Found(r)' /\ Known(r)'
      BY <2>6 DEF Ahead, Found, Known, Fetched, Work
  <2>8. InHand(r)'
    <3>1. run'.work.row = r /\ run'.work.assess =>
             risks'[i].assessments = 0
        BY <2>2, <2>6
    <3>2. \A j : IsRiskOf(j, r)' => j = i
        BY <2>2, <2>3
    <3>3. run'.work.row = r => run'.work.risk # 0
        BY <2>6
    <3> HIDE DEF i
    <3> QED
        BY <3>1, <3>2, <3>3 DEF InHand, Work
  <2> QED
      BY <2>4, <2>5, <2>7, <2>8 DEF Once
<1> QED
    BY <1>5, <1>6

\* Steps that leave the run alone.
LEMMA OnceKeptAside ==
    ASSUME Base, NEW r \in Rows, Once(r), Untouched(r), Ahead(r)', run' = run, late' \subseteq late,
           \A c \in Connections : creates'[c].of = r => creates[c].of = r
    PROVE  Once(r)'
<1>1. Single(r)' /\ Alone(r)'
    BY KeptSingleAlone DEF Once, Alone, Work
<1>2. Found(r)' /\ Known(r)' /\ InHand(r)'
    BY DEF Once, Found, Known, Fetched, InHand, Work, Untouched
<1> QED
    BY <1>1, <1>2 DEF Once

LEMMA OnceKeptOutside ==
    ASSUME Base, NEW r \in Rows, Once(r), OutsideIs
    PROVE  Once(r)'
<1>0. Types /\ run' = run /\ creates' = creates /\ late' \subseteq late
    BY DEF Base, OutsideIs
<1>1. ASSUME Untouched(r), SameKeys PROVE Once(r)'
  <2>1. Ahead(r)'
      BY <1>0, <1>1, AheadKept DEF Once
  <2> QED
      BY <1>0, <1>1, <2>1, OnceKeptAside
<1>2. CASE risks' = risks
    BY <1>1, <1>2, SameRisks, SameRisksSameKeys
<1>3. ASSUME NEW w \in late, NEW u, Writes(w.risk, u)
      PROVE  Once(r)'
  <2>1. ~IsRiskOf(w.risk, r)
      BY DEF Once, Alone
  <2>2. Untouched(r)
      BY <1>0, <1>3, <2>1, OtherWrites
  <2>3. SameKeys
      BY <1>0, <1>3, WritesIs DEF Types
  <2> QED
      BY <1>1, <2>2, <2>3
<1>4. ASSUME NEW i, NEW u, Writes(i, u),
             u.marked = risks[i].marked /\ u.assessments = risks[i].assessments
      PROVE  Once(r)'
  <2>1. /\ SameKeys /\ risks'[i] = u
        /\ \A j \in DOMAIN risks : j # i => risks'[j] = risks[j]
      BY <1>0, <1>4, WritesIs DEF Types
  <2>2. \A j : /\ IsRiskOf(j, r)' <=> IsRiskOf(j, r)
               /\ IsRiskOf(j, r) => risks'[j].assessments = risks[j].assessments
                                    /\ risks'[j].marked = risks[j].marked
      BY <1>4, <2>1 DEF SameKeys, IsRiskOf
  <2>3. Single(r)'
      BY <2>2 DEF Once, Single
  <2>4. Alone(r)'
      BY <1>0, <2>2 DEF Once, Alone, Work
  <2>5. Found(r)' /\ Known(r)' /\ InHand(r)'
      BY <1>0, <2>2 DEF Once, Found, Known, Fetched, InHand, Work
  <2>6. Ahead(r)'
      BY <1>0, <2>1, AheadKept DEF Once
  <2> QED
      BY <2>3, <2>4, <2>5, <2>6 DEF Once
<1> QED
    BY <1>2, <1>3, <1>4 DEF OutsideIs

\* The transactions.
LEMMA OnceKeptByCreation ==
    ASSUME Base, NEW r \in Rows, Once(r), NEW c \in Connections,
           PostIs(c) \/ RollbackIs(c) \/ BeginsByHand(c) \/ Reserve(c)
    PROVE  Once(r)'
<1>0. /\ Types /\ Pointers /\ creates \in [ Connections -> Creation ]
      /\ risks' = risks /\ Untouched(r) /\ late' = late
    BY SameRisks DEF Base, Types, PostIs, RollbackIs, BeginsByHand, Reserve
<1>1. /\ r # 0 /\ NoCreate.of # r /\ NoWork.row # r /\ Off.work.row # r /\ Off.pc = "off"
      /\ (run.pc # "write" => Work.row # r /\ Work = NoWork)
      /\ (Work.row = r => r \in run.todo /\ Work # NoWork) /\ "none" \notin Connections
    BY RowIs, OffIs, MigrationAssumption
<1>5. run' = run => Ahead(r)'
    BY <1>0, AheadKept, SameRisksSameKeys DEF Once
<1>2. CASE PostIs(c)
  <2>1. /\ Work.on = "none" /\ Work.risk = 0 /\ run.pc = "write" /\ run'.pc = run.pc
        /\ run'.todo = run.todo /\ run'.found = run.found /\ run'.resume = run.resume
        /\ run'.work.row = Work.row /\ run'.work.risk = 0 /\ run'.work.on = c
        /\ run'.work.assess = Work.assess
      BY <1>2 DEF PostIs, JobTo, Kept
  <2>2. \A d \in Connections : creates'[d].of = r => d = c /\ Work.row = r
    <3>1. \A d \in Connections : d # c => creates'[d] = creates[d]
        BY <1>0, <1>2 DEF PostIs
    <3>2. creates'[c].of = Work.row
        BY <1>0, <1>2 DEF PostIs
    <3> QED
        BY <1>1, <2>1, <3>1, <3>2 DEF Once, Alone
  <2>3. Single(r)'
      BY <1>0, SingleKept DEF Once
  <2>4. Alone(r)'
      BY <1>0, <2>1, <2>2 DEF Once, Alone, Work, Untouched
  <2>5. Ahead(r)' /\ Found(r)' /\ Known(r)' /\ InHand(r)'
      BY <1>0, <2>1 DEF Once, Ahead, Found, Known, Fetched, InHand, Work, Untouched
  <2> QED
      BY <2>3, <2>4, <2>5 DEF Once
<1>3. CASE RollbackIs(c)
  <2>1. creates'[c] = NoCreate /\ \A d \in Connections : d # c => creates'[d] = creates[d]
      BY <1>0, <1>3 DEF RollbackIs
  <2>2. \A d \in Connections : creates'[d].of = r => creates[d].of = r /\ d # c
      BY <1>1, <2>1
  <2>3. CASE run' = run
      BY <1>0, <1>5, <2>2, <2>3, OnceKeptAside
  <2>4. CASE Work.on = c /\ (run' = Off \/ RowLeft)
    <3>1. \A d \in Connections : creates'[d].of # r
        BY <2>2, <2>4 DEF Once, Alone
    <3>2. Single(r)' /\ Alone(r)'
        BY <1>0, <3>1, KeptSingleAlone
    <3>3. Work # NoWork /\ run.pc = "write"
      <4>1. Work # NoWork
          BY <1>1, <2>4, OffIs
      <4> QED
          BY <1>1, <4>1 DEF Base, Pointers
    <3>4. \/ run'.pc = "off" /\ run'.work.row # r
          \/ /\ run'.pc = "write" /\ run'.work.row # r /\ run'.todo = run.todo \ { Work.row }
             /\ run'.resume = run.resume
        BY <1>1, <2>4, <3>3 DEF RowLeft, Kept
    <3>5. Fetched(r)' => Fetched(r) /\ run'.resume = run.resume
        BY <3>3, <3>4 DEF Fetched
    <3>6. Known(r)'
        BY <1>0, <3>5 DEF Once, Known, Untouched
    <3>7. Ahead(r)' /\ Found(r)' /\ InHand(r)'
        BY <3>4 DEF Ahead, Found, InHand, Work
    <3> QED
        BY <3>2, <3>6, <3>7 DEF Once
  <2> QED
      BY <1>3, <2>3, <2>4 DEF RollbackIs
<1>4. CASE BeginsByHand(c) \/ Reserve(c)
  <2>1. run' = run /\ \A d \in Connections : d # c => creates'[d] = creates[d]
    <3>1. Reserve(c) => \A d \in Connections : d # c => creates'[d] = creates[d]
        BY <1>0, ReserveIs
    <3> QED
        BY <1>0, <1>4, <3>1 DEF BeginsByHand, BeginCreate, Reserve
  <2>2. creates'[c].of = r => creates[c].of = r
    <3>1. BeginsByHand(c) => creates'[c].of = ByHand
        BY <1>0 DEF BeginsByHand, BeginCreate
    <3>2. Reserve(c) => creates'[c].of = creates[c].of
      <4> SUFFICES ASSUME Reserve(c) PROVE creates'[c].of = creates[c].of
          OBVIOUS
      <4>1. creates[c] \in Creation
          BY <1>0
      <4>2. PICK s \in Nat : creates' = [ creates EXCEPT ![c] =
                  [ creates[c] EXCEPT !.stage = "numbered", !.second = s,
                                      !.number = sequence[creates[c].register] + 1 ] ]
          BY <1>0, ReserveIs
      <4> QED
          BY <1>0, <4>1, <4>2 DEF Creation
    <3>3. ByHand # r
        BY <1>1 DEF ByHand
    <3> QED
        BY <1>4, <3>1, <3>2, <3>3
  <2> QED
      BY <1>0, <1>5, <2>1, <2>2, OnceKeptAside
<1> QED
    BY <1>2, <1>3, <1>4

LEMMA CreatedAtGrows ==
    ASSUME risks \in Seq(Risk), risks' \in Seq(Risk), DOMAIN risks \subseteq DOMAIN risks',
           \A i \in DOMAIN risks : risks'[i].second = risks[i].second, NEW i \in DOMAIN risks
    PROVE  /\ Newer(DOMAIN risks, CreatedAt, i) <= Newer(DOMAIN risks', CreatedAt', i)
           /\ Newer(DOMAIN risks, CreatedAt, i) \in Nat /\ Newer(DOMAIN risks', CreatedAt', i) \in Nat
           /\ MayBeOverlooked(DOMAIN risks, CreatedAt, SearchLimit, i)
                 => MayBeOverlooked(DOMAIN risks', CreatedAt', SearchLimit, i)
<1> DEFINE found  == DOMAIN risks
           more   == DOMAIN risks'
           second == CreatedAt
           seconds == CreatedAt'
<1>1. Seconded(found, second)
    BY RisksSeconded
<1>2. Seconded(more, seconds)
  <2>1. IsFiniteSet(1..Len(risks')) /\ DOMAIN risks' = 1..Len(risks')
      BY LenProperties, FS_Interval
  <2>2. \A q \in more : seconds[q] = risks'[q].second /\ risks'[q] \in Risk
      BY <2>1 DEF CreatedAt
  <2>3. \A q \in more : seconds[q] \in Nat
      BY <2>2 DEF Risk
  <2> QED
      BY <2>1, <2>3 DEF Seconded
<1>3. \A q \in found : seconds[q] = second[q]
    BY DEF CreatedAt
<1>4. found \subseteq more /\ i \in found /\ i \in more
    OBVIOUS
<1> HIDE DEF found, more, second, seconds
<1>5. /\ Newer(found, second, i) <= Newer(more, seconds, i)
      /\ MayBeOverlooked(found, second, SearchLimit, i) => MayBeOverlooked(more, seconds, SearchLimit, i)
    BY <1>1, <1>2, <1>3, <1>4, ListGrows
<1>6. Newer(found, second, i) \in Nat /\ Newer(more, seconds, i) \in Nat
    BY <1>1, <1>2, <1>4, NewerType
<1> QED
    BY <1>5, <1>6 DEF found, more, second, seconds

\* A risk that is committed pushes the others towards the later pages.
LEMMA AheadOfCommit ==
    ASSUME Base, NEW r \in Rows, Ahead(r), Certain(r)', Untouched(r), run' = run,
           NEW c \in Connections, CommitIs(c), [Next]_vars
    PROVE  Ahead(r)'
<1>1. CASE run.pc = "select"
  <2>1. run.found[r] = {} => RisksOf(r) = {}
    <3>1. r \notin crossed'
        BY DEF Certain, MayBeMissed
    <3> QED
        BY <1>1, <3>1 DEF CommitIs, Unseen
  <2> QED
      BY <1>1, <2>1 DEF Ahead, Untouched, RisksOf, IsRiskOf
<1>2. CASE run.pc = "count"
  <2>1. /\ risks \in Seq(Risk) /\ risks' \in Seq(Risk) /\ DOMAIN risks \subseteq DOMAIN risks'
        /\ run.offset \in Nat
        /\ \A i \in DOMAIN risks : risks'[i].second = risks[i].second
      BY RisksGrow DEF Base, Types, RunStates
  <2>2. \A i \in DOMAIN risks : Newer(DOMAIN risks, CreatedAt, i) <= Newer(DOMAIN risks', CreatedAt', i)
        /\ Newer(DOMAIN risks, CreatedAt, i) \in Nat /\ Newer(DOMAIN risks', CreatedAt', i) \in Nat
      BY <2>1, CreatedAtGrows
  <2>3. ASSUME run.found[r] = {}, NEW i, IsRiskOf(i, r)
        PROVE  Newer(DOMAIN risks', CreatedAt', i) >= run.offset
    <3>1. Newer(DOMAIN risks, CreatedAt, i) >= run.offset /\ i \in DOMAIN risks
        BY <1>2, <2>3 DEF Ahead, IsRiskOf
    <3> QED
        BY <2>1, <2>2, <3>1
  <2> QED
      BY <1>2, <2>3 DEF Ahead, Untouched
<1> QED
    BY <1>1, <1>2 DEF Ahead

LEMMA OnceKeptByCommit ==
    ASSUME Base, NEW r \in Rows, Once(r), Certain(r)', NEW c \in Connections, CommitIs(c), [Next]_vars
    PROVE  Once(r)'
<1>0. /\ Types /\ Pointers /\ creates \in [ Connections -> Creation ] /\ late' = late
      /\ late \subseteq [ what : { "assessment", "escalation" }, risk : DOMAIN risks ]
      /\ risks \in Seq(Risk)
    BY DEF Base, Types, CommitIs
<1>1. /\ r # 0 /\ NoCreate.of # r /\ NoWork.row # r /\ Off.work.row # r /\ Off.pc = "off"
      /\ (run.pc # "write" => Work.row # r /\ Work = NoWork)
      /\ (Work.row = r => r \in run.todo /\ Work # NoWork) /\ "none" \notin Connections
    BY RowIs, OffIs, MigrationAssumption
<1>2. creates'[c] = NoCreate /\ \A d \in Connections : d # c => creates'[d] = creates[d]
    BY <1>0 DEF CommitIs
<1>3. \A d \in Connections : creates'[d].of = r => creates[d].of = r /\ d # c
    BY <1>1, <1>2
<1>4. CASE creates[c].of # r
  <2>1. Untouched(r)
      BY <1>4, OtherCommits
  <2>2. CASE run' = run
    <3>1. Ahead(r)'
        BY <2>1, <2>2, AheadOfCommit DEF Once
    <3> QED
        BY <1>0, <1>3, <2>1, <2>2, <3>1, OnceKeptAside
  <2>3. CASE Work.on = c /\ run' # run
    <3>1. Work.row # r /\ Work # NoWork
      <4>1. creates[c].of = Work.row /\ Work # NoWork
          BY <1>0, <1>1, <2>3, OffIs DEF Pointers
      <4> QED
          BY <1>4, <4>1
    <3>2. run.pc = "write"
        BY <1>1, <3>1 DEF Base, Pointers
    <3>3. \A d \in Connections : creates'[d].of # r
        BY <1>3, <3>1 DEF Once, Alone
    <3>4. Single(r)' /\ Alone(r)'
        BY <1>0, <2>1, <3>3, KeptSingleAlone
    <3>5. /\ run'.work.row # r
          /\ \/ run'.pc = "off"
             \/ run'.pc = "write" /\ run'.todo = run.todo /\ run'.resume = run.resume
        BY <1>1, <2>3, <3>1, <3>2 DEF CommitIs, JobTo, Kept
    <3>6. Fetched(r)' => Fetched(r) /\ run'.resume = run.resume
        BY <3>1, <3>2, <3>5 DEF Fetched
    <3>7. Known(r)'
        BY <2>1, <3>6 DEF Once, Known, Untouched
    <3>8. Ahead(r)' /\ Found(r)' /\ InHand(r)'
        BY <3>5 DEF Ahead, Found, InHand, Work
    <3> QED
        BY <3>4, <3>7, <3>8 DEF Once
  <2> QED
      BY <2>2, <2>3 DEF CommitIs
<1>5. CASE creates[c].of = r
  <2> DEFINE n == Len(risks) + 1
  <2>1. Work.row = r /\ Work.on = c /\ Work.risk = 0 /\ \A i : ~IsRiskOf(i, r)
      BY <1>5 DEF Once, Alone, InHand
  <2>2. /\ \A i : IsRiskOf(i, r)' <=> i = n
        /\ risks'[n].assessments = 0 /\ risks'[n].marked = 0 /\ n # 0
      BY <1>5, <2>1, OtherCommits
  <2>3. Single(r)'
      BY <2>2 DEF Single
  <2>4. \A d \in Connections : creates'[d].of # r
      BY <1>3, <2>1 DEF Once, Alone
  <2>5. n \notin DOMAIN risks
      BY <1>0, LenProperties
  <2>6. Alone(r)'
      BY <1>0, <2>2, <2>4, <2>5 DEF Alone
  <2>7. \/ run'.pc = "off" /\ run'.work.row # r
        \/ run'.pc = "write" /\ run'.work.row = r /\ run'.work.risk = n
    <3>1. run.pc = "write"
        BY <1>1, <2>1
    <3> QED
        BY <1>1, <2>1, <3>1 DEF CommitIs, JobTo, Kept
  <2>8. Ahead(r)' /\ Found(r)' /\ Known(r)' /\ InHand(r)'
      BY <2>2, <2>7 DEF Ahead, Found, Known, Fetched, InHand, Work
  <2> QED
      BY <2>3, <2>6, <2>8 DEF Once
<1> QED
    BY <1>4, <1>5

LEMMA OnceNext ==
    ASSUME Base, NEW r \in Rows, Once(r), Certain(r), Certain(r)', [Next]_vars
    PROVE  Once(r)'
<1>0. Types /\ Pointers
    BY DEF Base
<1>1. CASE \/ UNCHANGED vars \/ Turns
           \/ RowLeft /\ Work.risk # 0 /\ UNCHANGED <<entity, history, faults>>
           \/ Leaves
  <2>1. risks' = risks /\ creates' = creates
    <3>1. UNCHANGED vars => risks' = risks /\ creates' = creates
        BY DEF vars, entity
    <3>2. Turns => risks' = risks /\ creates' = creates
        BY TurnsIs DEF entity
    <3>3. UNCHANGED <<entity, history, faults>> => risks' = risks /\ creates' = creates
        BY DEF entity
    <3>4. Leaves => risks' = risks /\ creates' = creates
        BY DEF Leaves
    <3> QED
        BY <1>1, <3>1, <3>2, <3>3, <3>4
  <2> QED
      BY <1>1, <2>1, OnceKeptByRun
<1>2. CallOn(Work.risk) => Once(r)'
    BY OnceKeptByCall
<1>3. OutsideIs => Once(r)'
    BY OnceKeptOutside
<1>4. ASSUME NEW c \in Connections
      PROVE  PostIs(c) \/ CommitIs(c) \/ RollbackIs(c) \/ BeginsByHand(c) \/ Reserve(c) => Once(r)'
    BY OnceKeptByCreation, OnceKeptByCommit
<1> QED
    BY <1>0, <1>1, <1>2, <1>3, <1>4, Steps

LEMMA OnceInit ==
    ASSUME Init, NEW r \in Rows
    PROVE  Once(r)
<1>1. /\ r # 0 /\ NoCreate.of # r /\ NoWork.row # r /\ Off.work = NoWork /\ Off.pc = "off"
    BY MigrationAssumption, NoCreateIs, OffIs DEF ByHand
<1>2. \A i : ~IsRiskOf(i, r)
  <2>1. DOMAIN risks = {}
      BY DEF Init
  <2> QED
      BY <2>1 DEF IsRiskOf
<1>3. Work = NoWork /\ run.pc = "off" /\ late = {} /\ \A c \in Connections : creates[c].of # r
    BY <1>1 DEF Init, Work
<1> QED
    BY <1>1, <1>2, <1>3 DEF Once, Single, Alone, Ahead, Found, Known, Fetched, InHand

\* A row whose risk the searches may miss, or that has a write left behind, stays so.
LEMMA CertainStays ==
    ASSUME Base, [Next]_vars, NEW r \in Rows, Certain(r)'
    PROVE  Certain(r)
<1>0. Types /\ Pointers /\ CreatesOK
    BY DEF Base
<1>1. delayed \subseteq delayed' /\ crossed \subseteq crossed'
  <2>1. UNCHANGED vars => delayed' = delayed /\ crossed' = crossed
      BY DEF vars, history
  <2>2. Turns => delayed' = delayed /\ crossed' = crossed
      BY TurnsIs
  <2>3. CallOn(Work.risk) \/ OutsideIs \/ UNCHANGED <<entity, history, faults>>
            => delayed' = delayed /\ crossed' = crossed
      BY DEF CallOn, OutsideIs, history
  <2>4. Leaves => delayed \subseteq delayed' /\ crossed' = crossed
      BY DEF Leaves
  <2>5. \A c \in Connections :
           PostIs(c) \/ CommitIs(c) \/ RollbackIs(c) \/ BeginsByHand(c) \/ Reserve(c)
             => delayed' = delayed /\ crossed \subseteq crossed'
      BY DEF PostIs, CommitIs, RollbackIs, BeginsByHand, Reserve, history
  <2> QED
      BY <1>0, <2>1, <2>2, <2>3, <2>4, <2>5, Steps
<1>2. /\ risks \in Seq(Risk) /\ risks' \in Seq(Risk) /\ DOMAIN risks \subseteq DOMAIN risks'
      /\ \A i \in DOMAIN risks : risks'[i].second = risks[i].second
    BY <1>0, RisksGrow DEF Types
<1>3. \A i \in RisksOf(r) : i \in RisksOf(r)' /\ i \in DOMAIN risks
  <2>1. \A i : IsRiskOf(i, r) => IsRiskOf(i, r)'
      BY <1>0, RisksGrow
  <2> QED
      BY <2>1 DEF RisksOf, IsRiskOf
<1>4. \A i \in DOMAIN risks : MayBeOverlooked(DOMAIN risks, CreatedAt, SearchLimit, i)
         => MayBeOverlooked(DOMAIN risks', CreatedAt', SearchLimit, i)
    BY <1>2, CreatedAtGrows
<1>5. r \notin delayed' /\ r \notin crossed'
      /\ \A i \in RisksOf(r)' : ~MayBeOverlooked(DOMAIN risks', CreatedAt', SearchLimit, i)
    BY DEF Certain, MayBeMissed
<1> QED
    BY <1>1, <1>3, <1>4, <1>5 DEF Certain, MayBeMissed

Imports == \A r \in Rows : Certain(r) => Once(r)

LEMMA ImportsNext ==
    ASSUME Base, Imports, [Next]_vars
    PROVE  Imports'
<1>1. ASSUME NEW r \in Rows, Certain(r)' PROVE Once(r)'
    BY <1>1, CertainStays, OnceNext DEF Imports
<1> QED
    BY <1>1 DEF Imports

LEMMA BaseTypeOK == Base => MigrationTypeOK
<1> SUFFICES ASSUME Base PROVE MigrationTypeOK
    OBVIOUS
<1>1. Types /\ Pointers /\ CreatesOK /\ Bounded /\ run \in RunStates
    BY DEF Base, Types
<1>2. \A i \in DOMAIN risks : risks[i] \in Risk /\ risks[i].number <= sequence[risks[i].register]
    BY <1>1, RisksAre DEF Types, Bounded
<1>3. \A c \in Connections :
         creates[c].stage = "numbered" => creates[c].number = sequence[creates[c].register] + 1
    BY <1>1 DEF CreatesOK
<1>4. Work.risk # 0 => risks[Work.risk].of = Work.row
    BY <1>1 DEF Pointers, IsRiskOf
<1>5. /\ run.pc \in { "off", "count", "select", "fetch", "write", "verify" } /\ run.todo \subseteq Rows
      /\ run.found \in [ Rows -> SUBSET Match ] /\ run.cutoff \subseteq Rows
      /\ run.resume \in [ Rows -> Resume ]
    BY <1>1 DEF RunStates
<1> QED
    BY <1>1, <1>2, <1>3, <1>4, <1>5 DEF MigrationTypeOK, Types

LEMMA OnceIs ==
    ASSUME Base, NEW r \in Rows, Once(r)
    PROVE  /\ Cardinality(RisksOf(r)) <= 1
           /\ (\E i : IsRiskOf(i, r)) => Cardinality(RisksOf(r)) = 1
<1>1. \A i : i \in RisksOf(r) <=> IsRiskOf(i, r)
    BY DEF RisksOf, IsRiskOf
<1>2. CASE \A i : ~IsRiskOf(i, r)
  <2>1. RisksOf(r) = {}
      BY <1>1, <1>2
  <2> QED
      BY <1>2, <2>1, FS_EmptySet
<1>3. ASSUME NEW i, IsRiskOf(i, r)
      PROVE  Cardinality(RisksOf(r)) = 1
  <2>1. RisksOf(r) = { i }
      BY <1>1, <1>3 DEF Once, Single
  <2> QED
      BY <2>1, FS_Singleton
<1> QED
    BY <1>2, <1>3

-----------------------------------------------------------------------------
(* What a run with nothing to report shows. *)

IsTarget(i, r, cutoff) ==
    /\ \/ risks[i].status = Target(r)
       \/ risks[i].status = "ESCALATED" /\ r \in LaterDue \ (cutoff \cup Closed)
    /\ r \in Differs => risks[i].assessments > 0
    /\ r \in cutoff \ Closed => risks[i].marked > 0
    /\ r \in Closed => risks[i].planDone
    /\ r \notin Closed => GrantsOf(r) \subseteq grants

Imported(r, cutoff) == \E i : IsRiskOf(i, r) /\ IsTarget(i, r, cutoff)

\* After a clean run the row is complete for its date; a verification without a finding
\* so far has found it so.
Final(r) ==
    /\ \A cutoff \in clean : Imported(r, cutoff)
    /\ run.pc = "verify" /\ ~run.findings /\ r \notin run.todo => Imported(r, run.cutoff)

\* A later run of that date finds nothing to do for the row but to walk a risk that the
\* sweep has escalated.
Settled(r) ==
    \/ run.resume[r].stage \in { "REJECT", "Complete" }
    \/ /\ run.resume[r].risk # 0 /\ run.resume[r].status = "ESCALATED"
       /\ r \in Differs => run.resume[r].assessed

Rerun(r) ==
    run.cutoff \in clean =>
        /\ \A m \in run.found[r] : m.status \in { Target(r), "ESCALATED" }
        /\ Fetched(r) => Settled(r)
        /\ Work.row = r => Stuck

LEMMA TargetIsReached ==
    ASSUME NEW r
    PROVE  StatusAtLeast(Target(r), Target(r))
<1>1. Target(r) \in { "CLOSED", "IN_REMEDIATION" }
    BY DEF Target
<1>2. /\ DOMAIN Path = 1..6 /\ Path[6] = "CLOSED" /\ Path[3] = "IN_REMEDIATION"
    BY DEF Path
<1>3. \E n \in DOMAIN Path : Path[n] = Target(r)
    BY <1>1, <1>2
<1>4. Rank(Target(r)) \in DOMAIN Path
    BY <1>3 DEF Rank
<1>5. Rank(Target(r)) >= Rank(Target(r))
  <2>1. Rank(Target(r)) \in Nat
      BY <1>2, <1>4
  <2> QED
      BY <2>1
<1> QED
    BY <1>3, <1>5 DEF StatusAtLeast, OnPath

LEMMA CompleteIs ==
    ASSUME Types, NEW r \in Rows, NEW i, IsRiskOf(i, r), IsTarget(i, r, run.cutoff)
    PROVE  StageOf(r, i, Target(r)) = "Complete"
<1>1. StatusAtLeast(Target(r), Target(r))
    BY TargetIsReached
<1>2. /\ ~(WantsSuppressingEscalation(r) /\ ~HasOpenMarkerEscalation(i))
      /\ ~(r \in Closed /\ ~risks[i].planDone)
    BY DEF IsTarget, WantsSuppressingEscalation, HasOpenMarkerEscalation
<1>3. GrantsSatisfied(r)
    BY DEF IsTarget, GrantsSatisfied, ExpectedGrants
<1>4. ~(NeedsResidualAssessment(r) /\ ~HasMarkerAssessment(i))
    BY DEF IsTarget, NeedsResidualAssessment, HasMarkerAssessment
<1> DEFINE inner == IF \/ WantsSuppressingEscalation(r) /\ ~HasOpenMarkerEscalation(i)
                       \/ r \in Closed /\ ~risks[i].planDone
                    THEN "StatusWalked"
                    ELSE IF ~GrantsSatisfied(r) THEN "Escalated"
                    ELSE IF NeedsResidualAssessment(r) /\ ~HasMarkerAssessment(i) THEN "Granted"
                    ELSE "Complete"
<1>5. inner = "Complete"
    BY <1>2, <1>3, <1>4
<1>6. StageOf(r, i, Target(r)) = inner
  <2>1. StageOf(r, i, Target(r)) = CASE ~StatusAtLeast(Target(r), Target(r)) -> "Created"
                                     [] StatusAtLeast(Target(r), Target(r)) -> inner
      BY DEF StageOf
  <2> HIDE DEF inner
  <2> QED
      BY <1>1, <2>1
<1> QED
    BY <1>5, <1>6

LEMMA VerifiedIs ==
    ASSUME Types, Pointers, NEW r \in Rows, ~Bad(r)
    PROVE  Imported(r, run.cutoff)
<1>1. PICK m \in run.found[r] : VerifyRow(r, m.id)
    BY DEF Bad
<1>2. IsRiskOf(m.id, r)
    BY <1>1 DEF Pointers
<1>3. IsTarget(m.id, r, run.cutoff)
    BY <1>1 DEF VerifyRow, IsTarget, NeedsResidualAssessment, HasMarkerAssessment,
                HasOpenMarkerEscalation, WantsSuppressingEscalation, GrantsSatisfied, ExpectedGrants
<1> QED
    BY <1>2, <1>3 DEF Imported

\* Whoever writes, what a clean run has found complete stays complete for its date.
LEMMA TargetStays ==
    ASSUME Base, NEW r \in Rows, NEW i, NEW cutoff, IsRiskOf(i, r), IsTarget(i, r, cutoff),
           Overdue \subseteq cutoff, [Next]_vars
    PROVE  IsTarget(i, r, cutoff)'
<1>0. Types /\ Pointers /\ CreatesOK /\ risks \in Seq(Risk)
    BY DEF Base, Types
<1>1. i \in DOMAIN risks /\ risks[i] \in Risk /\ risks[i].of = r
    BY <1>0, RisksAre DEF IsRiskOf
<1>2. risks[i].assessments \in Nat /\ risks[i].marked \in Nat
    BY <1>1, RiskFields
<1>3. /\ Target(r) \in { "CLOSED", "IN_REMEDIATION" } /\ (Target(r) = "IN_REMEDIATION" <=> r \notin Closed)
      /\ Target(r)' = Target(r)
    BY DEF Target
<1>4. ASSUME NEW x, x.assessments \in Nat, x.marked \in Nat, risks'[i] = x, grants \subseteq grants',
             \/ x.status = Target(r)
             \/ x.status = "ESCALATED" /\ r \in LaterDue \ (cutoff \cup Closed),
             x.assessments >= risks[i].assessments, x.marked >= risks[i].marked,
             x.planDone \in { TRUE, risks[i].planDone }
      PROVE  IsTarget(i, r, cutoff)'
  <2>1. r \in Differs => x.assessments > 0
      BY <1>2, <1>4 DEF IsTarget
  <2>2. r \in cutoff \ Closed => x.marked > 0
      BY <1>2, <1>4 DEF IsTarget
  <2>3. (r \in Closed => x.planDone) /\ (r \notin Closed => GrantsOf(r) \subseteq grants')
      BY <1>4 DEF IsTarget
  <2> QED
      BY <1>3, <1>4, <2>1, <2>2, <2>3 DEF IsTarget
<1>5. risks'[i] = risks[i] /\ grants \subseteq grants' => IsTarget(i, r, cutoff)'
    BY <1>2, <1>3 DEF IsTarget
<1>6. ASSUME NEW j, NEW u, Writes(j, u), grants \subseteq grants'
      PROVE  /\ j # i => IsTarget(i, r, cutoff)'
             /\ risks'[j] = u /\ u.assessments \in Nat /\ u.marked \in Nat
  <2>1. risks'[j] = u /\ \A q \in DOMAIN risks : q # j => risks'[q] = risks[q]
      BY <1>0, <1>6, WritesIs
  <2>2. u \in Risk
      BY <1>6 DEF Writes
  <2> QED
      BY <1>1, <1>5, <1>6, <2>1, <2>2, RiskFields
<1>7. CallOn(Work.risk) => IsTarget(i, r, cutoff)'
  <2> SUFFICES ASSUME CallOn(Work.risk) PROVE IsTarget(i, r, cutoff)'
      OBVIOUS
  <2>1. grants \subseteq grants'
      BY DEF CallOn
  <2>2. ASSUME NEW u, Writes(Work.risk, u), Adds(Work.risk, u), Work.risk = i,
               u.assessments \in { risks[i].assessments, risks[i].assessments + 1 },
               u.marked \in { risks[i].marked, risks[i].marked + 1 }
        PROVE  IsTarget(i, r, cutoff)'
    <3>1. u.status = risks[i].status /\ u.planDone \in { TRUE, risks[i].planDone }
      <4>1. ~(risks[i].status # "ESCALATED" /\ ~StatusAtLeast(risks[i].status, Target(r)))
          BY TargetIsReached DEF IsTarget
      <4> QED
          BY <1>1, <2>2, <4>1 DEF Adds
    <3>2. risks'[i] = u /\ u.assessments \in Nat /\ u.marked \in Nat
        BY <1>6, <2>1, <2>2
    <3>3. u.assessments >= risks[i].assessments /\ u.marked >= risks[i].marked
        BY <1>2, <2>2
    <3>4. \/ u.status = Target(r)
          \/ u.status = "ESCALATED" /\ r \in LaterDue \ (cutoff \cup Closed)
        BY <3>1 DEF IsTarget
    <3> QED
        BY <1>4, <2>1, <3>1, <3>2, <3>3, <3>4
  <2>3. ASSUME NEW u, Writes(Work.risk, u), Adds(Work.risk, u),
               \/ Work.assess /\ u.assessments = risks[Work.risk].assessments + 1
                     /\ u.marked = risks[Work.risk].marked
               \/ ~(risks[Work.risk].marked > 0) /\ u.marked = risks[Work.risk].marked + 1
                     /\ u.assessments = risks[Work.risk].assessments
               \/ u.marked = risks[Work.risk].marked /\ u.assessments = risks[Work.risk].assessments
        PROVE  IsTarget(i, r, cutoff)'
      BY <1>6, <2>1, <2>2, <2>3
  <2>4. risks' = risks => IsTarget(i, r, cutoff)'
      BY <1>5, <2>1
  <2> QED
      BY <2>3, <2>4 DEF CallOn
<1>8. OutsideIs => IsTarget(i, r, cutoff)'
  <2> SUFFICES ASSUME OutsideIs PROVE IsTarget(i, r, cutoff)'
      OBVIOUS
  <2>1. grants' = grants
      BY DEF OutsideIs
  <2>2. ASSUME NEW w \in late, NEW u, Writes(w.risk, u), OnlyGrows(w.risk, u)
        PROVE  IsTarget(i, r, cutoff)'
    <3>1. CASE w.risk # i
        BY <1>6, <2>1, <2>2, <3>1
    <3>2. CASE w.risk = i
      <4>1. /\ u.status = risks[i].status /\ u.planDone = risks[i].planDone
            /\ u.marked >= risks[i].marked /\ u.assessments >= risks[i].assessments
          BY <2>2, <3>2 DEF OnlyGrows
      <4>2. risks'[i] = u /\ u.assessments \in Nat /\ u.marked \in Nat
          BY <1>6, <2>1, <2>2, <3>2
      <4>3. \/ u.status = Target(r)
            \/ u.status = "ESCALATED" /\ r \in LaterDue \ (cutoff \cup Closed)
          BY <4>1 DEF IsTarget
      <4> QED
          BY <1>4, <2>1, <4>1, <4>2, <4>3
    <3> QED
        BY <3>1, <3>2
  <2>3. ASSUME NEW j, NEW u, Writes(j, u), Swept(j, u),
               u.marked = risks[j].marked /\ u.assessments = risks[j].assessments,
               u.planDone = risks[j].planDone
        PROVE  IsTarget(i, r, cutoff)'
    <3>1. CASE j # i
        BY <1>6, <2>1, <2>3, <3>1
    <3>2. CASE j = i
      <4>1. risks'[i] = u /\ u.assessments \in Nat /\ u.marked \in Nat
          BY <1>6, <2>1, <2>3, <3>2
      <4>2. u.marked >= risks[i].marked /\ u.assessments >= risks[i].assessments
          BY <1>2, <2>3, <3>2
      <4>3. CASE risks[i].status = "ESCALATED" /\ u.status = "IN_REMEDIATION"
        <5>1. u.status = Target(r)
            BY <1>3, <4>3 DEF IsTarget
        <5> QED
            BY <1>4, <2>1, <2>3, <3>2, <4>1, <4>2, <5>1
      <4>4. CASE /\ risks[i].status = "IN_REMEDIATION" /\ risks[i].of \in Overdue \cup LaterDue
                 /\ risks[i].marked = 0 /\ u.status = "ESCALATED"
        <5>1. r \notin Closed
            BY <1>3, <4>4 DEF IsTarget
        <5>2. r \notin cutoff
            BY <4>4, <5>1 DEF IsTarget
        <5>3. r \in LaterDue \ (cutoff \cup Closed)
            BY <1>1, <4>4, <5>1, <5>2
        <5> QED
            BY <1>4, <2>1, <2>3, <3>2, <4>1, <4>2, <4>4, <5>3
      <4> QED
          BY <2>3, <3>2, <4>3, <4>4 DEF Swept
    <3> QED
        BY <3>1, <3>2
  <2>4. risks' = risks => IsTarget(i, r, cutoff)'
      BY <1>5, <2>1
  <2> QED
      BY <2>2, <2>3, <2>4 DEF OutsideIs
<1>9. ASSUME NEW c \in Connections
      PROVE  PostIs(c) \/ RollbackIs(c) \/ BeginsByHand(c) \/ Reserve(c) => IsTarget(i, r, cutoff)'
    BY <1>5 DEF PostIs, RollbackIs, BeginsByHand, Reserve
<1>10. ASSUME NEW c \in Connections, CommitIs(c) PROVE IsTarget(i, r, cutoff)'
  <2>1. creates[c].stage = "numbered" /\ Inserted(creates[c]) /\ grants' = grants
      BY <1>10 DEF CommitIs
  <2>2. creates[c] \in Creation /\ creates[c].register \in Registers
        /\ creates[c].number = sequence[creates[c].register] + 1
      BY <1>0, <2>1, NoCreateIs DEF Types, CreatesOK
  <2>3. creates[c].number # 0
    <3>1. sequence[creates[c].register] \in Nat
        BY <1>0, <2>2 DEF Types
    <3> QED
        BY <2>2, <3>1
  <2>4. risks'[i] = risks[i]
      BY <1>0, <1>1, <2>1, <2>2, <2>3, InsertedIs
  <2> QED
      BY <1>5, <2>1, <2>4
<1>11. UNCHANGED vars \/ Turns \/ UNCHANGED <<entity, history, faults>> \/ Leaves
          => grants' = grants /\ risks' = risks
  <2>1. UNCHANGED vars \/ UNCHANGED <<entity, history, faults>> => grants' = grants /\ risks' = risks
      BY DEF vars, entity
  <2>2. Turns => grants' = grants /\ risks' = risks
      BY TurnsIs DEF entity
  <2>3. Leaves => grants' = grants /\ risks' = risks
      BY DEF Leaves
  <2> QED
      BY <2>1, <2>2, <2>3
<1> QED
    BY <1>0, <1>5, <1>7, <1>8, <1>9, <1>10, <1>11, Steps

LEMMA ImportedStays ==
    ASSUME Base, NEW r \in Rows, NEW cutoff, Imported(r, cutoff), Overdue \subseteq cutoff, [Next]_vars
    PROVE  Imported(r, cutoff)'
<1>1. PICK i : IsRiskOf(i, r) /\ IsTarget(i, r, cutoff)
    BY DEF Imported
<1>2. IsRiskOf(i, r)'
    BY <1>1, RisksGrow DEF Base
<1>3. IsTarget(i, r, cutoff)'
    BY <1>1, TargetStays
<1> QED
    BY <1>2, <1>3 DEF Imported

\* The run's part of a step.
LEMMA RunSteps ==
    ASSUME Base, [Next]_vars
    PROVE  \/ Turns
           \/ clean' = clean /\ run' \in { run, Off }
           \/ clean' = clean /\ RowLeft /\ Work # NoWork
           \/ clean' = clean /\ Work # NoWork /\ ~Stuck /\ \E w \in Job : JobTo(w) /\ w.row = Work.row
<1>1. Types /\ Pointers
    BY DEF Base
<1>2. \A c \in Connections : Work.on = c => Work # NoWork /\ ~Stuck
    BY OffIs, MigrationAssumption DEF Stuck
<1>3. UNCHANGED vars => clean' = clean /\ run' = run
    BY DEF vars, history
<1>4. CallOn(Work.risk) =>
         \/ clean' = clean /\ run' \in { run, Off }
         \/ clean' = clean /\ RowLeft /\ Work # NoWork
         \/ clean' = clean /\ Work # NoWork /\ ~Stuck /\ \E w \in Job : JobTo(w) /\ w.row = Work.row
  <2> SUFFICES ASSUME CallOn(Work.risk), ~RowLeft, run' # Off
               PROVE  clean' = clean /\ Work # NoWork /\ ~Stuck /\ \E w \in Job : JobTo(w) /\ w.row = Work.row
      BY DEF CallOn, history
  <2> QED
      BY DEF CallOn, history
<1>5. RowLeft /\ Work.risk # 0 /\ UNCHANGED <<entity, history, faults>>
         => clean' = clean /\ RowLeft /\ Work # NoWork
    BY OffIs DEF history
<1>6. Leaves => clean' = clean /\ run' = Off
    BY DEF Leaves
<1>7. OutsideIs => clean' = clean /\ run' = run
    BY DEF OutsideIs, history
<1>8. ASSUME NEW c \in Connections,
             PostIs(c) \/ CommitIs(c) \/ RollbackIs(c) \/ BeginsByHand(c) \/ Reserve(c)
      PROVE  \/ clean' = clean /\ run' \in { run, Off }
             \/ clean' = clean /\ RowLeft /\ Work # NoWork
             \/ clean' = clean /\ Work # NoWork /\ ~Stuck /\ \E w \in Job : JobTo(w) /\ w.row = Work.row
  <2>1. clean' = clean
      BY <1>8 DEF PostIs, CommitIs, RollbackIs, BeginsByHand, Reserve, history
  <2>2. CASE PostIs(c)
      BY <2>1, <2>2 DEF PostIs, Stuck
  <2>3. CASE CommitIs(c)
      BY <1>2, <2>1, <2>3 DEF CommitIs
  <2>4. CASE RollbackIs(c)
      BY <1>2, <2>1, <2>4 DEF RollbackIs
  <2>5. CASE BeginsByHand(c) \/ Reserve(c)
      BY <2>1, <2>5 DEF BeginsByHand, Reserve
  <2> QED
      BY <1>8, <2>2, <2>3, <2>4, <2>5
<1> QED
    BY <1>1, <1>3, <1>4, <1>5, <1>6, <1>7, <1>8, Steps

LEMMA FinalNext ==
    ASSUME Base, NEW r \in Rows, Final(r), [Next]_vars
    PROVE  Final(r)'
<1>0. /\ Types /\ Pointers /\ (\A cutoff \in clean : Overdue \subseteq cutoff)
      /\ run.pc # "off" => Overdue \subseteq run.cutoff
      /\ Work # NoWork => run.pc = "write"
    BY DEF Base, Pointers
<1>1. \A cutoff \in clean : Imported(r, cutoff)'
    BY <1>0, ImportedStays DEF Final
<1>2. ASSUME NEW cutoff, cutoff = run.cutoff, run.pc = "verify",
             ~Bad(r) \/ (~run.findings /\ r \notin run.todo)
      PROVE  Imported(r, cutoff)'
  <2>1. Imported(r, cutoff)
      BY <1>0, <1>2, VerifiedIs DEF Final
  <2>2. Overdue \subseteq cutoff
      BY <1>0, <1>2
  <2> QED
      BY <2>1, <2>2, ImportedStays
<1>4. ASSUME clean' = clean, run'.pc = "verify" => r \in run'.todo
      PROVE  Final(r)'
  <2>1. \A cutoff \in clean' : Imported(r, cutoff)'
      BY <1>1, <1>4
  <2> QED
      BY <1>4, <2>1 DEF Final
<1>5. CASE clean' = clean /\ run' = run
  <2>1. \A cutoff : cutoff = run.cutoff /\ run.pc = "verify" /\ ~run.findings /\ r \notin run.todo
                       => Imported(r, cutoff)'
      BY <1>2
  <2>2. \A cutoff \in clean' : Imported(r, cutoff)'
      BY <1>1, <1>5
  <2> QED
      BY <1>5, <2>1, <2>2 DEF Final
<1>6. CASE clean' = clean /\ run' = Off
    BY <1>4, <1>6, OffIs
<1>7. CASE clean' = clean /\ Work # NoWork /\ (RowLeft \/ \E w \in Job : JobTo(w))
    BY <1>0, <1>4, <1>7 DEF RowLeft, JobTo, Kept
<1>8. CASE Turns /\ ~Verify
  <2>1. clean' = clean
      BY <1>8, TurnsIs
  <2>2. SelectPage => (run'.pc = "verify" => run'.todo = Rows)
    <3> SUFFICES ASSUME SelectPage PROVE run'.pc = "verify" => run'.todo = Rows
        OBVIOUS
    <3>1. PICK page \in PagesOf(DOMAIN risks, CreatedAt, run.offset, SearchLimit), last \in BOOLEAN :
              Selected(page, last)
        BY <1>0, SelectIs
    <3> QED
        BY <3>1 DEF Selected
  <2>3. Start \/ CountRisks \/ BeginVerify \/ Fetch \/ TakeRow => run'.pc # "verify"
      BY <1>0, StartIs, CountIs, BeginVerifyIs, FetchIs, TakeRowIs
  <2> QED
      BY <1>4, <1>8, <2>1, <2>2, <2>3 DEF Turns
<1>9. CASE Verify
  <2>0. run.pc = "verify"
      BY <1>9 DEF Verify
  <2>1. CASE /\ run' = Off /\ run.todo = { First }
             /\ clean' = clean \cup (IF Bad(First) \/ run.findings THEN {} ELSE { run.cutoff })
    <3>1. ASSUME NEW cutoff \in clean' PROVE Imported(r, cutoff)'
      <4>1. CASE cutoff \in clean
          BY <1>1, <4>1
      <4>2. CASE cutoff = run.cutoff /\ ~Bad(First) /\ ~run.findings
          BY <1>2, <2>0, <2>1, <4>2
      <4> QED
          BY <2>1, <3>1, <4>1, <4>2
    <3>2. \A cutoff \in clean' : Imported(r, cutoff)'
        BY <3>1
    <3> QED
        BY <2>1, <3>2, OffIs DEF Final
  <2>2. CASE /\ run'.pc = "verify" /\ run'.todo = run.todo \ { First } /\ clean' = clean
             /\ run'.cutoff = run.cutoff /\ run'.findings = (run.findings \/ Bad(First))
    <3>1. ASSUME NEW cutoff, cutoff = run.cutoff, ~run'.findings, r \notin run'.todo
          PROVE  Imported(r, cutoff)'
      <4>1. ~run.findings /\ ~Bad(First) /\ (r = First \/ r \notin run.todo)
          BY <2>2, <3>1
      <4> QED
          BY <1>2, <2>0, <3>1, <4>1
    <3>2. \A cutoff \in clean' : Imported(r, cutoff)'
        BY <1>1, <2>2
    <3> QED
        BY <2>2, <3>1, <3>2 DEF Final
  <2> QED
      BY <1>0, <1>9, <2>1, <2>2, VerifyIs
<1> QED
    BY <1>5, <1>6, <1>7, <1>8, <1>9, RunSteps

LEMMA RerunNext ==
    ASSUME Base, NEW r \in Rows, Once(r), Final(r), Rerun(r), [Next]_vars
    PROVE  Rerun(r)'
<1>0. Types /\ Pointers
    BY DEF Base
<1>1. /\ NoWork.row # r /\ Off.work.row # r /\ Off.pc = "off" /\ Off.found[r] = {} /\ Off.work = NoWork
      /\ (run.pc # "write" => Work.row # r /\ Work = NoWork)
      /\ (Work.row = r => r \in run.todo /\ Work # NoWork)
      /\ (Work # NoWork => run.pc = "write")
    BY <1>0, RowIs, OffIs DEF Pointers
<1>2. Target(r)' = Target(r)
    BY DEF Target
<1>3. ASSUME run' = Off PROVE Rerun(r)'
    BY <1>1, <1>3 DEF Rerun, Fetched, Work
<1>4. ASSUME clean' = clean, run' = run PROVE Rerun(r)'
    BY <1>2, <1>4 DEF Rerun, Fetched, Settled, Stuck, Work
<1>5. ASSUME clean' = clean, run'.cutoff = run.cutoff, run'.found[r] \subseteq run.found[r],
             run'.resume[r] = run.resume[r], Fetched(r)' => Fetched(r), run'.work.row # r
      PROVE  Rerun(r)'
    BY <1>2, <1>5 DEF Rerun, Settled, Work
<1>6. CASE clean' = clean /\ RowLeft /\ Work # NoWork
  <2>1. /\ run'.work = NoWork /\ run'.todo = run.todo \ { Work.row } /\ run'.pc = run.pc
        /\ run'.cutoff = run.cutoff /\ run'.found = run.found /\ run'.resume = run.resume
      BY <1>6 DEF RowLeft, Kept
  <2>2. Fetched(r)' => Fetched(r)
      BY <1>1, <1>6, <2>1 DEF Fetched
  <2> QED
      BY <1>1, <1>5, <1>6, <2>1, <2>2
<1>7. ASSUME clean' = clean, Work # NoWork, ~Stuck, NEW w \in Job, JobTo(w), w.row = Work.row
      PROVE  Rerun(r)'
  <2>1. /\ run'.work.row = Work.row /\ run'.todo = run.todo /\ run'.pc = run.pc
        /\ run'.cutoff = run.cutoff /\ run'.found = run.found /\ run'.resume = run.resume
      BY <1>7 DEF JobTo, Kept
  <2>2. Fetched(r)' => Fetched(r)
      BY <2>1 DEF Fetched, Work
  <2>3. CASE Work.row # r
      BY <1>5, <1>7, <2>1, <2>2, <2>3
  <2>4. CASE Work.row = r
    <3>1. run.cutoff \notin clean
        BY <1>7, <2>4 DEF Rerun
    <3> QED
        BY <1>7, <2>1, <3>1 DEF Rerun
  <2> QED
      BY <2>3, <2>4
<1>8. CASE Start
  <2>1. /\ run'.pc = "count" /\ run'.work = NoWork /\ run'.found[r] = {}
      BY <1>8, StartIs
  <2> QED
      BY <1>1, <2>1 DEF Rerun, Fetched, Work
<1>9. CASE CountRisks \/ BeginVerify
  <2>1. /\ run'.pc \in { "count", "select" } /\ run'.work = NoWork
        /\ run'.cutoff = run.cutoff /\ run'.found = run.found /\ run'.resume = run.resume
      BY <1>0, <1>9, CountIs, BeginVerifyIs
  <2>2. clean' = clean
      BY <1>9 DEF CountRisks, BeginVerify, history
  <2>3. ~Fetched(r)'
      BY <2>1 DEF Fetched
  <2> QED
      BY <1>1, <1>5, <2>1, <2>2, <2>3
<1>10. CASE SelectPage
  <2>1. PICK page \in PagesOf(DOMAIN risks, CreatedAt, run.offset, SearchLimit), last \in BOOLEAN :
            page \subseteq DOMAIN risks /\ Selected(page, last)
      BY <1>0, <1>10, SelectIs
  <2>2. clean' = clean
      BY <1>10 DEF SelectPage, history
  <2>3. /\ run'.pc \in { "count", "fetch", "verify" } /\ run'.work = NoWork
        /\ run'.pc = "count" \/ run'.todo = Rows
        /\ run'.cutoff = run.cutoff /\ run'.found[r] = run.found[r] \cup MatchesOn(page, r)
      BY <2>1 DEF Selected
  <2>4. ASSUME run.cutoff \in clean, NEW m \in MatchesOn(page, r)
        PROVE  m.status \in { Target(r), "ESCALATED" }
    <3>1. IsRiskOf(m.id, r) /\ m.status = risks[m.id].status
        BY <1>0, <2>1, MatchesIs
    <3>2. PICK i : IsRiskOf(i, r) /\ IsTarget(i, r, run.cutoff)
        BY <2>4 DEF Final, Imported
    <3>3. m.id = i
        BY <3>1, <3>2 DEF Once, Single
    <3> QED
        BY <3>1, <3>2, <3>3 DEF IsTarget
  <2>5. ~Fetched(r)' /\ run'.work.row # r
      BY <1>1, <2>3 DEF Fetched
  <2>6. run'.cutoff \in clean' => \A m \in run'.found[r] : m.status \in { Target(r), "ESCALATED" }
      BY <2>2, <2>3, <2>4 DEF Rerun
  <2> QED
      BY <1>2, <2>5, <2>6 DEF Rerun, Work
<1>11. CASE Fetch
  <2>1. run.pc = "fetch" /\ Work = NoWork /\ clean' = clean
      BY <1>1, <1>11 DEF Fetch, history
  <2>2. /\ First \in run.todo /\ run'.work = run.work /\ run'.cutoff = run.cutoff
        /\ run'.resume[First] = ResumeState(First) /\ run'.found[First] = {}
        /\ r # First => run'.resume[r] = run.resume[r] /\ run'.found[r] = run.found[r]
        /\ \/ run'.pc = "write" /\ run'.todo = Rows /\ run.todo = { First }
           \/ run'.pc = "fetch" /\ run'.todo = run.todo \ { First }
      BY <1>0, <1>11, FetchIs
  <2>3. run'.work.row # r
      BY <1>1, <2>1, <2>2 DEF Work
  <2>4. CASE r # First
    <3>1. Fetched(r)' => Fetched(r)
        BY <2>1, <2>2, <2>4 DEF Fetched
    <3> QED
        BY <1>5, <2>1, <2>2, <2>3, <2>4, <3>1
  <2>5. CASE r = First
    <3>1. run'.found[r] = {} /\ run'.resume[r] = ResumeState(r) /\ r \in run.todo
        BY <2>2, <2>5
    <3>2. ASSUME run.cutoff \in clean PROVE Settled(r)'
      <4>1. PICK i : IsRiskOf(i, r) /\ IsTarget(i, r, run.cutoff)
          BY <3>2 DEF Final, Imported
      <4>2. run.found[r] # {}
          BY <2>1, <3>1, <4>1 DEF Once, Found
      <4>3. CASE ResumeState(r).stage = "REJECT"
          BY <3>1, <4>3 DEF Settled
      <4>4. ASSUME NEW m \in Match, run.found[r] = { m } PROVE Settled(r)'
        <5>1. IsRiskOf(m.id, r) /\ m.status \in { Target(r), "ESCALATED" }
            BY <1>0, <3>2, <4>4 DEF Rerun, Pointers
        <5>2. m.id = i
            BY <4>1, <5>1 DEF Once, Single
        <5>3. ResumeState(r) = [ stage |-> StageOf(r, i, m.status), risk |-> i,
                                 status |-> m.status, assessed |-> HasMarkerAssessment(i) ]
            BY <1>0, <4>4, <5>2, ResumeIs
        <5>4. /\ run'.resume[r].stage = StageOf(r, i, m.status) /\ run'.resume[r].risk = i
              /\ run'.resume[r].status = m.status /\ run'.resume[r].assessed = HasMarkerAssessment(i)
            BY <3>1, <5>3
        <5>5. CASE m.status = Target(r)
            BY <1>0, <4>1, <5>4, <5>5, CompleteIs DEF Settled
        <5>6. CASE m.status = "ESCALATED"
          <6>1. i # 0
              BY <1>0, <4>1, RisksAre DEF Types, IsRiskOf
          <6>2. r \in Differs => HasMarkerAssessment(i)
              BY <4>1 DEF IsTarget, HasMarkerAssessment
          <6> QED
              BY <5>4, <5>6, <6>1, <6>2 DEF Settled
        <5> QED
            BY <5>1, <5>5, <5>6
      <4>5. run.found[r] = {} \/ (\E m \in Match : run.found[r] = { m })
            \/ ResumeState(r).stage = "REJECT"
          BY <1>0, ResumeIs
      <4> QED
          BY <4>2, <4>3, <4>4, <4>5
    <3> QED
        BY <2>1, <2>2, <2>3, <3>1, <3>2 DEF Rerun, Work
  <2> QED
      BY <2>4, <2>5
<1>12. CASE TakeRow
  <2>1. /\ First \in run.todo /\ run'.pc = "write" /\ run.pc = "write" /\ Work = NoWork
        /\ run'.cutoff = run.cutoff /\ run'.found = run.found
        /\ r # First => run'.resume[r] = run.resume[r]
        /\ \/ run'.todo = run.todo \ { First } /\ run'.work = NoWork
           \/ /\ run.resume[First].stage \notin { "REJECT", "Complete" }
              /\ run'.todo = run.todo /\ run'.work = JobOf(First)
      BY <1>0, <1>12, TakeRowIs
  <2>2. clean' = clean
      BY <1>12 DEF TakeRow, history
  <2>3. r \in run.todo => Fetched(r)
      BY <1>1, <2>1 DEF Fetched
  <2>4. JobOf(First).row = First
      BY DEF JobOf
  <2>5. Fetched(r)' => r # First /\ r \in run.todo
      BY <2>1, <2>4 DEF Fetched, Work
  <2>6. CASE run'.work.row # r
    <3>1. Fetched(r)' => Fetched(r) /\ run'.resume[r] = run.resume[r]
        BY <2>1, <2>3, <2>5
    <3> QED
        BY <1>2, <2>1, <2>2, <2>6, <3>1 DEF Rerun, Settled, Work
  <2>7. CASE run'.work.row = r
    <3>1. r = First /\ run'.work = JobOf(r) /\ run.resume[r].stage \notin { "REJECT", "Complete" }
        BY <1>1, <2>1, <2>4, <2>7
    <3>2. run.cutoff \in clean => /\ run.resume[r].risk # 0 /\ run.resume[r].status = "ESCALATED"
                                  /\ r \in Differs => run.resume[r].assessed
        BY <2>1, <2>3, <3>1 DEF Rerun, Settled
    <3>3. /\ JobOf(r).risk = run.resume[r].risk /\ JobOf(r).current = run.resume[r].status
          /\ JobOf(r).on = "none" /\ JobOf(r).assess = (r \in Differs /\ ~run.resume[r].assessed)
        BY DEF JobOf, NeedsResidualAssessment
    <3>4. run.cutoff \in clean => Stuck'
        BY <3>1, <3>2, <3>3 DEF Stuck, Work
    <3> QED
        BY <1>2, <2>1, <2>2, <2>5, <3>1, <3>4 DEF Rerun
  <2> QED
      BY <2>6, <2>7
<1>13. CASE Verify
  <2>1. \/ run' = Off
        \/ /\ run'.pc = "verify" /\ run'.work = NoWork /\ run'.resume = run.resume /\ clean' = clean
           /\ run'.cutoff = run.cutoff /\ run'.found[r] \in { {}, run.found[r] }
      BY <1>0, <1>13, VerifyIs
  <2>2. CASE run' = Off
      BY <1>3, <2>2
  <2>3. CASE /\ run'.pc = "verify" /\ run'.work = NoWork /\ run'.resume = run.resume /\ clean' = clean
             /\ run'.cutoff = run.cutoff /\ run'.found[r] \in { {}, run.found[r] }
    <3>1. ~Fetched(r)'
        BY <2>3 DEF Fetched
    <3> QED
        BY <1>1, <1>5, <2>3, <3>1
  <2> QED
      BY <2>1, <2>2, <2>3
<1>14. Turns => Rerun(r)'
    BY <1>8, <1>9, <1>10, <1>11, <1>12, <1>13 DEF Turns
<1> QED
    BY <1>3, <1>4, <1>6, <1>7, <1>14, RunSteps

Finals == \A r \in Rows : Final(r)

Reruns == \A r \in Rows : Certain(r) => Rerun(r)

LEMMA FinalsInit == Init => Finals /\ Reruns
<1> SUFFICES ASSUME Init PROVE Finals /\ Reruns
    OBVIOUS
<1>1. clean = {} /\ run.pc = "off"
    BY OffIs DEF Init
<1> QED
    BY <1>1 DEF Finals, Final, Reruns, Rerun

LEMMA FinalsNext ==
    ASSUME Base, Imports, Finals, Reruns, [Next]_vars
    PROVE  Finals' /\ Reruns'
<1>1. ASSUME NEW r \in Rows PROVE Final(r)'
    BY FinalNext DEF Finals
<1>2. ASSUME NEW r \in Rows, Certain(r)' PROVE Rerun(r)'
  <2>1. Certain(r)
      BY <1>2, CertainStays
  <2> QED
      BY <2>1, RerunNext DEF Imports, Finals, Reruns
<1> QED
    BY <1>1, <1>2 DEF Finals, Reruns

LEMMA ImportedIsMigrated ==
    ASSUME Base, NEW r \in Rows, Once(r), NEW cutoff, Imported(r, cutoff)
    PROVE  Migrated(r, cutoff)
<1>1. PICK i : IsRiskOf(i, r) /\ IsTarget(i, r, cutoff)
    BY DEF Imported
<1>2. Cardinality(RisksOf(r)) = 1
    BY <1>1, OnceIs
<1>3. \A j \in RisksOf(r) : j = i
    BY <1>1 DEF RisksOf, IsRiskOf, Once, Single
<1> QED
    BY <1>1, <1>2, <1>3 DEF Migrated, IsTarget, Target

IInv == Base /\ Imports /\ Finals /\ Reruns

THEOREM Inductive == Spec => []IInv
<1>1. Init => IInv
    BY BaseInit, OnceInit, FinalsInit DEF Imports, IInv
<1>2. IInv /\ [Next]_vars => IInv'
    BY BaseNext, ImportsNext, FinalsNext DEF IInv
<1> QED
    BY <1>1, <1>2, PTL DEF Spec

\* However often the import is interrupted and run again, no row gets a second risk, and no
\* risk of a row a second assessment or escalation: unless a request was carried out after
\* the tool had stopped waiting for it, or a search may have missed the risk.  (main.go,
\* "RESUME".)
THEOREM ImportWritesOnce == Spec => []WrittenOnce
<1>1. IInv => WrittenOnce
  <2> SUFFICES ASSUME IInv PROVE WrittenOnce
      OBVIOUS
  <2>1. Base /\ Imports
      BY DEF IInv
  <2>2. ASSUME NEW r \in Rows, Certain(r)
        PROVE  /\ Cardinality(RisksOf(r)) <= 1
               /\ \A i \in RisksOf(r) : risks[i].assessments <= 1 /\ risks[i].marked <= 1
      BY <2>1, <2>2, OnceIs DEF Imports, RisksOf, IsRiskOf, Once, Single
  <2> QED
      BY <2>1, <2>2, BaseTypeOK DEF WrittenOnce
<1> QED
    BY <1>1, Inductive, PTL

\* Once a run has ended with nothing to report, every row is in the entity with all its
\* parts, through later runs and sweeps: a risk that was overdue on the run's date is never
\* escalated, one that fell due after it may be.  (README of the tool, "Verification".)
THEOREM CleanRunsAreComplete == Spec => []CleanMeansMigrated
<1>1. IInv => CleanMeansMigrated
  <2> SUFFICES ASSUME IInv, NEW cutoff \in clean, NEW r \in Rows, Certain(r) PROVE Migrated(r, cutoff)
      BY DEF CleanMeansMigrated
  <2>1. Base /\ Once(r) /\ Imported(r, cutoff)
      BY DEF IInv, Imports, Finals, Final
  <2> QED
      BY <2>1, ImportedIsMigrated
<1> QED
    BY <1>1, Inductive, PTL

\* After such a run, another one with the same date changes nothing.  (README of the tool:
\* "Every row must come back Skipped".)
THEOREM RerunsAreIdle == Spec => RerunChangesNothing
<1>1. IInv /\ [Next]_vars =>
         [run.cutoff \in clean /\ (\A r \in Rows : Certain(r)) /\ run' # run =>
             UNCHANGED <<risks, grants, creates>>]_vars
  <2> SUFFICES ASSUME IInv, [Next]_vars, run.cutoff \in clean, \A r \in Rows : Certain(r), run' # run
               PROVE  UNCHANGED <<risks, grants, creates>>
      OBVIOUS
  <2>1. Types /\ Pointers /\ run \in RunStates /\ "none" \notin Connections
      BY MigrationAssumption DEF IInv, Base, Types
  <2>2. \A r \in Rows : Work.row = r => Stuck
      BY DEF IInv, Reruns, Rerun
  <2>3. Work # NoWork => Stuck
      BY <2>1, <2>2 DEF Pointers, RunStates
  <2>4. \A c \in Connections : Work.on # c
    <3>1. ASSUME NEW c \in Connections, Work.on = c PROVE FALSE
      <4>1. Work # NoWork
          BY <2>1, <3>1, OffIs
      <4> QED
          BY <2>1, <2>3, <3>1, <4>1 DEF Stuck
    <3> QED
        BY <3>1
  <2>5. UNCHANGED vars \/ OutsideIs => run' = run
      BY DEF vars, OutsideIs
  <2>6. Turns => UNCHANGED <<risks, grants, creates>>
      BY TurnsIs DEF entity
  <2>7. CallOn(Work.risk) => UNCHANGED <<risks, grants, creates>>
      BY <2>3 DEF CallOn
  <2>8. UNCHANGED <<entity, history, faults>> => UNCHANGED <<risks, grants, creates>>
      BY DEF entity
  <2>9. Leaves => UNCHANGED <<risks, grants, creates>>
      BY DEF Leaves
  <2>10. ASSUME NEW c \in Connections
         PROVE  PostIs(c) \/ CommitIs(c) \/ RollbackIs(c) \/ BeginsByHand(c) \/ Reserve(c) => run' = run
    <3>1. ~PostIs(c)
        BY <2>3 DEF PostIs, Stuck
    <3> QED
        BY <2>4, <3>1 DEF CommitIs, RollbackIs, BeginsByHand, Reserve
  <2> QED
      BY <2>1, <2>5, <2>6, <2>7, <2>8, <2>9, <2>10, Steps
<1> QED
    BY <1>1, Inductive, PTL DEF RerunChangesNothing, Spec

=============================================================================
