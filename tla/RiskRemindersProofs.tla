------------------------- MODULE RiskRemindersProofs ------------------------
(***************************************************************************)
(* Proofs, for any servers, risks, days and bounds, that no reminder is sent *)
(* twice or left claimed by nobody, that the sweep implements the ledger,    *)
(* and that a sweep of a steady list comes to every reminder of its day, but *)
(* for those that pages ordered by the second may miss.                     *)
(***************************************************************************)
EXTENDS RiskRemindersProperties, FiniteSetTheorems, TLAPS

\* Who holds what: one reminder in hand, whose row is this server's; a row is
\* there as long as its reminder is told, lost or in its server's hand.
Claims ==
    /\ \A s \in Servers :
          IF sweeps[s].pc = "notify" THEN \E k \in Reminders : sweeps[s].held = { k }
          ELSE sweeps[s].held = {}
    /\ \A s \in Servers, k \in Reminders :
          k \in sweeps[s].held => holder[k] = s /\ told[k] = 0 /\ k \notin lost
    /\ \A k \in Reminders :
          /\ told[k] <= 1
          /\ k \in lost => told[k] = 0 /\ holder[k] # NoServer
          /\ told[k] > 0 => holder[k] # NoServer
          /\ holder[k] # NoServer =>
                told[k] > 0 \/ k \in lost \/ k \in sweeps[holder[k]].held

\* How many risks of the list are newer: those are before it on every page.
Rank(times, found, r) == Cardinality({ q \in found : times[q] > times[r] })

\* The risks a sweep of that day lists, of the given risks.
ListOf(risks, day) == { r \in Risks : Matches(risks[r], day) }

FallsOn(risks, day, k) ==
    /\ k \in Reminders /\ k.risk \in ListOf(risks, day) /\ k.due = risks[k.risk].due
    /\ k.tier = ReminderTierFor(risks[k.risk].level, k.due, day)

\* One of a list of several pages, and not the only one of its second.
Tied(times, found, r) ==
    /\ Cardinality(found) > PageLimit
    /\ \E q \in found \ { r } : times[q] = times[r]

Later(times, risks, w, k) ==
    /\ Rank(times, ListOf(risks, w.day), k.risk) >= w.offset
    /\ w.pc \in { "list", "select" } \/ w.offset < w.total

Ahead(times, risks, w, k) ==
    \/ <<k.risk, risks[k.risk]>> \in w.page
    \/ Later(times, risks, w, k)
    \/ Tied(times, ListOf(risks, w.day), k.risk)

\* A sweep of a steady list has every reminder it has not come to before it: on
\* its page, or at its offset or later, and then the list has more pages; unless it
\* is one of those that pages may miss.
Covered(times, risks, w) ==
    /\ w.pc \in { "idle", "list", "select" } => w.page = {}
    /\ w.pc = "select" /\ w.steady => w.total = Cardinality(ListOf(risks, w.day))
    /\ w.pc # "idle" /\ w.steady =>
          \A k \in w.watched : FallsOn(risks, w.day, k) /\ Ahead(times, risks, w, k)

Cover == \A s \in Servers : Covered(created, risk, sweeps[s])

IInv == RemindersTypeOK /\ Claims /\ Cover

-----------------------------------------------------------------------------
(* Lists and their pages. *)

\* A finite set of numbers has a largest one: the one with the least above it.
LEMMA Largest ==
    ASSUME NEW S \in SUBSET Nat, IsFiniteSet(S), S # {}
    PROVE  \E m \in S : \A q \in S : q <= m
<1> DEFINE Above(x) == { q \in S : q > x }
           Aboves   == { Above(x) : x \in S }
<1>1. Aboves \subseteq FiniteSubsetsOf(S) /\ Aboves # {}
  <2>1. ASSUME NEW x \in S PROVE Above(x) \in FiniteSubsetsOf(S)
      BY FS_Subset DEF FiniteSubsetsOf
  <2> QED
      BY <2>1
<1>2. PICK A \in Aboves : \A C \in Aboves : <<C, A>> \notin StrictSubsetOrdering(S)
  <2> HIDE DEF Aboves
  <2> QED
      BY <1>1, FS_StrictSubsetOrderingWellFounded, WFMin
<1>3. PICK m \in S : A = Above(m)
    OBVIOUS
<1>4. ASSUME NEW q \in S, q > m PROVE FALSE
  <2>1. Above(q) \subseteq A /\ q \in A /\ q \notin Above(q) /\ A \subseteq S
    <3>1. S \subseteq Nat /\ q \in Nat /\ m \in Nat
        OBVIOUS
    <3>2. \A x : (x \in A <=> x \in S /\ x > m) /\ (x \in Above(q) <=> x \in S /\ x > q)
        BY <1>3
    <3>3. q \in A /\ q \notin Above(q) /\ A \subseteq S
        BY <1>4, <3>1, <3>2
    <3>4. ASSUME NEW x \in Above(q) PROVE x \in A
        BY <1>4, <3>1, <3>2
    <3> QED
        BY <3>3, <3>4
  <2>2. <<Above(q), A>> \in StrictSubsetOrdering(S)
      BY <2>1 DEF StrictSubsetOrdering
  <2> QED
      BY <1>2, <2>2
<1> QED
    BY <1>4

\* A list: some of the risks.
Lists == SUBSET Risks

LEMMA RankType ==
    ASSUME NEW times, NEW found \in Lists, NEW r, times[r] \in Nat
    PROVE  /\ IsFiniteSet(found) /\ Cardinality(found) \in Nat
           /\ IsFiniteSet({ q \in found : times[q] > times[r] })
           /\ Rank(times, found, r) \in Nat
           /\ r \in found => Rank(times, found, r) < Cardinality(found)
<1> DEFINE above == { q \in found : times[q] > times[r] }
<1>1. IsFiniteSet(found)
    BY FS_Subset, RemindersAssumption DEF Lists
<1>2. IsFiniteSet(above) /\ Cardinality(above) <= Cardinality(found)
      /\ (Cardinality(found) = Cardinality(above) => found = above)
    BY <1>1, FS_Subset
<1>3. Cardinality(above) \in Nat /\ Cardinality(found) \in Nat
    BY <1>1, <1>2, FS_CardinalityType
<1>4. r \in found => r \notin above
    OBVIOUS
<1> QED
    BY <1>1, <1>2, <1>3, <1>4 DEF Rank

\* A longer list puts nobody nearer to its beginning, and those of one second stay so.
LEMMA ListGrows ==
    ASSUME NEW times, NEW found \in Lists, NEW more \in Lists, found \subseteq more, NEW r,
           times[r] \in Nat
    PROVE  /\ Rank(times, found, r) <= Rank(times, more, r)
           /\ Tied(times, found, r) => Tied(times, more, r)
<1>1. { q \in found : times[q] > times[r] } \subseteq { q \in more : times[q] > times[r] }
    OBVIOUS
<1>2. Rank(times, found, r) <= Rank(times, more, r)
    BY <1>1, RankType, FS_Subset DEF Rank
<1>3. /\ Cardinality(found) \in Nat /\ Cardinality(more) \in Nat /\ PageLimit \in Nat
      /\ Cardinality(found) <= Cardinality(more)
    BY RankType, FS_Subset, RemindersAssumption
<1>4. Tied(times, found, r) => Tied(times, more, r)
    BY <1>3 DEF Tied
<1> QED
    BY <1>2, <1>4

\* A page is some of the list.
LEMMA PageType ==
    ASSUME NEW found \in Lists, NEW offset \in Nat, NEW page \in PagesOf(found, created, offset, PageLimit)
    PROVE  page \subseteq found /\ Cardinality(page) \in Nat
<1>1. page \subseteq found /\ IsFiniteSet(found)
    BY FS_Subset, RemindersAssumption DEF PagesOf, Lists
<1>2. Cardinality(page) \in Nat
    BY <1>1, FS_Subset, FS_CardinalityType
<1> QED
    BY <1>1, <1>2

\* A risk at the offset or later that the page leaves out is at the next offset or later,
\* and there is more to read, or it shares its second.
LEMMA LeftOut ==
    ASSUME NEW found \in Lists, NEW offset \in Nat, NEW page \in PagesOf(found, created, offset, PageLimit),
           NEW r \in found, r \notin page, created \in [ Risks -> Nat ],
           Rank(created, found, r) >= offset
    PROVE  \/ /\ Rank(created, found, r) >= offset + Cardinality(page)
              /\ offset + Cardinality(page) < Cardinality(found)
           \/ Tied(created, found, r)
<1>1. PICK before \in Beginnings(found, created, offset) :
          page \cap before = {} /\ page \cup before \in Beginnings(found, created, offset + PageLimit)
    BY DEF PagesOf
<1> DEFINE both  == page \cup before
           above == { q \in found : created[q] > created[r] }
<1>2. /\ IsFiniteSet(found) /\ Cardinality(found) \in Nat /\ IsFiniteSet(above)
      /\ Rank(created, found, r) \in Nat /\ Rank(created, found, r) = Cardinality(above)
  <2>1. created[r] \in Nat
      BY DEF Lists
  <2> QED
      BY <2>1, RankType DEF Rank
<1>3. PageLimit \in Nat /\ PageLimit > 0
    BY RemindersAssumption
<1>4. /\ before \subseteq found /\ both \subseteq found
      /\ Cardinality(before) = offset \/ (Cardinality(before) < offset /\ before = found)
      /\ Cardinality(both) = offset + PageLimit
            \/ (Cardinality(both) < offset + PageLimit /\ both = found)
      /\ r \in before => above \subseteq before
      /\ \A q \in both : created[r] > created[q] => r \in both
  <2>1. r \in before => \A q \in found : created[q] > created[r] => q \in before
      BY <1>1 DEF Beginnings
  <2>2. \A t \in both, q \in found : created[q] > created[t] => q \in both
    <3> HIDE DEF both
    <3>1. both \in Beginnings(found, created, offset + PageLimit)
        BY <1>1 DEF both
    <3> QED
        BY <3>1 DEF Beginnings
  <2>3. before \subseteq found
        /\ (Cardinality(before) = offset \/ (Cardinality(before) < offset /\ before = found))
      BY <1>1 DEF Beginnings
  <2>4. both \subseteq found
        /\ (Cardinality(both) = offset + PageLimit
              \/ (Cardinality(both) < offset + PageLimit /\ both = found))
    <3> HIDE DEF both
    <3>1. both \in Beginnings(found, created, offset + PageLimit)
        BY <1>1 DEF both
    <3> QED
        BY <3>1 DEF Beginnings
  <2>5. \A q \in both : created[r] > created[q] => r \in both
      BY <2>2
  <2> HIDE DEF both
  <2> QED
      BY <2>1, <2>3, <2>4, <2>5
<1>5. /\ IsFiniteSet(before) /\ IsFiniteSet(page) /\ IsFiniteSet(both)
      /\ Cardinality(before) \in Nat /\ Cardinality(page) \in Nat
      /\ Cardinality(both) = Cardinality(page) + Cardinality(before)
  <2>1. IsFiniteSet(before) /\ IsFiniteSet(page) /\ IsFiniteSet(both)
      BY <1>2, <1>4, FS_Subset
  <2>2. Cardinality(page \cap before) = 0
      BY <1>1, FS_EmptySet
  <2>3. Cardinality(both) = Cardinality(page) + Cardinality(before) - Cardinality(page \cap before)
      BY <2>1, FS_Union
  <2>4. Cardinality(before) \in Nat /\ Cardinality(page) \in Nat
      BY <2>1, FS_CardinalityType
  <2> QED
      BY <2>1, <2>2, <2>3, <2>4
<1>6. r \notin before
  <2> SUFFICES ASSUME r \in before PROVE FALSE
      OBVIOUS
  <2> DEFINE more == above \cup { r }
  <2>1. more \subseteq before
      BY <1>4
  <2>2. Cardinality(more) = Cardinality(above) + 1
    <3>1. r \notin above /\ Cardinality(above) \in Nat
        BY <1>2 DEF Lists
    <3> HIDE DEF above
    <3> QED
        BY <1>2, <3>1, FS_AddElement
  <2>3. Cardinality(more) <= Cardinality(before)
    <3> HIDE DEF more
    <3> QED
        BY <1>5, <2>1, FS_Subset
  <2> HIDE DEF more, above
  <2> QED
      BY <1>2, <1>4, <1>5, <2>2, <2>3
<1>7. r \notin both /\ both # found
    BY <1>6
<1>8. before # found
    BY <1>6
<1>9. Cardinality(both) = offset + PageLimit /\ Cardinality(before) = offset
      /\ Cardinality(both) = offset + Cardinality(page)
    BY <1>4, <1>5, <1>7, <1>8
<1>10. Cardinality(both) < Cardinality(found)
  <2>1. /\ Cardinality(both) <= Cardinality(found)
        /\ (Cardinality(found) = Cardinality(both) => found = both)
      BY <1>2, <1>4, FS_Subset
  <2> HIDE DEF both
  <2> QED
      BY <1>2, <1>5, <1>7, <1>9, <2>1, <1>3
<1>11. CASE \E q \in found \ { r } : created[q] = created[r]
    BY <1>2, <1>3, <1>9, <1>10, <1>11 DEF Tied
<1>12. CASE ~ \E q \in found \ { r } : created[q] = created[r]
  <2>1. both \subseteq above
    <3>1. ASSUME NEW q \in both PROVE q \in above
      <4>1. q \in found /\ q # r /\ created[q] # created[r] /\ ~(created[r] > created[q])
          BY <1>4, <1>7, <1>12, <3>1
      <4>2. created[q] \in Nat /\ created[r] \in Nat
          BY <4>1 DEF Lists
      <4> QED
          BY <4>1, <4>2
    <3> QED
        BY <3>1
  <2>2. Cardinality(both) <= Cardinality(above)
    <3> HIDE DEF both, above
    <3> QED
        BY <1>2, <2>1, FS_Subset
  <2> QED
      BY <1>2, <1>9, <1>10, <2>2
<1> QED
    BY <1>11, <1>12

\* After an empty page nothing of the list is at the offset or later.
LEMMA NothingLater ==
    ASSUME NEW found \in Lists, NEW offset \in Nat, {} \in PagesOf(found, created, offset, PageLimit),
           NEW r \in found, created \in [ Risks -> Nat ]
    PROVE  ~(Rank(created, found, r) >= offset)
<1>1. PICK before \in Beginnings(found, created, offset) :
          before \in Beginnings(found, created, offset + PageLimit)
  <2>1. PICK before \in Beginnings(found, created, offset) :
            {} \cup before \in Beginnings(found, created, offset + PageLimit)
      BY DEF PagesOf
  <2>2. {} \cup before = before
      OBVIOUS
  <2> QED
      BY <2>1, <2>2
<1>2. /\ Cardinality(before) = offset \/ (Cardinality(before) < offset /\ before = found)
      /\ Cardinality(before) = offset + PageLimit
            \/ (Cardinality(before) < offset + PageLimit /\ before = found)
    BY <1>1 DEF Beginnings
<1>3. /\ PageLimit \in Nat /\ PageLimit > 0 /\ Cardinality(found) \in Nat
      /\ Rank(created, found, r) \in Nat /\ Rank(created, found, r) < Cardinality(found)
  <2>1. created[r] \in Nat
      BY DEF Lists
  <2>2. /\ Cardinality(found) \in Nat /\ Rank(created, found, r) \in Nat
        /\ Rank(created, found, r) < Cardinality(found)
      BY <2>1, RankType
  <2> QED
      BY <2>2, RemindersAssumption
<1>4. before = found /\ Cardinality(found) <= offset
    BY <1>2, <1>3
<1> QED
    BY <1>3, <1>4

-----------------------------------------------------------------------------
(* Types. *)

LEMMA IdleType == Idle \in Sweep /\ Idle.pc = "idle" /\ Idle.held = {} /\ Idle.page = {}
<1>1. PICK d \in Days : TRUE
    BY RemindersAssumption
<1>2. (CHOOSE e \in Days : TRUE) \in Days
    BY <1>1
<1> QED
    BY <1>2 DEF Idle, Sweep

LEMMA SetEffect ==
    ASSUME RemindersTypeOK, NEW s \in Servers, NEW w, Set(s, w)
    PROVE  sweeps'[s] = w /\ \A q \in Servers : q # s => sweeps'[q] = sweeps[q]
BY DEF Set, RemindersTypeOK

LEMMA SetType ==
    ASSUME RemindersTypeOK, NEW s \in Servers, NEW w \in Sweep, Set(s, w)
    PROVE  sweeps' \in [ Servers -> Sweep ]
BY DEF Set, RemindersTypeOK

LEMMA TierType ==
    ASSUME NEW level, NEW due, NEW day
    PROVE  ReminderTierFor(level, due, day) = NoTier \/ ReminderTierFor(level, due, day) \in TiersOf[level]
BY DEF ReminderTierFor

\* The next item of a page is on it.
LEMMA CurrentType ==
    ASSUME RemindersTypeOK, NEW s \in Servers, sweeps[s].page # {}
    PROVE  Current(s) \in sweeps[s].page /\ Current(s) \in Risks \X Item
<1> DEFINE page == sweeps[s].page
           newer == { r \in Risks : \E i \in page : i[1] = r }
<1>1. page \subseteq Risks \X Item
    BY DEF RemindersTypeOK, Sweep
<1>2. newer \in SUBSET Nat /\ IsFiniteSet(newer)
    BY RemindersAssumption, FS_Subset
<1>3. newer # {}
    BY <1>1
<1>4. PICK m \in newer : \A q \in newer : q <= m
  <2> HIDE DEF newer
  <2> QED
      BY <1>2, <1>3, Largest
<1>5. \E i \in page : \A j \in page : j[1] <= i[1]
  <2>1. PICK i \in page : i[1] = m
      OBVIOUS
  <2>2. \A j \in page : j[1] \in newer
      BY <1>1
  <2> QED
      BY <1>4, <2>1, <2>2
<1>6. Current(s) \in page
    BY <1>5 DEF Current
<1> QED
    BY <1>1, <1>6

LEMMA ReminderType ==
    ASSUME RemindersTypeOK, NEW s \in Servers, Due(s)
    PROVE  ReminderOf(s) \in Reminders
<1> DEFINE i == Current(s)
           tier == ReminderTierFor(i[2].level, i[2].due, sweeps[s].day)
<1>1. i[1] \in Risks /\ i[2].due \in Dues /\ i[2].level \in Levels
    BY CurrentType DEF Due, Working, Item
<1>2. ReminderOf(s) = [ risk |-> i[1], due |-> i[2].due, tier |-> tier ]
    BY DEF ReminderOf
<1>3. tier \in Tiers
  <2>1. tier # NoTier
      BY <1>2 DEF Due
  <2>2. TiersOf[i[2].level] \subseteq Tiers
      BY <1>1 DEF TiersOf, Levels, Tiers
  <2> QED
      BY <2>1, <2>2, TierType
<1> HIDE DEF tier, i
<1> QED
    BY <1>1, <1>2, <1>3 DEF Reminders

LEMMA PassedType ==
    ASSUME RemindersTypeOK, NEW s \in Servers
    PROVE  /\ Passed(s) \in Sweep
           /\ Passed(s).pc = "page" /\ Passed(s).held = {}
           /\ Passed(s).page = sweeps[s].page \ { Current(s) }
           /\ Passed(s).watched = sweeps[s].watched \ { ReminderOf(s) }
           /\ Passed(s).day = sweeps[s].day /\ Passed(s).offset = sweeps[s].offset
           /\ Passed(s).total = sweeps[s].total /\ Passed(s).steady = sweeps[s].steady
<1> DEFINE i == Current(s)
           k == ReminderOf(s)
<1>1. sweeps[s] \in Sweep
    BY DEF RemindersTypeOK
<1>2. Passed(s) = [ sweeps[s] EXCEPT !.pc = "page", !.held = {}, !.page = @ \ { i },
                                     !.watched = @ \ { k } ]
    BY DEF Passed
<1> DEFINE rest == sweeps[s].page \ { i }
           left == sweeps[s].watched \ { k }
<1>3. Passed(s) = [ sweeps[s] EXCEPT !.pc = "page", !.held = {}, !.page = rest, !.watched = left ]
    BY <1>1, <1>2 DEF Sweep
<1>4. rest \in SUBSET (Risks \X Item) /\ left \in SUBSET Reminders
    BY <1>1 DEF Sweep
<1>5. {} \in SUBSET Reminders
    OBVIOUS
<1> HIDE DEF i, k, rest, left
<1>6. /\ Passed(s) \in Sweep
      /\ Passed(s).pc = "page" /\ Passed(s).held = {}
      /\ Passed(s).page = rest /\ Passed(s).watched = left
      /\ Passed(s).day = sweeps[s].day /\ Passed(s).offset = sweeps[s].offset
      /\ Passed(s).total = sweeps[s].total /\ Passed(s).steady = sweeps[s].steady
    BY <1>1, <1>3, <1>4, <1>5 DEF Sweep
<1> QED
    BY <1>6 DEF i, k, rest, left

LEMMA ApproachingType ==
    ASSUME NEW day
    PROVE  Approaching(day) \in Lists
BY DEF Approaching, Lists

LEMMA ListType ==
    ASSUME NEW found \in Lists
    PROVE  IsFiniteSet(found) /\ Cardinality(found) \in Nat
BY FS_Subset, FS_CardinalityType, RemindersAssumption DEF Lists

LEMMA TypeInit == Init => RemindersTypeOK
<1> SUFFICES ASSUME Init PROVE RemindersTypeOK
    OBVIOUS
<1>1. \A s \in Servers : sweeps[s] = Idle
    BY DEF Init
<1>2. \A s \in Servers : Cardinality(sweeps[s].held) <= 1
    BY <1>1, IdleType, FS_EmptySet
<1>3. edits \in 0..MaxEdits /\ faults \in 0..MaxFaults
    BY RemindersAssumption DEF Init
<1>4. created \in [ Risks -> Nat ]
    BY RemindersAssumption DEF Init
<1> QED
    BY <1>2, <1>3, <1>4, IdleType DEF Init, RemindersTypeOK

LEMMA FaultType ==
    ASSUME RemindersTypeOK, Fault \/ UNCHANGED faults
    PROVE  faults' \in 0..MaxFaults
BY RemindersAssumption DEF RemindersTypeOK, Fault

LEMMA TypeSweep ==
    ASSUME RemindersTypeOK, Claims, NEW s \in Servers, SweepStep(s)
    PROVE  RemindersTypeOK'
<1> DEFINE w == sweeps[s]
<1>1. w \in Sweep
    BY DEF RemindersTypeOK
<1>2. ASSUME NEW v \in Sweep, Set(s, v), v.held = {} \/ \E k \in Reminders : v.held = { k }
      PROVE  /\ sweeps' \in [ Servers -> Sweep ]
             /\ \A q \in Servers : Cardinality(sweeps'[q].held) <= 1
  <2>1. Cardinality(v.held) <= 1
    <3>1. CASE v.held = {}
        BY <3>1, FS_EmptySet
    <3>2. ASSUME NEW k \in Reminders, v.held = { k } PROVE Cardinality(v.held) <= 1
        BY <3>2, FS_Singleton
    <3> QED
        BY <1>2, <3>1, <3>2
  <2> QED
      BY <1>2, <2>1, SetEffect, SetType DEF RemindersTypeOK
<1>3. w.pc # "notify" => w.held = {}
    BY DEF Claims
<1>4. faults' \in 0..MaxFaults
    BY FaultType DEF SweepStep, RunOnce, Count, Select, ListFails, NoTierToday, Claim, ClaimedByAnother,
        ClaimFails, Sent, NotSent, ReleaseFails, NextPage, Completes, EmptyPage, LastPage, Crash
<1>5. CASE RunOnce(s)
  <2> DEFINE v == [ Idle EXCEPT !.pc = "list", !.day = today, !.watched = Falling(today) ]
  <2>1. Falling(today) \in SUBSET Reminders /\ today \in Days
      BY DEF Falling, RemindersTypeOK
  <2>2. v \in Sweep /\ v.held = {}
    <3> HIDE DEF Falling
    <3> QED
        BY <2>1, IdleType DEF Sweep
  <2>3. Set(s, v)
      BY <1>5 DEF RunOnce
  <2> HIDE DEF v
  <2> QED
      BY <1>2, <1>4, <1>5, <2>2, <2>3 DEF RunOnce, RemindersTypeOK
<1>6. CASE Count(s)
  <2> DEFINE total == Cardinality(Approaching(w.day))
             v == [ w EXCEPT !.pc = "select", !.total = total ]
  <2>1. total \in Nat
      BY ApproachingType, ListType
  <2>2. Set(s, v) /\ w.pc = "list"
      BY <1>6 DEF Count
  <2> HIDE DEF total
  <2>3. v \in Sweep /\ v.held = {}
      BY <1>1, <1>3, <2>1, <2>2 DEF Sweep
  <2> HIDE DEF v
  <2> QED
      BY <1>2, <1>6, <2>2, <2>3 DEF Count, RemindersTypeOK
<1>14. CASE Select(s)
  <2>1. PICK page \in Pages(s) :
            Set(s, [ w EXCEPT !.pc = "page", !.offset = @ + Cardinality(page),
                              !.page = { <<r, risk[r]>> : r \in page } ])
      BY <1>14 DEF Select
  <2>2. page \subseteq Risks /\ Cardinality(page) \in Nat
    <3>1. Approaching(w.day) \in Lists /\ w.offset \in Nat
        BY <1>1, ApproachingType DEF Sweep
    <3>2. page \in PagesOf(Approaching(w.day), created, w.offset, PageLimit)
        BY DEF Pages
    <3>3. page \subseteq Approaching(w.day) /\ Cardinality(page) \in Nat
        BY <3>1, <3>2, PageType
    <3> QED
        BY <3>1, <3>3 DEF Lists
  <2> DEFINE items == { <<r, risk[r]>> : r \in page }
             offset == w.offset + Cardinality(page)
             v == [ w EXCEPT !.pc = "page", !.offset = offset, !.page = items ]
  <2>3. items \in SUBSET (Risks \X Item) /\ offset \in Nat
      BY <1>1, <2>2 DEF RemindersTypeOK, Sweep
  <2>4. Set(s, v) /\ w.pc = "select"
      BY <1>1, <1>14, <2>1 DEF Select, Sweep
  <2> HIDE DEF items, offset
  <2>5. v \in Sweep /\ v.held = {}
      BY <1>1, <1>3, <2>3, <2>4 DEF Sweep
  <2> HIDE DEF v
  <2>6. UNCHANGED <<today, created, risk, holder, told, lost, edits, faults>>
      BY <1>14 DEF Select
  <2> QED
      BY <1>2, <2>4, <2>5, <2>6 DEF RemindersTypeOK
<1>7. CASE ListFails(s) \/ Completes(s)
    BY <1>2, <1>7, IdleType DEF ListFails, Completes, EmptyPage, LastPage, RemindersTypeOK
<1>8. CASE Claim(s)
  <2> DEFINE k == ReminderOf(s)
             v == [ w EXCEPT !.pc = "notify", !.held = @ \cup { k } ]
  <2>1. k \in Reminders /\ w.held = {}
      BY <1>3, <1>8, ReminderType DEF Claim, Due, Working
  <2>2. Set(s, v) /\ holder' = [ holder EXCEPT ![k] = s ]
      BY <1>8 DEF Claim, Claimed
  <2>3. UNCHANGED <<today, created, risk, told, lost, edits, faults>>
      BY <1>8 DEF Claim
  <2> HIDE DEF k
  <2>4. v \in Sweep /\ v.held = { k }
      BY <1>1, <2>1 DEF Sweep
  <2> HIDE DEF v
  <2> QED
      BY <1>2, <2>1, <2>2, <2>3, <2>4 DEF RemindersTypeOK
<1>9. CASE NoTierToday(s) \/ ClaimedByAnother(s)
    BY <1>2, <1>9, PassedType DEF NoTierToday, ClaimedByAnother, RemindersTypeOK
<1>10. CASE ClaimFails(s)
  <2> DEFINE k == ReminderOf(s)
  <2>1. k \in Reminders /\ Set(s, Passed(s))
      BY <1>10, ReminderType DEF ClaimFails
  <2>2. \/ UNCHANGED <<holder, lost>>
        \/ holder' = [ holder EXCEPT ![k] = s ] /\ lost' = lost \cup { k }
      BY <1>10 DEF ClaimFails, Claimed
  <2>3. UNCHANGED <<today, created, risk, told, edits>>
      BY <1>10 DEF ClaimFails
  <2> HIDE DEF k
  <2>4. /\ holder' \in [ Reminders -> Servers \cup { NoServer } ]
        /\ lost' \subseteq Reminders
      BY <2>1, <2>2 DEF RemindersTypeOK
  <2> QED
      BY <1>2, <1>4, <2>1, <2>3, <2>4, PassedType DEF RemindersTypeOK
<1>11. CASE Sent(s) \/ NotSent(s) \/ ReleaseFails(s)
  <2>1. PICK k \in Reminders : w.held = { k } /\ InHand(s) = k
      BY <1>11 DEF Sent, NotSent, ReleaseFails, Holding, InHand, Claims
  <2>2. /\ holder' \in [ Reminders -> Servers \cup { NoServer } ]
        /\ told' \in [ Reminders -> Nat ] /\ lost' \subseteq Reminders
      BY <1>11, <2>1 DEF Sent, NotSent, ReleaseFails, RemindersTypeOK
  <2>3. Set(s, Passed(s)) /\ UNCHANGED <<today, created, risk, edits>>
      BY <1>11 DEF Sent, NotSent, ReleaseFails
  <2> QED
      BY <1>2, <1>4, <2>2, <2>3, PassedType DEF RemindersTypeOK
<1>12. CASE NextPage(s)
  <2> DEFINE v == [ w EXCEPT !.pc = "list" ]
  <2>1. v \in Sweep /\ v.held = {} /\ Set(s, v)
      BY <1>1, <1>3, <1>12 DEF NextPage, PageDone, Sweep
  <2> HIDE DEF v
  <2> QED
      BY <1>2, <1>12, <2>1 DEF NextPage, RemindersTypeOK
<1>13. CASE Crash(s)
  <2>1. w.held \subseteq Reminders
      BY <1>1 DEF Sweep
  <2> QED
      BY <1>2, <1>4, <1>13, <2>1, IdleType DEF Crash, RemindersTypeOK
<1> QED
    BY <1>5, <1>6, <1>7, <1>8, <1>9, <1>10, <1>11, <1>12, <1>13, <1>14 DEF SweepStep

LEMMA SeeingType ==
    ASSUME RemindersTypeOK, NEW s \in Servers, NEW r \in Risks, NEW item \in Item
    PROVE  LET v == Seeing(sweeps[s], r, item)
           IN  /\ v \in Sweep
               /\ v.pc = sweeps[s].pc /\ v.held = sweeps[s].held /\ v.page = sweeps[s].page
               /\ v.day = sweeps[s].day /\ v.offset = sweeps[s].offset /\ v.total = sweeps[s].total
               /\ v.pc # "idle" =>
                     /\ \A k \in v.watched : k \in sweeps[s].watched /\ k.risk # r
                     /\ v.steady =>
                           /\ sweeps[s].steady
                           /\ Matches(risk[r], v.day) => Matches(item, v.day)
                           /\ (v.pc = "select" /\ Matches(item, v.day)) => Matches(risk[r], v.day)
<1> DEFINE w == sweeps[s]
           left == { k \in w.watched : k.risk # r }
           still == /\ w.steady
                    /\ Matches(risk[r], w.day) => Matches(item, w.day)
                    /\ (w.pc = "select" /\ Matches(item, w.day)) => Matches(risk[r], w.day)
           v == Seeing(w, r, item)
<1>1. w \in Sweep
    BY DEF RemindersTypeOK
<1>2. CASE w.pc = "idle"
    BY <1>1, <1>2 DEF Seeing
<1>3. CASE w.pc # "idle"
  <2>1. v = [ w EXCEPT !.watched = left, !.steady = still ]
      BY <1>3 DEF Seeing
  <2>2. left \in SUBSET Reminders /\ still \in BOOLEAN
      BY <1>1 DEF Sweep
  <2>3. \A k \in left : k \in w.watched /\ k.risk # r
      OBVIOUS
  <2> HIDE DEF left, still, v
  <2>4. /\ v \in Sweep
        /\ v.pc = w.pc /\ v.held = w.held /\ v.page = w.page
        /\ v.day = w.day /\ v.offset = w.offset /\ v.total = w.total
        /\ v.watched = left /\ v.steady = still
      BY <1>1, <2>1, <2>2 DEF Sweep
  <2> QED
      BY <1>3, <2>3, <2>4 DEF v, still
<1> QED
    BY <1>2, <1>3

LEMMA TypeNext == RemindersTypeOK /\ Claims /\ [Next]_vars => RemindersTypeOK'
<1> SUFFICES ASSUME RemindersTypeOK, Claims, [Next]_vars PROVE RemindersTypeOK'
    OBVIOUS
<1>1. CASE UNCHANGED vars
    BY <1>1 DEF vars, RemindersTypeOK
<1>2. CASE NextDay
    BY <1>2 DEF NextDay, RemindersTypeOK
<1>3. ASSUME NEW r \in Risks, NEW item \in Item, RiskChanges(r, item) PROVE RemindersTypeOK'
  <2>1. \A s \in Servers : sweeps'[s] = Seeing(sweeps[s], r, item)
      BY <1>3 DEF RiskChanges
  <2>2. sweeps' \in [ Servers -> Sweep ]
      BY <1>3, SeeingType DEF RiskChanges
  <2>3. \A s \in Servers : Cardinality(sweeps'[s].held) <= 1
    <3>1. \A s \in Servers : sweeps'[s].held = sweeps[s].held
        BY <2>1, SeeingType
    <3> QED
        BY <3>1 DEF RemindersTypeOK
  <2>4. risk' \in [ Risks -> Item ] /\ edits' \in 0..MaxEdits
      BY <1>3, RemindersAssumption DEF RiskChanges, RemindersTypeOK
  <2> QED
      BY <1>3, <2>2, <2>3, <2>4 DEF RiskChanges, RemindersTypeOK
<1> QED
    BY <1>1, <1>2, <1>3, TypeSweep DEF Next

-----------------------------------------------------------------------------
(* What a step does to the claims. *)

Hand(s) == sweeps[s].held

\* A server's hand is as it was.
SameHand(q) == Hand(q)' = Hand(q) /\ (sweeps'[q].pc = "notify" <=> sweeps[q].pc = "notify")

OtherHands(s) == \A q \in Servers \ { s } : SameHand(q)

Quiet == UNCHANGED <<holder, told, lost>> /\ \A q \in Servers : SameHand(q)

Takes(s, k) ==
    /\ holder[k] = NoServer /\ holder' = [ holder EXCEPT ![k] = s ] /\ UNCHANGED <<told, lost>>
    /\ Hand(s) = {} /\ Hand(s)' = { k } /\ sweeps'[s].pc = "notify"
    /\ OtherHands(s)

Misses(s, k) ==
    /\ holder[k] = NoServer /\ holder' = [ holder EXCEPT ![k] = s ]
    /\ lost' = lost \cup { k } /\ UNCHANGED told
    /\ \A q \in Servers : SameHand(q)

Lets(s, k) ==
    /\ Hand(s) = { k } /\ Hand(s)' = {} /\ sweeps'[s].pc # "notify"
    /\ OtherHands(s)
    /\ \/ told' = [ told EXCEPT ![k] = @ + 1 ] /\ UNCHANGED <<holder, lost>>
       \/ holder' = [ holder EXCEPT ![k] = NoServer ] /\ UNCHANGED <<told, lost>>
       \/ lost' = lost \cup { k } /\ UNCHANGED <<holder, told>>

ClaimStep ==
    Quiet \/ \E s \in Servers, k \in Reminders : Takes(s, k) \/ Misses(s, k) \/ Lets(s, k)

LEMMA SweepClaims ==
    ASSUME RemindersTypeOK, Claims, NEW s \in Servers, SweepStep(s)
    PROVE  ClaimStep
<1> DEFINE w == sweeps[s]
<1>1. w \in Sweep
    BY DEF RemindersTypeOK
<1>2. ASSUME NEW v, Set(s, v)
      PROVE  /\ sweeps'[s] = v /\ OtherHands(s)
             /\ v.held = Hand(s) /\ (v.pc = "notify" <=> w.pc = "notify") => \A q \in Servers : SameHand(q)
    BY <1>2, SetEffect DEF SameHand, OtherHands, Hand
<1>3. w.pc # "notify" => Hand(s) = {}
    BY DEF Claims, Hand
<1>4. w.pc = "notify" => \E k \in Reminders : Hand(s) = { k }
    BY DEF Claims, Hand
<1>5. CASE RunOnce(s)
  <2> DEFINE v == [ Idle EXCEPT !.pc = "list", !.day = today, !.watched = Falling(today) ]
  <2>1. Set(s, v) /\ w.pc = "idle" /\ UNCHANGED <<holder, told, lost>>
      BY <1>5 DEF RunOnce
  <2>2. v.pc = "list" /\ v.held = {}
      BY DEF Idle
  <2> HIDE DEF v
  <2> QED
      BY <1>2, <1>3, <2>1, <2>2 DEF ClaimStep, Quiet
<1>6. CASE Count(s)
  <2> DEFINE total == Cardinality(Approaching(w.day))
             v == [ w EXCEPT !.pc = "select", !.total = total ]
  <2>1. Set(s, v) /\ w.pc = "list" /\ UNCHANGED <<holder, told, lost>>
      BY <1>6 DEF Count
  <2> HIDE DEF total
  <2>2. v.pc = "select" /\ v.held = w.held
      BY <1>1 DEF Sweep
  <2> HIDE DEF v
  <2> QED
      BY <1>2, <2>1, <2>2 DEF ClaimStep, Quiet, Hand
<1>14. CASE Select(s)
  <2>1. PICK page :
            Set(s, [ w EXCEPT !.pc = "page", !.offset = @ + Cardinality(page),
                              !.page = { <<r, risk[r]>> : r \in page } ])
      BY <1>14 DEF Select
  <2> DEFINE items == { <<r, risk[r]>> : r \in page }
             offset == w.offset + Cardinality(page)
             u == [ w EXCEPT !.pc = "page", !.offset = offset, !.page = items ]
  <2>2. Set(s, u)
      BY <1>1, <2>1 DEF Sweep
  <2> HIDE DEF items, offset
  <2>3. u.pc = "page" /\ u.held = w.held
      BY <1>1 DEF Sweep
  <2>4. PICK v : Set(s, v) /\ v.pc = "page" /\ v.held = w.held
      BY <2>2, <2>3
  <2>5. w.pc = "select" /\ UNCHANGED <<holder, told, lost>>
      BY <1>14 DEF Select
  <2> QED
      BY <1>2, <2>4, <2>5 DEF ClaimStep, Quiet, Hand
<1>7. CASE ListFails(s) \/ Completes(s)
  <2>1. Set(s, Idle) /\ w.pc # "notify" /\ UNCHANGED <<holder, told, lost>>
      BY <1>7 DEF ListFails, Completes, EmptyPage, LastPage, PageDone
  <2> QED
      BY <1>2, <1>3, <2>1, IdleType DEF ClaimStep, Quiet
<1>8. CASE Claim(s)
  <2> DEFINE k == ReminderOf(s)
             v == [ w EXCEPT !.pc = "notify", !.held = @ \cup { k } ]
  <2>1. k \in Reminders /\ Hand(s) = {}
      BY <1>3, <1>8, ReminderType DEF Claim, Due, Working
  <2>2. /\ Set(s, v) /\ holder' = [ holder EXCEPT ![k] = s ] /\ holder[k] = NoServer
        /\ UNCHANGED <<told, lost>>
      BY <1>8 DEF Claim, Claimed, Unclaimed
  <2> HIDE DEF k
  <2>3. v.pc = "notify" /\ v.held = { k }
      BY <1>1, <2>1 DEF Sweep, Hand
  <2> HIDE DEF v
  <2>4. sweeps'[s] = v /\ OtherHands(s)
      BY <1>2, <2>2
  <2>5. Takes(s, k)
      BY <2>1, <2>2, <2>3, <2>4 DEF Takes, Hand
  <2> QED
      BY <2>1, <2>5 DEF ClaimStep
<1>9. CASE NoTierToday(s) \/ ClaimedByAnother(s)
  <2>1. Set(s, Passed(s)) /\ w.pc # "notify" /\ UNCHANGED <<holder, told, lost>>
      BY <1>9 DEF NoTierToday, ClaimedByAnother, Due, Working
  <2> QED
      BY <1>2, <1>3, <2>1, PassedType DEF ClaimStep, Quiet
<1>10. CASE ClaimFails(s)
  <2> DEFINE k == ReminderOf(s)
  <2>1. k \in Reminders
      BY <1>10, ReminderType DEF ClaimFails
  <2>4. Set(s, Passed(s)) /\ w.pc # "notify" /\ UNCHANGED told
      BY <1>10 DEF ClaimFails, Due, Working
  <2>2. \/ UNCHANGED <<holder, lost>>
        \/ holder[k] = NoServer /\ holder' = [ holder EXCEPT ![k] = s ] /\ lost' = lost \cup { k }
      BY <1>10 DEF ClaimFails, Claimed, Unclaimed
  <2>3. \A q \in Servers : SameHand(q)
    <3> DEFINE v == Passed(s)
    <3>1. v.pc # "notify" /\ v.held = {}
        BY PassedType
    <3>2. Set(s, v) /\ Hand(s) = {}
        BY <1>3, <2>4
    <3> HIDE DEF v
    <3> QED
        BY <1>2, <2>4, <3>1, <3>2
  <2> HIDE DEF k
  <2>5. Quiet \/ Misses(s, k)
      BY <2>1, <2>2, <2>3, <2>4 DEF Quiet, Misses
  <2> QED
      BY <2>1, <2>5 DEF ClaimStep
<1>11. CASE Sent(s) \/ NotSent(s) \/ ReleaseFails(s)
  <2>1. PICK k \in Reminders : Hand(s) = { k } /\ InHand(s) = k
      BY <1>4, <1>11 DEF Sent, NotSent, ReleaseFails, Holding, InHand, Hand
  <2>2. Set(s, Passed(s))
      BY <1>11 DEF Sent, NotSent, ReleaseFails
  <2>3. Hand(s)' = {} /\ sweeps'[s].pc # "notify" /\ OtherHands(s)
      BY <1>2, <2>2, PassedType DEF Hand
  <2>4. \/ told' = [ told EXCEPT ![k] = @ + 1 ] /\ UNCHANGED <<holder, lost>>
        \/ holder' = [ holder EXCEPT ![k] = NoServer ] /\ UNCHANGED <<told, lost>>
        \/ lost' = lost \cup { k } /\ UNCHANGED <<holder, told>>
      BY <1>11, <2>1 DEF Sent, NotSent, ReleaseFails, Hand
  <2>5. Lets(s, k)
      BY <2>1, <2>3, <2>4 DEF Lets
  <2> QED
      BY <2>5 DEF ClaimStep
<1>12. CASE NextPage(s)
  <2>1. PICK v : Set(s, v) /\ v.pc = "list" /\ v.held = w.held
      BY <1>1, <1>12 DEF NextPage, Sweep
  <2>2. w.pc = "page" /\ UNCHANGED <<holder, told, lost>>
      BY <1>12 DEF NextPage, PageDone
  <2> QED
      BY <1>2, <2>1, <2>2 DEF ClaimStep, Quiet, Hand
<1>13. CASE Crash(s)
  <2>1. Set(s, Idle) /\ lost' = lost \cup Hand(s) /\ UNCHANGED <<holder, told>>
      BY <1>13 DEF Crash, Hand
  <2>2. sweeps'[s] = Idle /\ OtherHands(s)
      BY <1>2, <2>1
  <2>3. CASE Hand(s) = {}
    <3>1. w.pc # "notify" /\ lost' = lost
        BY <1>4, <2>1, <2>3
    <3> QED
        BY <1>2, <2>1, <2>3, <3>1, IdleType DEF ClaimStep, Quiet
  <2>4. CASE Hand(s) # {}
    <3>1. PICK k \in Reminders : Hand(s) = { k }
        BY <1>3, <1>4, <2>4
    <3>2. Lets(s, k)
        BY <2>1, <2>2, <3>1, IdleType DEF Lets, Hand
    <3> QED
        BY <3>2 DEF ClaimStep
  <2> QED
      BY <2>3, <2>4
<1> QED
    BY <1>5, <1>6, <1>7, <1>8, <1>9, <1>10, <1>11, <1>12, <1>13, <1>14 DEF SweepStep

LEMMA EveryClaimStep == RemindersTypeOK /\ Claims /\ [Next]_vars => ClaimStep
<1> SUFFICES ASSUME RemindersTypeOK, Claims, [Next]_vars PROVE ClaimStep
    OBVIOUS
<1>1. CASE UNCHANGED vars \/ NextDay
    BY <1>1 DEF vars, NextDay, ClaimStep, Quiet, SameHand, Hand
<1>2. ASSUME NEW r \in Risks, NEW item \in Item, RiskChanges(r, item) PROVE ClaimStep
  <2>1. \A q \in Servers : sweeps'[q] = Seeing(sweeps[q], r, item)
      BY <1>2 DEF RiskChanges
  <2>2. \A q \in Servers : SameHand(q)
      BY <2>1, SeeingType DEF SameHand, Hand
  <2> QED
      BY <1>2, <2>2 DEF RiskChanges, ClaimStep, Quiet
<1> QED
    BY <1>1, <1>2, SweepClaims DEF Next

LEMMA ClaimsInit == Init => Claims
<1> SUFFICES ASSUME Init PROVE Claims
    OBVIOUS
<1>1. \A s \in Servers : sweeps[s].pc = "idle" /\ sweeps[s].held = {}
    BY IdleType DEF Init
<1>2. \A k \in Reminders : holder[k] = NoServer /\ told[k] = 0 /\ k \notin lost
    BY DEF Init
<1> QED
    BY <1>1, <1>2 DEF Claims

\* The claims, of one reminder.
Row(k) ==
    /\ told[k] <= 1
    /\ k \in lost => told[k] = 0 /\ holder[k] # NoServer
    /\ told[k] > 0 => holder[k] # NoServer
    /\ holder[k] # NoServer => told[k] > 0 \/ k \in lost \/ k \in Hand(holder[k])
    /\ \A s \in Servers : k \in Hand(s) => holder[k] = s /\ told[k] = 0 /\ k \notin lost

Grip(s) == IF sweeps[s].pc = "notify" THEN \E k \in Reminders : Hand(s) = { k } ELSE Hand(s) = {}

LEMMA ClaimsByRow == Claims <=> (\A s \in Servers : Grip(s)) /\ (\A k \in Reminders : Row(k))
BY DEF Claims, Row, Grip, Hand

LEMMA ClaimsNext == RemindersTypeOK /\ Claims /\ ClaimStep => Claims'
<1> SUFFICES ASSUME RemindersTypeOK, Claims, ClaimStep PROVE Claims'
    OBVIOUS
<1>1. /\ holder \in [ Reminders -> Servers \cup { NoServer } ] /\ told \in [ Reminders -> Nat ]
      /\ NoServer \notin Servers
    BY RemindersAssumption DEF RemindersTypeOK
<1>2. (\A s \in Servers : Grip(s)) /\ (\A k \in Reminders : Row(k))
    BY ClaimsByRow
<1>3. ASSUME NEW q \in Servers, SameHand(q) PROVE Grip(q)'
    BY <1>2, <1>3 DEF Grip, SameHand
<1>4. CASE Quiet
  <2>1. \A q \in Servers : Grip(q)'
      BY <1>3, <1>4 DEF Quiet
  <2>2. \A k \in Reminders : Row(k)'
      BY <1>1, <1>2, <1>4 DEF Quiet, Row, SameHand
  <2> QED
      BY <2>1, <2>2 DEF Claims, Row, Grip, Hand
<1>5. ASSUME NEW s \in Servers, NEW k \in Reminders, Takes(s, k) PROVE Claims'
  <2>1. \A q \in Servers : Grip(q)'
      BY <1>3, <1>5 DEF Takes, OtherHands, Grip
  <2>2. \A j \in Reminders : Row(j)'
      BY <1>1, <1>2, <1>5 DEF Takes, OtherHands, SameHand, Row
  <2> QED
      BY <2>1, <2>2 DEF Claims, Row, Grip, Hand
<1>6. ASSUME NEW s \in Servers, NEW k \in Reminders, Misses(s, k) PROVE Claims'
  <2>1. \A q \in Servers : Grip(q)'
      BY <1>3, <1>6 DEF Misses
  <2>2. \A j \in Reminders : Row(j)'
      BY <1>1, <1>2, <1>6 DEF Misses, SameHand, Row
  <2> QED
      BY <2>1, <2>2 DEF Claims, Row, Grip, Hand
<1>7. ASSUME NEW s \in Servers, NEW k \in Reminders, Lets(s, k) PROVE Claims'
  <2>1. \A q \in Servers : Grip(q)'
      BY <1>3, <1>7 DEF Lets, OtherHands, Grip
  <2>2. \A j \in Reminders : Row(j)'
      BY <1>1, <1>2, <1>7 DEF Lets, OtherHands, SameHand, Row
  <2> QED
      BY <2>1, <2>2 DEF Claims, Row, Grip, Hand
<1> QED
    BY <1>4, <1>5, <1>6, <1>7 DEF ClaimStep

-----------------------------------------------------------------------------
(* The ledger. *)

LEMMA LedgerInit == Init => Ledger!Init
<1> SUFFICES ASSUME Init PROVE Ledger!Init
    OBVIOUS
<1>1. ASSUME NEW k \in Reminders PROVE Entry(k) = "free"
  <2>1. \A s \in Servers : sweeps[s].held = {}
      BY IdleType DEF Init
  <2>2. told[k] = 0 /\ k \notin lost
      BY DEF Init
  <2> QED
      BY <2>1, <2>2 DEF Entry, Held
<1> QED
    BY <1>1 DEF Ledger!Init

LEMMA LedgerNext ==
    RemindersTypeOK /\ Claims /\ ClaimStep => Ledger!Next
<1> SUFFICES ASSUME RemindersTypeOK, Claims, ClaimStep PROVE Ledger!Next
    OBVIOUS
<1>1. /\ holder \in [ Reminders -> Servers \cup { NoServer } ] /\ told \in [ Reminders -> Nat ]
      /\ NoServer \notin Servers
    BY RemindersAssumption DEF RemindersTypeOK
<1>2. (\A s \in Servers : Grip(s)) /\ (\A k \in Reminders : Row(k))
    BY ClaimsByRow
<1>3. \A k \in Reminders : Entry(k)' \in Ledger!Entries
    BY DEF Entry, Ledger!Entries
<1>4. ASSUME NEW k \in Reminders, Entry(k)' # Entry(k)
      PROVE  <<Entry(k), Entry(k)'>> \in Ledger!Legal
  <2>1. CASE Quiet
      BY <1>4, <2>1 DEF Quiet, SameHand, Hand, Entry, Held
  <2>2. ASSUME NEW s \in Servers, NEW j \in Reminders, Takes(s, j)
        PROVE  <<Entry(k), Entry(k)'>> \in Ledger!Legal
    <3>1. k = j
        BY <1>1, <1>4, <2>2 DEF Takes, OtherHands, SameHand, Hand, Entry, Held
    <3>2. Entry(k) = "free"
        BY <1>1, <1>2, <2>2, <3>1 DEF Takes, Row, Hand, Entry, Held
    <3>3. Entry(k)' = "held"
        BY <1>1, <1>2, <2>2, <3>1 DEF Takes, Row, Hand, Entry, Held
    <3> QED
        BY <3>2, <3>3 DEF Ledger!Legal
  <2>3. ASSUME NEW s \in Servers, NEW j \in Reminders, Misses(s, j)
        PROVE  <<Entry(k), Entry(k)'>> \in Ledger!Legal
    <3>1. k = j
        BY <1>1, <1>4, <2>3 DEF Misses, SameHand, Hand, Entry, Held
    <3>2. Entry(k) = "free"
        BY <1>1, <1>2, <2>3, <3>1 DEF Misses, Row, Hand, Entry, Held
    <3>3. Entry(k)' = "lost"
        BY <2>3, <3>1 DEF Misses, Entry
    <3> QED
        BY <3>2, <3>3 DEF Ledger!Legal
  <2>4. ASSUME NEW s \in Servers, NEW j \in Reminders, Lets(s, j)
        PROVE  <<Entry(k), Entry(k)'>> \in Ledger!Legal
    <3>1. k = j
        BY <1>1, <1>4, <2>4 DEF Lets, OtherHands, SameHand, Hand, Entry, Held
    <3>2. Entry(k) = "held"
        BY <1>2, <2>4, <3>1 DEF Lets, Row, Hand, Entry, Held
    <3>3. Entry(k)' \in { "free", "told", "lost" }
      <4>1. ~Held(k)'
          BY <1>2, <2>4, <3>1 DEF Lets, Row, OtherHands, SameHand, Hand, Held
      <4> QED
          BY <4>1 DEF Entry
    <3> QED
        BY <3>2, <3>3 DEF Ledger!Legal
  <2> QED
      BY <2>1, <2>2, <2>3, <2>4 DEF ClaimStep
<1> QED
    BY <1>3, <1>4 DEF Ledger!Next

-----------------------------------------------------------------------------
(* The pages. *)

LEMMA CoverInit == Init => Cover
BY IdleType DEF Init, Cover, Covered

LEMMA CoverSweep ==
    ASSUME RemindersTypeOK, Cover, NEW s \in Servers, SweepStep(s)
    PROVE  Covered(created, risk, sweeps'[s])
<1> DEFINE w == sweeps[s]
<1>1. w \in Sweep /\ Covered(created, risk, w) /\ created \in [ Risks -> Nat ]
    BY DEF RemindersTypeOK, Cover
<1>2. \A day : Approaching(day) = ListOf(risk, day) /\ ListOf(risk, day) \in Lists
    BY DEF Approaching, ListOf, Lists
<1>3. \A v : Set(s, v) => sweeps'[s] = v
    BY SetEffect
<1>4. CASE RunOnce(s)
  <2> DEFINE v == [ Idle EXCEPT !.pc = "list", !.day = today, !.watched = Falling(today) ]
  <2>1. /\ v.pc = "list" /\ v.page = {} /\ v.offset = 0 /\ v.day = today
        /\ v.watched = Falling(today)
      BY DEF Idle
  <2>2. sweeps'[s] = v
      BY <1>3, <1>4 DEF RunOnce
  <2> HIDE DEF v
  <2>3. ASSUME NEW k \in Falling(today) PROVE FallsOn(risk, today, k) /\ Ahead(created, risk, v, k)
    <3>1. FallsOn(risk, today, k)
        BY <1>2 DEF Falling, FallsOn
    <3>2. Rank(created, ListOf(risk, today), k.risk) \in Nat
      <4>1. created[k.risk] \in Nat
          BY <1>1, <3>1 DEF FallsOn, ListOf
      <4> QED
          BY <1>2, <4>1, RankType
    <3> QED
        BY <2>1, <3>1, <3>2 DEF Ahead, Later
  <2> QED
      BY <2>1, <2>2, <2>3 DEF Covered
<1>5. CASE Count(s)
  <2> DEFINE total == Cardinality(ListOf(risk, w.day))
             v == [ w EXCEPT !.pc = "select", !.total = total ]
  <2>1. Set(s, v) /\ w.pc = "list"
      BY <1>2, <1>5 DEF Count
  <2> HIDE DEF total
  <2>2. sweeps'[s] = v /\ v.pc = "select" /\ v.total = total /\ v.page = w.page /\ v.day = w.day
        /\ v.offset = w.offset /\ v.watched = w.watched /\ v.steady = w.steady
      BY <1>1, <1>3, <2>1 DEF Sweep
  <2> HIDE DEF v
  <2>3. v.total = Cardinality(ListOf(risk, v.day))
      BY <2>2 DEF total
  <2> QED
      BY <1>1, <2>1, <2>2, <2>3 DEF Covered, Ahead, Later
<1>12. CASE Select(s)
  <2> DEFINE found == ListOf(risk, w.day)
  <2>1. PICK page \in PagesOf(found, created, w.offset, PageLimit) :
            Set(s, [ w EXCEPT !.pc = "page", !.offset = @ + Cardinality(page),
                              !.page = { <<r, risk[r]>> : r \in page } ])
      BY <1>2, <1>12 DEF Select, Pages
  <2> DEFINE items == { <<r, risk[r]>> : r \in page }
             offset == w.offset + Cardinality(page)
             v == [ w EXCEPT !.pc = "page", !.offset = offset, !.page = items ]
  <2>2. Set(s, v) /\ w.pc = "select"
      BY <1>1, <1>12, <2>1 DEF Select, Sweep
  <2>3. found \in Lists /\ w.offset \in Nat
      BY <1>1, <1>2 DEF Sweep
  <2>4. \A r \in page : <<r, risk[r]>> \in items
      OBVIOUS
  <2> HIDE DEF items, found
  <2>5. sweeps'[s] = v /\ v.pc = "page" /\ v.total = w.total /\ v.offset = offset /\ v.page = items
        /\ v.day = w.day /\ v.watched = w.watched /\ v.steady = w.steady
      BY <1>1, <1>3, <2>2 DEF Sweep
  <2> HIDE DEF v
  <2>6. ASSUME w.steady, NEW k \in w.watched
        PROVE  FallsOn(risk, w.day, k) /\ Ahead(created, risk, v, k)
    <3>1. /\ FallsOn(risk, w.day, k) /\ Ahead(created, risk, w, k) /\ w.page = {}
          /\ w.total = Cardinality(found)
        BY <1>1, <2>2, <2>6 DEF Covered, found
    <3>2. k.risk \in found
        BY <3>1 DEF FallsOn, found
    <3>3. CASE k.risk \in page
        BY <2>4, <2>5, <3>1, <3>3 DEF Ahead
    <3>4. CASE Tied(created, found, k.risk)
        BY <2>5, <3>1, <3>4 DEF Ahead, found
    <3>5. CASE k.risk \notin page /\ ~Tied(created, found, k.risk)
      <4>1. Rank(created, found, k.risk) >= w.offset
          BY <3>1, <3>5 DEF Ahead, Later, found
      <4>2. Rank(created, found, k.risk) >= offset /\ offset < w.total
          BY <1>1, <2>3, <3>1, <3>2, <3>5, <4>1, LeftOut
      <4> QED
          BY <2>5, <3>1, <4>2 DEF Ahead, Later, found
    <3> QED
        BY <3>3, <3>4, <3>5
  <2> QED
      BY <2>5, <2>6 DEF Covered
<1>6. CASE ListFails(s) \/ Completes(s) \/ Crash(s)
  <2>1. sweeps'[s] = Idle
      BY <1>3, <1>6 DEF ListFails, Completes, EmptyPage, LastPage, Crash
  <2> QED
      BY <2>1, IdleType DEF Covered
<1>7. CASE Claim(s)
  <2> DEFINE held == w.held \cup { ReminderOf(s) }
             v == [ w EXCEPT !.pc = "notify", !.held = held ]
  <2>1. Set(s, v) /\ w.pc = "page"
      BY <1>1, <1>7 DEF Claim, Due, Working, Sweep
  <2> HIDE DEF held
  <2>2. sweeps'[s] = v /\ v.pc = "notify" /\ v.page = w.page /\ v.day = w.day /\ v.offset = w.offset
        /\ v.total = w.total /\ v.watched = w.watched /\ v.steady = w.steady
      BY <1>1, <1>3, <2>1 DEF Sweep
  <2> HIDE DEF v
  <2> QED
      BY <1>1, <2>1, <2>2 DEF Covered, Ahead, Later
<1>8. CASE /\ Set(s, Passed(s)) /\ w.pc \in { "page", "notify" }
  <2> DEFINE v == Passed(s)
             i == Current(s)
  <2>1. /\ sweeps'[s] = v /\ v.pc = "page" /\ v.page = w.page \ { i } /\ v.day = w.day
        /\ v.offset = w.offset /\ v.total = w.total /\ v.steady = w.steady
        /\ v.watched = w.watched \ { ReminderOf(s) }
      BY <1>3, <1>8, PassedType
  <2>2. ReminderOf(s) = [ risk |-> i[1], due |-> i[2].due,
                          tier |-> ReminderTierFor(i[2].level, i[2].due, w.day) ]
      BY DEF ReminderOf
  <2> HIDE DEF v, i
  <2>3. ASSUME w.steady, NEW k \in w.watched, k # ReminderOf(s)
        PROVE  FallsOn(risk, w.day, k) /\ Ahead(created, risk, v, k)
    <3>1. FallsOn(risk, w.day, k) /\ Ahead(created, risk, w, k)
        BY <1>1, <1>8, <2>3 DEF Covered
    <3>2. CASE <<k.risk, risk[k.risk]>> \in w.page
      <4>1. <<k.risk, risk[k.risk]>> # i
        <5> SUFFICES ASSUME <<k.risk, risk[k.risk]>> = i PROVE FALSE
            OBVIOUS
        <5>1. i[1] = k.risk /\ i[2].due = k.due /\ k \in Reminders
              /\ k.tier = ReminderTierFor(i[2].level, i[2].due, w.day)
            BY <3>1 DEF FallsOn
        <5>2. k = [ risk |-> k.risk, tier |-> k.tier, due |-> k.due ]
            BY <5>1 DEF Reminders
        <5> QED
            BY <2>2, <2>3, <5>1, <5>2
      <4> QED
          BY <2>1, <3>1, <3>2, <4>1 DEF Ahead
    <3>3. CASE <<k.risk, risk[k.risk]>> \notin w.page
        BY <1>8, <2>1, <3>1, <3>3 DEF Ahead, Later
    <3> QED
        BY <3>2, <3>3
  <2> QED
      BY <2>1, <2>3 DEF Covered
<1>9. CASE NoTierToday(s) \/ ClaimedByAnother(s) \/ ClaimFails(s)
    BY <1>8, <1>9 DEF NoTierToday, ClaimedByAnother, ClaimFails, Due, Working
<1>10. CASE Sent(s) \/ NotSent(s) \/ ReleaseFails(s)
    BY <1>8, <1>10 DEF Sent, NotSent, ReleaseFails, Holding
<1>11. CASE NextPage(s)
  <2> DEFINE v == [ w EXCEPT !.pc = "list" ]
  <2>1. Set(s, v) /\ w.pc = "page" /\ w.page = {}
      BY <1>11 DEF NextPage, PageDone
  <2>2. sweeps'[s] = v /\ v.pc = "list" /\ v.page = w.page /\ v.day = w.day /\ v.offset = w.offset
        /\ v.total = w.total /\ v.watched = w.watched /\ v.steady = w.steady
      BY <1>1, <1>3, <2>1 DEF Sweep
  <2> HIDE DEF v
  <2> QED
      BY <1>1, <2>1, <2>2 DEF Covered, Ahead, Later
<1> QED
    BY <1>4, <1>5, <1>6, <1>7, <1>9, <1>10, <1>11, <1>12 DEF SweepStep

LEMMA CoverNext == RemindersTypeOK /\ Cover /\ [Next]_vars => Cover'
<1> SUFFICES ASSUME RemindersTypeOK, Cover, [Next]_vars PROVE Cover'
    OBVIOUS
<1>1. CASE UNCHANGED vars \/ NextDay
  <2>1. UNCHANGED <<created, risk, sweeps>>
      BY <1>1 DEF vars, NextDay
  <2> QED
      BY <2>1 DEF Cover
<1>2. ASSUME NEW r \in Risks, NEW item \in Item, RiskChanges(r, item), NEW q \in Servers
      PROVE  Covered(created, risk', sweeps'[q])
  <2> DEFINE w == sweeps[q]
             v == Seeing(w, r, item)
             day == w.day
  <2>1. sweeps'[q] = v /\ risk' = [ risk EXCEPT ![r] = item ] /\ Covered(created, risk, w)
      BY <1>2 DEF RiskChanges, Cover
  <2>2. /\ v.pc = w.pc /\ v.page = w.page /\ v.day = day /\ v.offset = w.offset /\ v.total = w.total
        /\ v.pc # "idle" =>
              /\ \A k \in v.watched : k \in w.watched /\ k.risk # r
              /\ v.steady =>
                    /\ w.steady
                    /\ Matches(risk[r], day) => Matches(item, day)
                    /\ (v.pc = "select" /\ Matches(item, day)) => Matches(risk[r], day)
      BY SeeingType
  <2>3. risk \in [ Risks -> Item ] /\ w \in Sweep /\ created \in [ Risks -> Nat ]
      BY DEF RemindersTypeOK
  <2> HIDE DEF v, day
  <2>4. ASSUME v.pc # "idle", v.steady, NEW k \in v.watched
        PROVE  FallsOn(risk', day, k) /\ Ahead(created, risk', v, k)
    <3>1. FallsOn(risk, day, k) /\ Ahead(created, risk, w, k) /\ k.risk # r /\ k.risk \in Risks
        BY <2>1, <2>2, <2>4 DEF Covered, FallsOn, ListOf, day
    <3>2. risk'[k.risk] = risk[k.risk]
        BY <2>1, <2>3, <3>1
    <3>3. FallsOn(risk', day, k)
        BY <3>1, <3>2 DEF FallsOn, ListOf
    <3>4. ListOf(risk, day) \subseteq ListOf(risk', day)
        BY <2>1, <2>2, <2>3, <2>4 DEF ListOf
    <3>5. ListOf(risk, day) \in Lists /\ ListOf(risk', day) \in Lists /\ created[k.risk] \in Nat
        BY <2>3, <3>1 DEF ListOf, Lists
    <3>6. /\ Rank(created, ListOf(risk, day), k.risk) <= Rank(created, ListOf(risk', day), k.risk)
          /\ Tied(created, ListOf(risk, day), k.risk) => Tied(created, ListOf(risk', day), k.risk)
          /\ Rank(created, ListOf(risk, day), k.risk) \in Nat
          /\ Rank(created, ListOf(risk', day), k.risk) \in Nat
          /\ w.offset \in Nat
        BY <2>3, <3>4, <3>5, ListGrows, RankType DEF Sweep
    <3>7. w.day = day
        BY DEF day
    <3> QED
        BY <2>2, <3>1, <3>2, <3>3, <3>6, <3>7 DEF Ahead, Later
  <2>5. ASSUME v.pc = "select", v.steady PROVE v.total = Cardinality(ListOf(risk', day))
    <3>1. ListOf(risk', day) = ListOf(risk, day)
        BY <2>1, <2>2, <2>3, <2>5 DEF ListOf
    <3>2. w.day = day
        BY DEF day
    <3> QED
        BY <2>1, <2>2, <2>5, <3>1, <3>2 DEF Covered
  <2> QED
      BY <2>1, <2>2, <2>4, <2>5 DEF Covered
<1>3. ASSUME NEW s \in Servers, SweepStep(s), NEW q \in Servers
      PROVE  Covered(created, risk', sweeps'[q])
  <2>1. UNCHANGED <<created, risk>>
      BY <1>3 DEF SweepStep, RunOnce, Count, Select, ListFails, NoTierToday, Claim, ClaimedByAnother,
          ClaimFails, Sent, NotSent, ReleaseFails, NextPage, Completes, EmptyPage, LastPage, Crash
  <2>2. CASE q = s
      BY <1>3, <2>1, <2>2, CoverSweep
  <2>3. CASE q # s
    <3>1. \E v : Set(s, v)
        BY <1>3 DEF SweepStep, RunOnce, Count, Select, ListFails, NoTierToday, Claim, ClaimedByAnother,
            ClaimFails, Sent, NotSent, ReleaseFails, NextPage, Completes, EmptyPage, LastPage, Crash
    <3>2. sweeps'[q] = sweeps[q]
        BY <2>3, <3>1, SetEffect
    <3> QED
        BY <2>1, <3>2 DEF Cover
  <2> QED
      BY <2>2, <2>3
<1>4. CASE \E r \in Risks, item \in Item : RiskChanges(r, item)
  <2>1. created' = created
      BY <1>4 DEF RiskChanges
  <2> QED
      BY <1>2, <1>4, <2>1 DEF Cover
<1>5. CASE \E s \in Servers : SweepStep(s)
  <2>1. created' = created
      BY <1>5 DEF SweepStep, RunOnce, Count, Select, ListFails, NoTierToday, Claim, ClaimedByAnother,
          ClaimFails, Sent, NotSent, ReleaseFails, NextPage, Completes, EmptyPage, LastPage, Crash
  <2> QED
      BY <1>3, <1>5, <2>1 DEF Cover
<1> QED
    BY <1>1, <1>4, <1>5 DEF Next

\* A sweep that completes has nothing before it but what pages may miss.
LEMMA NothingAhead ==
    ASSUME RemindersTypeOK, Cover, NEW s \in Servers, Completes(s), sweeps[s].steady,
           NEW k \in sweeps[s].watched
    PROVE  MayBeOverlooked(Approaching(sweeps[s].day), created, PageLimit, k.risk)
<1> DEFINE w == sweeps[s]
           found == ListOf(risk, w.day)
<1>1. w \in Sweep /\ Covered(created, risk, w) /\ created \in [ Risks -> Nat ]
    BY DEF RemindersTypeOK, Cover
<1>2. found = Approaching(w.day) /\ found \in Lists /\ w.offset \in Nat /\ w.total \in Nat
    BY <1>1 DEF ListOf, Approaching, Lists, Sweep
<1>3. FallsOn(risk, w.day, k) /\ Ahead(created, risk, w, k)
    BY <1>1 DEF Covered, Completes, EmptyPage, LastPage, PageDone
<1>4. w.page = {}
    BY <1>1 DEF Covered, Completes, EmptyPage, LastPage, PageDone
<1>5. k.risk \in found
    BY <1>3 DEF FallsOn
<1>6. ~Later(created, risk, w, k)
  <2>1. CASE EmptyPage(s)
    <3>1. {} \in PagesOf(found, created, w.offset, PageLimit)
        BY <1>2, <2>1 DEF EmptyPage, Pages
    <3>2. ~(Rank(created, found, k.risk) >= w.offset)
      <4> HIDE DEF found
      <4> QED
          BY <1>1, <1>2, <1>5, <3>1, NothingLater
    <3> QED
        BY <3>2 DEF Later
  <2>2. CASE LastPage(s)
      BY <1>2, <2>2 DEF LastPage, PageDone, AllRead, Later
  <2> QED
      BY <2>1, <2>2 DEF Completes
<1>7. Tied(created, found, k.risk)
    BY <1>3, <1>4, <1>6 DEF Ahead
<1> QED
    BY <1>2, <1>7 DEF Tied, MayBeOverlooked

-----------------------------------------------------------------------------
(* The theorems. *)

THEOREM Inductive == Spec => []IInv
<1>1. Init => IInv
    BY TypeInit, ClaimsInit, CoverInit DEF IInv
<1>2. IInv /\ [Next]_vars => IInv'
    BY TypeNext, EveryClaimStep, ClaimsNext, CoverNext DEF IInv
<1> QED
    BY <1>1, <1>2, PTL DEF Spec

\* No reminder is reported as sent twice, and every row of risk_reminder is
\* accounted for: told, lost to a fault, or about to be told by its server.
THEOREM ClaimsStayAccountedFor == Spec => []ClaimsAreAccountedFor
<1>1. IInv => ClaimsAreAccountedFor
    BY DEF IInv, Claims, ClaimsAreAccountedFor
<1> QED
    BY <1>1, Inductive, PTL

\* The sweeps of any number of servers implement the ledger of reminders.
THEOREM SweepImplementsLedger == Spec => ImplementsLedger
<1>1. Init => Ledger!Init
    BY LedgerInit
<1>2. IInv /\ [Next]_vars => Ledger!Next
    BY EveryClaimStep, LedgerNext DEF IInv
<1> QED
    BY <1>1, <1>2, Inductive, PTL DEF Spec, ImplementsLedger, Ledger!Spec

\* Pages of any size leave out no reminder of a steady list, unless its risk shares its
\* second with another of a list of several pages.
THEOREM SweepCoversItsList == Spec => SteadyListIsCovered
<1>1. IInv => \A s \in Servers :
                 Completes(s) /\ sweeps[s].steady =>
                     \A k \in sweeps[s].watched :
                         MayBeOverlooked(Approaching(sweeps[s].day), created, PageLimit, k.risk)
    BY NothingAhead DEF IInv
<1> QED
    BY <1>1, Inductive, PTL DEF SteadyListIsCovered

=============================================================================
