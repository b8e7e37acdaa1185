---------------------------- MODULE SearchPages -----------------------------
(***************************************************************************)
(* The pages of /risks/search.  A list is ordered by created_at DESC and     *)
(* nothing else, a DATETIME of whole seconds: which of the risks of one      *)
(* second come first is up to each query.                                   *)
(***************************************************************************)
EXTENDS Naturals, FiniteSets

\* The first n of a list, its risks having been created at these seconds.
Beginnings(found, second, n) ==
    { first \in SUBSET found :
        /\ \/ Cardinality(first) = n
           \/ Cardinality(first) < n /\ first = found
        /\ \A r \in first, q \in found : second[q] > second[r] => q \in first }

\* What LIMIT and OFFSET can leave of it.
PagesOf(found, second, offset, limit) ==
    { page \in SUBSET found :
        \E before \in Beginnings(found, second, offset) :
            /\ page \cap before = {}
            /\ page \cup before \in Beginnings(found, second, offset + limit) }

\* Pages may miss a risk that shares its second with another of a list of several pages.
MayBeOverlooked(found, second, limit, r) ==
    /\ Cardinality(found) > limit
    /\ \E q \in found \ { r } : second[q] = second[r]

=============================================================================
