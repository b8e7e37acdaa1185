----------------------------- MODULE RiskNumbers -----------------------------
(***************************************************************************)
(* What the creation of risks promises about their codes: a counter's       *)
(* numbers are handed out to its risks in the order in which they come to    *)
(* exist, starting at 1, none twice and none left out.                      *)
(***************************************************************************)
EXTENDS Naturals, FiniteSets, Sequences

CONSTANT Registers    \* the counters: a register, or a customer of one

VARIABLE issued       \* of each risk, in the order of creation, its counter and number

Numbered(k) == { i \in DOMAIN issued : issued[i].register = k }

Init == issued = <<>>

Issue(k) ==
    issued' = Append(issued, [ register |-> k, number |-> Cardinality(Numbered(k)) + 1 ])

Next == \E k \in Registers : Issue(k)

Spec == Init /\ [][Next]_issued

=============================================================================
