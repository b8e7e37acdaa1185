--------------------------- MODULE MCRiskReminders --------------------------
(* RiskReminders for TLC: the servers are alike. *)
EXTENDS RiskRemindersProperties, TLC

Alike == Permutations(Servers)

=============================================================================
