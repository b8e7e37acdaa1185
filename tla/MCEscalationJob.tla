--------------------------- MODULE MCEscalationJob --------------------------
(* EscalationJob for TLC: its liveness properties admit no symmetry. *)
EXTENDS EscalationJobProperties

=============================================================================
