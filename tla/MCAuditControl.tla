--------------------------- MODULE MCAuditControl ---------------------------
(* AuditControl for TLC: requests are alike. *)
EXTENDS AuditControlProperties, TLC

Alike == Permutations(Requests)

=============================================================================
