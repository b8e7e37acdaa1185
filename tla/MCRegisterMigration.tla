------------------------- MODULE MCRegisterMigration -------------------------
(* RegisterMigration for TLC. *)
EXTENDS RegisterMigrationProperties

CONSTANTS owner, approver, reg

\* The rows share a grantee and a counter.
SharedGrants(r)   == IF r = 1 THEN { owner, approver } ELSE { owner }
SharedRegister(r) == reg

=============================================================================
