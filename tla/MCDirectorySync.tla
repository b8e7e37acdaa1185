--------------------------- MODULE MCDirectorySync ---------------------------
(* DirectorySync for TLC. *)
EXTENDS DirectorySyncProperties

CONSTANTS a, b, audit, risk

\* Both may reassign controls, only b may reassign risks.
AuditByBoth == [ h \in Hubs |-> IF h = audit THEN { a, b } ELSE { b } ]

=============================================================================
