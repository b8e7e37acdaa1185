--------------------------- MODULE MCEntityCache ---------------------------
(* EntityCache for TLC. *)
EXTENDS EntityCacheProperties

=============================================================================
