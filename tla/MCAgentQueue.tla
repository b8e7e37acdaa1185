---------------------------- MODULE MCAgentQueue ----------------------------
(* AgentQueue for TLC: its liveness properties admit no symmetry. *)
EXTENDS AgentQueueProperties

=============================================================================
