-------------------------- MODULE MCProcmuxClient --------------------------
(* Small instances of the client library for TLC. *)
EXTENDS ProcmuxClientProperties, TLC

\* Neither callers nor queues are ordered.
Symmetry == Permutations(Callers) \union Permutations(Queues)
=============================================================================
