----------------------------- MODULE MCPyServer -----------------------------
(* Small instances of the Python server for TLC. *)
EXTENDS PyServerProperties, TLC

\* Children and connections are interchangeable: nothing orders them.
Symmetry == Permutations(Pids) \union Permutations(Conns)
=============================================================================
