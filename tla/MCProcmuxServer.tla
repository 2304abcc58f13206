-------------------------- MODULE MCProcmuxServer --------------------------
(* Small instances of the Rust server for TLC. *)
EXTENDS ProcmuxServerProperties, TLC

\* Children and connections are interchangeable: nothing orders them.
Symmetry == Permutations(Pids) \union Permutations(Conns)

SymmetryAll == Symmetry \union Permutations(Names)
=============================================================================
