---------------------------- MODULE MCMcpAdapter ----------------------------
(* Small instances of McpAdapter; request ids are interchangeable. *)
EXTENDS McpAdapter, TLC

Symmetry == Permutations(Ids)
=============================================================================
