-------------------------- MODULE MCPolicyVersions --------------------------
(* The policy registry with interchangeable rows, tenants and threads. *)
EXTENDS PolicyVersions, TLC

Symmetry == Permutations(Rows) \cup Permutations(Tenants) \cup Permutations(Calls)

=============================================================================
