------------------------- MODULE MCGovernanceReview -------------------------
(* Governance reviews with interchangeable rows, actions and requests. *)
EXTENDS GovernanceReview, TLC

Symmetry ==
  Permutations(Rows) \cup Permutations(Calls) \cup Permutations(Actions)
    \cup Permutations(Deciders) \cup Permutations(Overriders)

=============================================================================
