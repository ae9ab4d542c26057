----------------------------- MODULE MCEvidence -----------------------------
(* One review, its decision, its overrides and its readers; no symmetry, as *)
(* there is one of each.                                                    *)
EXTENDS Evidence

\* Reviews on both sides of the gate: a draft one point below the threshold, and an
\* outbound one that just reaches it.
TwoVendors ==
  {[sensitivity |-> "confidential", exposure |-> FALSE, autonomy |-> "absent"],
   [sensitivity |-> "public", exposure |-> TRUE, autonomy |-> "absent"]}

=============================================================================
