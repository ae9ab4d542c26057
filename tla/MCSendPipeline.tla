--------------------------- MODULE MCSendPipeline ---------------------------
(* Instances of SendPipeline for TLC.                                       *)
EXTENDS SendPipeline, TLC

Symmetry == UNION {Permutations(S) : S \in {Jobs, Approvals, Workers, Requests}}
=============================================================================
