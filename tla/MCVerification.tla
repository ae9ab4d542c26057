--------------------------- MODULE MCVerification ---------------------------
(***************************************************************************)
(* Packets, verifications and threads are interchangeable.                 *)
(***************************************************************************)
EXTENDS Verification, TLC

Symmetry == Permutations(Packets) \cup Permutations(Verifs) \cup Permutations(Calls)

=============================================================================
