----------------------------- MODULE MCStartup ------------------------------
(* Starting processes; no symmetry, because the run checks liveness. *)
EXTENDS Startup
=============================================================================
