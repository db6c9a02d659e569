-------------------------- MODULE MCOrchestrator ---------------------------
(* Instances of Orchestrator for TLC. *)
EXTENDS Orchestrator, TLC

ClientSymmetry == Permutations(ClientIDs)
=============================================================================
