------------------------------ MODULE MCFleet ------------------------------
(* Instances of Fleet for TLC. *)
EXTENDS Fleet, TLC

FleetSymmetry == Permutations(ClientIDs) \cup Permutations(Pages)
=============================================================================
