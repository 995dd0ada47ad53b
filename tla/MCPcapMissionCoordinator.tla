---------------------- MODULE MCPcapMissionCoordinator ----------------------
(* The triage coordinator on a small instance. *)
EXTENDS PcapMissionCoordinator, TLC

Symmetry == Permutations(MissionId)
=============================================================================
