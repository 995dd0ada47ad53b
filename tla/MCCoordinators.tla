--------------------------- MODULE MCCoordinators ---------------------------
(* The detection and the reconnaissance coordinator on small instances, in  *)
(* one run: `part` picks the one that moves.  To each of them the other is  *)
(* one more client of the stores, which PcapMissionSlot has already.  The   *)
(* lifecycle is the same for both: in reconnaissance no cancel is too late. *)
EXTENDS PcapDetectionCoordinator, TLC

VARIABLES cancelFailed, marker, part

Recon == INSTANCE PcapReconCoordinator

reconVars == <<cancelFailed, marker>>

MCInit ==
  \/ part = "detection" /\ Init /\ cancelFailed = {} /\ marker = {}
  \/ part = "recon" /\ Recon!Init /\ execCancel = {} /\ tooLate = {}

DetectionStep ==
  part = "detection" /\ Next /\ UNCHANGED <<reconVars, part>>

ReconStep ==
  part = "recon" /\ Recon!NextRecon /\ UNCHANGED <<detectionVars, part>>

MCNext == DetectionStep \/ ReconStep

MCSpec == MCInit /\ [][MCNext]_<<vars, reconVars, part>>

Symmetry == Permutations(MissionId)
=============================================================================
