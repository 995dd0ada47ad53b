---------------------------- MODULE MCInspections ----------------------------
(* From the permission to inspect captures to their reports, on small       *)
(* instances in one run: the authorization store, which lets a mission      *)
(* begin; the batch scripts a mission ends up in; and the way of one        *)
(* capture's report through the container and the validators.  `part` picks *)
(* which of them moves: the store knows nothing of what is done with its    *)
(* tokens, and to a batch a report is just the content it was made from.    *)
EXTENDS PcapAuthorization, TLC

CONSTANTS
  File, MaxContent, Size, MaxFiles, MaxBatches, MaxReplaced,   \* PcapBatchScripts
  MaxPackets, MaxTime, Rule, MinPackets, MinDestinations, Window,
  MaxEvidence                                    \* CaptureReports

VARIABLES content, reports, state, batch, inspector, marker, batches, replaced,
          public, recorded,
          capture, mode, report, stage, part

Scripts == INSTANCE PcapBatchScripts

Reports == INSTANCE CaptureReports

ASSUME InspectionsAssumption ==
  AuthAssumption /\ Scripts!ScriptsAssumption /\ Reports!ReportsAssumption

(* Every content is of a size of its own.                                   *)
Sizes == [c \in 0..MaxContent |-> c]

(* Two batches of triage beside one of reconnaissance.                      *)
TwoAndOne == [triage |-> 2, recon |-> 1]

scriptVars == <<content, reports, state, batch, inspector, marker, batches,
                replaced, public, recorded>>
reportVars == <<capture, mode, report, stage>>
mcVars == <<authVars, scriptVars, reportVars, part>>

(* The parts that do not move start in one state.  The captures start with  *)
(* one content; replacing them yields the others.                           *)
ReportRests ==
  /\ stage = "capture"
  /\ capture = [packets |-> <<>>, magic |-> "pcap", name |-> "pcap"]
  /\ mode = "Preflight" /\ report = Reports!NoReport

MCInit ==
  /\ part \in {"authorizations", "batches", "reports"}
  /\ Init /\ Scripts!Init
  /\ content = [f \in File |-> 0]
  /\ IF part = "reports" THEN Reports!Init ELSE ReportRests

AuthorizationStep ==
  /\ part = "authorizations" /\ Next
  /\ UNCHANGED <<scriptVars, reportVars, part>>

BatchStep ==
  /\ part = "batches" /\ Scripts!Next
  /\ UNCHANGED <<authVars, reportVars, part>>

ReportStep ==
  /\ part = "reports" /\ Reports!Next
  /\ UNCHANGED <<authVars, scriptVars, part>>

MCNext == AuthorizationStep \/ BatchStep \/ ReportStep

MCSpec == MCInit /\ [][MCNext]_mcVars
-----------------------------------------------------------------------------
(* Whatever succeeded was read from the content it names, unless that was   *)
(* taken away and put back meanwhile.                                       *)
EvidenceMatchesContent == Scripts!EvidenceMatchesContent

(* A killed batch is resumed where it was.                                  *)
ResumeIsExact == Scripts!ResumeIsExact

(* No capture is passed over but for a recorded success.                    *)
NothingIsPassedOver == Scripts!NothingIsPassedOver

(* The validators of the container and the host agree on a report.          *)
ValidatorsAgree == Reports!ValidatorsAgree
=============================================================================
