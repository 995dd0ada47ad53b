--------------------------- MODULE MCMissionsLive ---------------------------
(* The liveness of the triage and of the detection coordinator, in one run: *)
(* `part` picks the one that moves.  The fairness is that of the two        *)
(* modules, action by action.                                               *)
EXTENDS PcapMissionCoordinator

CONSTANT MaxFiles

VARIABLES execCancel, tooLate, part

Detection == INSTANCE PcapDetectionCoordinator

detectionVars == <<execCancel, tooLate>>
mcVars == <<vars, detectionVars, part>>

MCInit ==
  \/ part = "triage" /\ Init /\ execCancel = {} /\ tooLate = {}
  \/ part = "detection" /\ Detection!Init /\ cancelFailed = {} /\ marker = {}

Triage(A) == part = "triage" /\ A /\ UNCHANGED <<detectionVars, part>>
Detecting(A) == part = "detection" /\ A /\ UNCHANGED <<cancelVars, part>>

TriageStep == Triage(Next)
DetectionStep == Detecting(Detection!Next)

MCNext == TriageStep \/ DetectionStep

(* Only one part ever moves, so what is fair to an action of either is fair *)
(* to both.                                                                 *)
SlotMove(A) == A /\ UNCHANGED <<cancelVars, detectionVars, part>>

MCFairness ==
  /\ WF_mcVars(SlotMove(StartConsume))
  /\ WF_mcVars(SlotMove(\E m \in MissionId : StartPublish(m)))
  /\ WF_mcVars(SlotMove(CloseDrain))
  /\ WF_mcVars(SlotMove(CloseDone))
  /\ WF_mcVars(Triage(CancelRecord) \/ Detecting(Detection!CancelRecord))
  /\ WF_mcVars(\/ Triage(ExecutorStops \/ ExecutorReturns)
               \/ Detecting(Detection!Executing))
  /\ SF_mcVars(Triage(Begin))
  /\ WF_mcVars(Detecting(Detection!Begin))
  /\ SF_mcVars(Triage(ReadFlags) \/ Detecting(Detection!ReadCancelled))
  /\ SF_mcVars(Triage(Finish))
  /\ WF_mcVars(Detecting(Detection!Publish))
  /\ SF_mcVars(Triage(LeaveRun) \/ Detecting(Detection!LeaveRun))
  /\ SF_mcVars(\E m \in MissionId : \/ Triage(Cancel(m, TRUE))
                                   \/ Detecting(Detection!Cancel(m, TRUE)))

MCSpec == MCInit /\ [][MCNext]_mcVars /\ MCFairness
=============================================================================
