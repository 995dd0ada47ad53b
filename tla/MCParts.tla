------------------------------ MODULE MCParts ------------------------------
(* The parts the coordinators are built on, each on its own and on a small  *)
(* instance, in one run: the mission store, the detection executor and the  *)
(* reader of TShark in the preflight.  They do not interact here (the       *)
(* coordinators' modules compose them): `part` picks the one that moves.    *)
EXTENDS SuperAgentMissionStore, TLC

CONSTANTS
  MaxFiles, MaxWorkers, EvidenceId, MaxEvidence, Failed,
                                                       \* PcapDetectionExecutor
  MaxRows, PipeSize, QueueSize, MaxStderr, StderrLimit \* TsharkRows

VARIABLES selected, started, report, completed, pc, cancelRequested, progress,
          result, startedLate,
          tshark, pipe, errPipe, queue, reader, sink, main, late, rows, part

Executor == INSTANCE PcapDetectionExecutor
Preflight == INSTANCE TsharkRows

ASSUME PartsAssumption ==
  Executor!ExecutorAssumption /\ Preflight!ReaderAssumption

missionVars == <<missions, expired, puts>>
executorVars == <<selected, started, report, completed, pc, cancelRequested,
                  progress, result, startedLate>>
preflightVars == <<tshark, pipe, errPipe, queue, reader, sink, main, late, rows>>
mcVars == <<missionVars, clock, executorVars, preflightVars, part>>

(* A part that does not move starts in one state.                           *)
MCInit ==
  /\ part \in {"missions", "execute", "preflight"}
  /\ Init /\ Executor!Init /\ Preflight!Init
  /\ part # "execute" => ~cancelRequested
  /\ part # "preflight" => /\ rows = [total |-> 0, malformed |-> 0]
                           /\ tshark.code = 0 /\ tshark.errLeft = 0

MissionStep ==
  /\ part = "missions" /\ Next
  /\ UNCHANGED <<executorVars, preflightVars, part>>

Executing(A) ==
  part = "execute" /\ A
    /\ UNCHANGED <<missionVars, clock, preflightVars, part>>

Reading(A) ==
  part = "preflight" /\ A
    /\ UNCHANGED <<missionVars, clock, executorVars, part>>

ExecutorStep == Executing(Executor!Next)
PreflightStep == Reading(Preflight!Next)

MCNext == MissionStep \/ ExecutorStep \/ PreflightStep

(* Fairness and FairSpec of PcapDetectionExecutor, Fairness of TsharkRows.  *)
MCFairness ==
  /\ WF_mcVars(Executing(Executor!StartCapture))
  /\ WF_mcVars(Executing(Executor!FinishCapture))
  /\ WF_mcVars(Executing(\/ Executor!ListCaptures \/ Executor!Collect
                         \/ Executor!ReportProgress
                         \/ Executor!AllCollected \/ Executor!Leave))
  /\ WF_mcVars(Reading(Preflight!Deadline))
  /\ WF_mcVars(Reading(Preflight!Drain))
  /\ WF_mcVars(Reading(Preflight!Reader))
  /\ WF_mcVars(Reading(Preflight!Main))

MCSpec == MCInit /\ [][MCNext]_mcVars /\ MCFairness
-----------------------------------------------------------------------------
(* What execute returns does not depend on which capture was faster.        *)
ResultIgnoresTiming == Executor!ResultIgnoresTiming

(* The preflight leaves nothing behind and reports only a whole stream.     *)
RunnerCleansUp == Preflight!RunnerCleansUp

(* execute returns or raises, cancelled or not.                             *)
ExecutionEnds == part = "execute" => Executor!ExecuteEnds

(* The preflight ends, and with it its threads, whatever TShark does.       *)
PreflightEnds == part = "preflight" => Preflight!PreflightEnds
=============================================================================
