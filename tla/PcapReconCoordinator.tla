------------------------ MODULE PcapReconCoordinator ------------------------
(***************************************************************************)
(* The PCAP reconnaissance coordinator,                                    *)
(* backend/app/superagent/pcap_recon_coordinator.py.                       *)
(*                                                                         *)
(* Its start, cancel and close, its flags, its marker and the beginning of *)
(* its _run are those of the triage coordinator.  The verdict is not:      *)
(* samples that failed do not degrade a reconnaissance, only the accepted  *)
(* cancel is looked at before the outcome is decided, a refused one        *)
(* when it is published, and a cancelled mission keeps no summary.         *)
(***************************************************************************)
EXTENDS PcapMissionCoordinator

(* After execute: the one flag that is read.                                *)
ReadCancelled ==
  LET m == worker.mission IN
  /\ LockFree
  /\ worker.pc \in {"returned", "raised"}
  /\ worker' = [worker EXCEPT !.pc = "deciding",
                              !.status = IF m \in cancelRequested THEN "cancelled"
                                         ELSE IF worker.pc = "raised" THEN "degraded"
                                         ELSE "completed"]
  /\ UNCHANGED <<authVars, storeVars, clock, active, cancelRequested, queue,
                 handler, closeVars, historyVars, cancelVars>>

(* A slip: a summary that is there is kept.                                 *)
SummaryAsReturned(m) == worker.summary

PublishedSummary(m) == IF m \in cancelRequested THEN "none" ELSE worker.summary

(* _finish, under the lock, looks at both flags.                            *)
FinishRecon ==
  LET m == worker.mission IN
  /\ LockFree
  /\ worker.pc = "deciding"
  /\ Store!Found(m) /\ IsOpen(m)
  /\ Store!Put(m, [status |-> FinalStatus(m, worker.status),
                   summary |-> PublishedSummary(m)])
  /\ worker' = Leave(m)
  /\ Discard(m)
  /\ UNCHANGED <<authVars, clock, queue, handler, closeVars, historyVars,
                 marker>>

RunRecon ==
  \/ Begin
  \/ ExecutorStops
  \/ ExecutorReturns
  \/ ReadCancelled
  \/ FinishRecon
  \/ LeaveRun

NextRecon ==
  \/ Slot /\ UNCHANGED cancelVars
  \/ Cancelling
  \/ RunRecon

SpecRecon == Init /\ [][NextRecon]_vars
=============================================================================
