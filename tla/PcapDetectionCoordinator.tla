---------------------- MODULE PcapDetectionCoordinator ----------------------
(***************************************************************************)
(* The PCAP detection coordinator,                                         *)
(* backend/app/superagent/pcap_detection_coordinator.py, with the loop of  *)
(* its executor (backend/app/pcap/detection_executor.py).                  *)
(*                                                                         *)
(* It shares the slot with the triage coordinator's design, but not how it *)
(* ends a mission: a cancel is a flag in the executor, the worker reads    *)
(* its own cancel flag once, under the lock, and publishes every status    *)
(* after releasing it; the slot is freed later still.  While it runs, the  *)
(* executor publishes the files inspected so far.                          *)
(*                                                                         *)
(* Captures are inspected in parallel; here they are the number left to    *)
(* collect and whether one of those collected failed.                      *)
(***************************************************************************)
EXTENDS PcapMissionSlot

CONSTANT MaxFiles     \* bound: captures one mission selects

ASSUME MaxFilesAssumption == MaxFiles \in Nat

VARIABLES execCancel,   \* the executor's _cancel_requested
          tooLate       \* history: first accepted after the flag was read

detectionVars == <<execCancel, tooLate>>
vars == <<slotVars, detectionVars>>

WorkerPc == {"idle", "executing", "reporting", "returned", "raised",
             "deciding", "leaving"}
Worker == [pc : WorkerPc, mission : MissionId \cup {NoMission},
           left : 0..MaxFiles, failed : BOOLEAN,
           summary : Summary, status : Status \cup {"none"}]
IdleWorker == [pc |-> "idle", mission |-> NoMission, left |-> 0,
               failed |-> FALSE, summary |-> "none", status |-> "none"]

Handler ==
  StartHandler
    \cup [op : {"signalled"}, mission : MissionId, closing : BOOLEAN]

TypeOK ==
  /\ SlotTypeOK
  /\ worker \in Worker
  /\ handler \in Handler
  /\ execCancel \subseteq MissionId
  /\ tooLate \subseteq MissionId

Init ==
  /\ SlotInit
  /\ worker = IdleWorker
  /\ execCancel = {} /\ tooLate = {}
-----------------------------------------------------------------------------
(* cancel(detection_id), under the lock; close swallows what it raises.     *)

CancelNothing(m, byClose) ==
  /\ LockFree
  /\ CallsCancel(m, byClose)
  /\ Store!Found(m) => IsSettled(m)
  /\ Store!Purge
  /\ closing' = IF byClose THEN closing \ {m} ELSE closing
  /\ UNCHANGED <<authVars, clock, workVars, handler, closer, historyVars,
                 detectionVars>>

CancelSignal(m, byClose) ==
  /\ LockFree
  /\ CallsCancel(m, byClose)
  /\ Store!Found(m) /\ IsOpen(m)
  /\ Store!Purge
  /\ execCancel' = execCancel \cup {m}
  /\ handler' = [op |-> "signalled", mission |-> m, closing |-> byClose]
  /\ UNCHANGED <<authVars, clock, workVars, closeVars, historyVars, tooLate>>

FlagWasRead(m) == worker.mission = m /\ worker.pc \in {"deciding", "leaving"}

CancelRecord ==
  LET m == handler.mission IN
  /\ handler.op = "signalled"
  /\ cancelRequested' = cancelRequested \cup {m}
  /\ acknowledged' = acknowledged \cup {m}
  /\ tooLate' = IF FlagWasRead(m) /\ m \notin acknowledged
                  THEN tooLate \cup {m} ELSE tooLate
  /\ closing' = IF handler.closing THEN closing \ {m} ELSE closing
  /\ handler' = Free
  /\ UNCHANGED <<authVars, storeVars, clock, active, queue, worker, closer,
                 funded, execCancel>>

Cancel(m, byClose) == CancelNothing(m, byClose) \/ CancelSignal(m, byClose)
-----------------------------------------------------------------------------
(* _run on the pool's thread.                                               *)

(* The running status is put, without the lock; then execute selects files. *)
Begin ==
  /\ worker.pc = "idle"
  /\ queue # <<>>
  /\ queue' = Tail(queue)
  /\ Store!Put(Head(queue), [status |-> "running", summary |-> "none"])
  /\ \E n \in 0..MaxFiles :
       worker' = [IdleWorker EXCEPT !.pc = "executing", !.left = n,
                                    !.mission = Head(queue)]
  /\ UNCHANGED <<authVars, clock, active, cancelRequested, handler, closeVars,
                 historyVars, detectionVars>>

SummaryOf(left, failed) ==
  CASE left > 0 -> "partial"
    [] left = 0 /\ failed -> "failures"
    [] left = 0 /\ ~failed -> "clean"

(* The next finished capture, if no cancel is seen.                         *)
Collect ==
  /\ worker.pc = "executing"
  /\ worker.left > 0
  /\ worker.mission \notin execCancel
  /\ \E fails \in BOOLEAN :
       LET left == worker.left - 1
           failed == worker.failed \/ fails
       IN worker' = [worker EXCEPT !.pc = "reporting", !.left = left,
                                   !.failed = failed,
                                   !.summary = SummaryOf(left, failed)]
  /\ UNCHANGED <<authVars, storeVars, clock, active, cancelRequested, queue,
                 handler, closeVars, historyVars, detectionVars>>

(* on_progress(summary).  A summary over the limit of public evidence       *)
(* raises before it is called; that is swallowed.                           *)
Report ==
  /\ worker.pc = "reporting"
  /\ \/ Store!Put(worker.mission, [status |-> "running",
                                   summary |-> worker.summary])
     \/ UNCHANGED storeVars
  /\ worker' = [worker EXCEPT !.pc = "executing"]
  /\ UNCHANGED <<authVars, clock, active, cancelRequested, queue, handler,
                 closeVars, historyVars, detectionVars>>

(* The loop is left and the executor forgets the cancel (in its finally).   *)
ExecutorStops ==
  /\ worker.pc = "executing"
  /\ worker.left > 0
  /\ worker.mission \in execCancel
  /\ execCancel' = execCancel \ {worker.mission}
  /\ worker' = [worker EXCEPT !.pc = "returned", !.summary = "stopped"]
  /\ UNCHANGED <<authVars, storeVars, clock, active, cancelRequested, queue,
                 handler, closeVars, historyVars, tooLate>>

ExecutorReturns ==
  /\ worker.pc = "executing"
  /\ worker.left = 0
  /\ execCancel' = execCancel \ {worker.mission}
  /\ worker' = [worker EXCEPT !.pc = "returned",
                              !.summary = SummaryOf(0, worker.failed)]
  /\ UNCHANGED <<authVars, storeVars, clock, active, cancelRequested, queue,
                 handler, closeVars, historyVars, tooLate>>

(* The files cannot be listed (before the try: the cancel stays), or the    *)
(* summary of the results is over the limits of the public model.           *)
ExecutorRaises ==
  /\ worker.pc = "executing"
  /\ \/ worker.summary = "none" /\ UNCHANGED execCancel
     \/ /\ worker.summary # "none"
        /\ worker.left = 0 \/ worker.mission \in execCancel
        /\ execCancel' = execCancel \ {worker.mission}
  /\ worker' = [worker EXCEPT !.pc = "raised"]
  /\ UNCHANGED <<authVars, storeVars, clock, active, cancelRequested, queue,
                 handler, closeVars, historyVars, tooLate>>

(* A slip: only the branch without an exception looks at the flag.          *)
VerdictOfReturn ==
  CASE worker.pc = "raised" -> "degraded"
    [] worker.pc # "raised" /\ worker.mission \in cancelRequested -> "cancelled"
    [] OTHER -> "completed"

Verdict ==
  CASE worker.mission \in cancelRequested -> "cancelled"
    [] worker.mission \notin cancelRequested /\ worker.pc = "raised" -> "degraded"
    [] OTHER -> "completed"

(* The only look at the flag, under the lock.                               *)
ReadCancelled ==
  /\ LockFree
  /\ worker.pc \in {"returned", "raised"}
  /\ worker' = [worker EXCEPT !.pc = "deciding", !.status = Verdict]
  /\ UNCHANGED <<authVars, storeVars, clock, active, cancelRequested, queue,
                 handler, closeVars, historyVars, detectionVars>>

(* The outcome, without the lock: only "completed" carries the summary.     *)
Publish ==
  /\ worker.pc = "deciding"
  /\ Store!Put(worker.mission,
               [status |-> worker.status,
                summary |-> IF worker.status = "completed" THEN worker.summary
                                                           ELSE "none"])
  /\ worker' = [worker EXCEPT !.pc = "leaving"]
  /\ UNCHANGED <<authVars, clock, active, cancelRequested, queue, handler,
                 closeVars, historyVars, detectionVars>>

(* A slip: the slot is kept.                                                *)
DiscardFlag(m) ==
  /\ UNCHANGED active
  /\ cancelRequested' = cancelRequested \ {m}

Discard(m) ==
  /\ active' = active \ {m}
  /\ cancelRequested' = cancelRequested \ {m}

(* The finally clause of _run.                                              *)
LeaveRun ==
  /\ LockFree
  /\ worker.pc = "leaving"
  /\ Discard(worker.mission)
  /\ worker' = IdleWorker
  /\ UNCHANGED <<authVars, storeVars, clock, queue, handler, closeVars,
                 historyVars, detectionVars>>
-----------------------------------------------------------------------------
Slot == Environment \/ Start \/ CloseBegin \/ CloseDrain \/ CloseDone

Cancelling ==
  \/ \E m \in MissionId, byClose \in BOOLEAN : Cancel(m, byClose)
  \/ CancelRecord

Executing == Collect \/ Report \/ ExecutorStops \/ ExecutorReturns \/ ExecutorRaises

Run == Begin \/ Executing \/ ReadCancelled \/ Publish \/ LeaveRun

Next ==
  \/ Slot /\ UNCHANGED detectionVars
  \/ Cancelling
  \/ Run

Spec == Init /\ [][Next]_vars

(* A capture's inspection ends, at the latest by its timeout.  The worker   *)
(* gets the lock in the end although handlers keep taking it.               *)
Fairness ==
  /\ SlotFairness
  /\ WF_vars(CancelRecord)
  /\ WF_vars(Begin)
  /\ WF_vars(Executing)
  /\ SF_vars(ReadCancelled)
  /\ WF_vars(Publish)
  /\ SF_vars(LeaveRun)
  /\ SF_vars(\E m \in MissionId : Cancel(m, TRUE))

FairSpec == Spec /\ Fairness
-----------------------------------------------------------------------------
(* An open mission holds the slot until the worker leaves it, and no second *)
(* mission is ever let in beside it.                                        *)
SlotCoversMission ==
  /\ {m \in MissionId : IsOpen(m)} \subseteq active
  /\ \A m, n \in active : m = n
  /\ \A m \in active : IsOpen(m) \/ (worker.pc = "leaving" /\ worker.mission = m)

(* "completed" is only published with a result for every selected file: the *)
(* executor sees the cancel before the coordinator has recorded it, and     *)
(* only the lock keeps the loop it cut short from being reported complete.  *)
CompletedIsWhole ==
  \A m \in MissionId :
    IsSettled(m) /\ missions[m].body.status = "completed"
      => missions[m].body.summary \in {"clean", "failures"}

(* But for the cancels that came too late, of which nothing is seen, the    *)
(* coordinator implements the lifecycle: a mission is accepted when no      *)
(* other is open, begins, settles once, as cancelled exactly if a cancel    *)
(* was accepted in time, and is never seen to go back, although progress    *)
(* and outcome are published without the lock.                              *)
Lifecycle == INSTANCE MissionLifecycle
               WITH Mission <- MissionId,
                    phase <- [m \in MissionId |-> Phase(m)],
                    acknowledged <- acknowledged \ tooLate

ImplementsLifecycle == Lifecycle!Spec
=============================================================================
