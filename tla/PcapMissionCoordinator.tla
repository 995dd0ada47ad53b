----------------------- MODULE PcapMissionCoordinator -----------------------
(***************************************************************************)
(* The PCAP triage coordinator, backend/app/superagent/pcap_coordinator.py:*)
(* the mission slot, its cancel, and _run on the pool's thread.            *)
(*                                                                         *)
(* The executor (backend/app/pcap/executor.py) runs the inspection script  *)
(* as a process of its own; a cancel reaches it as a marker file.  The     *)
(* coordinator keeps a flag for a cancel it accepted and another for one   *)
(* whose marker could not be written, and looks at both twice: after       *)
(* execute, and again under the lock in which it publishes the outcome.    *)
(***************************************************************************)
EXTENDS PcapMissionSlot

VARIABLES cancelFailed,     \* _cancel_failed_mission_ids
          marker            \* missions with a cancel marker file

cancelVars == <<cancelFailed, marker>>
vars == <<slotVars, cancelVars>>

WorkerPc == {"idle", "executing", "returned", "raised", "deciding", "leaving"}
Worker == [pc : WorkerPc, mission : MissionId \cup {NoMission},
           summary : Summary, status : Status \cup {"none"}]
IdleWorker == [pc |-> "idle", mission |-> NoMission,
               summary |-> "none", status |-> "none"]

Handler ==
  StartHandler
    \cup [op : {"written", "refused"}, mission : MissionId, closing : BOOLEAN]

TypeOK ==
  /\ SlotTypeOK
  /\ cancelFailed \subseteq MissionId
  /\ worker \in Worker
  /\ worker.pc = "deciding" => worker.status \in Settled
  /\ handler \in Handler
  /\ marker \subseteq MissionId

Init ==
  /\ SlotInit
  /\ worker = IdleWorker
  /\ cancelFailed = {} /\ marker = {}
-----------------------------------------------------------------------------
(* cancel(mission_id), under the lock.  byClose tells the call that close   *)
(* makes from one of an API handler.                                        *)

(* get raises NotFound or Expired; out of close() that exception escapes,   *)
(* and the pool is not shut down.                                           *)
CancelUnknown(m, byClose) ==
  /\ LockFree
  /\ CallsCancel(m, byClose)
  /\ ~Store!Found(m)
  /\ Store!Purge
  /\ closer' = IF byClose THEN "failed" ELSE closer
  /\ UNCHANGED <<authVars, clock, workVars, handler, closing, historyVars,
                 cancelVars>>

CancelSettled(m, byClose) ==
  /\ LockFree
  /\ CallsCancel(m, byClose)
  /\ Store!Found(m) /\ IsSettled(m)
  /\ Store!Purge
  /\ active' = active \ {m}
  /\ closing' = IF byClose THEN closing \ {m} ELSE closing
  /\ UNCHANGED <<authVars, clock, cancelRequested, queue, worker, handler,
                 closer, historyVars, cancelVars>>

(* request_cancel writes the marker file and returns, or raises before or   *)
(* after the marker is there.                                               *)
CancelSignal(m, byClose) ==
  /\ LockFree
  /\ CallsCancel(m, byClose)
  /\ Store!Found(m) /\ IsOpen(m)
  /\ Store!Purge
  /\ \E result \in {"written", "refused"} :
       /\ handler' = [op |-> result, mission |-> m, closing |-> byClose]
       /\ \/ marker' = marker \cup {m}
          \/ result = "refused" /\ UNCHANGED marker
  /\ UNCHANGED <<authVars, clock, workVars, closeVars, historyVars,
                 cancelFailed>>

CancelRecord ==
  /\ handler.op \in {"written", "refused"}
  /\ \/ /\ handler.op = "written"
        /\ cancelRequested' = cancelRequested \cup {handler.mission}
        /\ acknowledged' = acknowledged \cup {handler.mission}
        /\ UNCHANGED cancelFailed
     \/ /\ handler.op = "refused"
        /\ cancelFailed' = cancelFailed \cup {handler.mission}
        /\ UNCHANGED <<cancelRequested, acknowledged>>
  /\ closing' = IF handler.closing THEN closing \ {handler.mission} ELSE closing
  /\ handler' = Free
  /\ UNCHANGED <<authVars, storeVars, clock, active, queue, worker, closer,
                 funded, marker>>

Cancel(m, byClose) ==
  \/ CancelUnknown(m, byClose)
  \/ CancelSettled(m, byClose)
  \/ CancelSignal(m, byClose)
-----------------------------------------------------------------------------
(* _run on the pool's thread.  The branches it has for a mission that is no *)
(* longer there, or settled by somebody else, are not taken: WorkIsOpen.    *)

Leave(m) == [worker EXCEPT !.pc = "leaving", !.mission = m,
                           !.summary = "none", !.status = "none"]

(* A slip: the slot is kept.                                                *)
DiscardFlags(m) ==
  /\ UNCHANGED active
  /\ cancelRequested' = cancelRequested \ {m}
  /\ cancelFailed' = cancelFailed \ {m}

Discard(m) ==
  /\ active' = active \ {m}
  /\ cancelRequested' = cancelRequested \ {m}
  /\ cancelFailed' = cancelFailed \ {m}

(* _run_mission up to execute, under the lock.  A mission whose cancel was  *)
(* refused while it was queued is not executed: _finish degrades it, or     *)
(* cancels it if another cancel was accepted.                               *)
Begin ==
  LET m == Head(queue) IN
  /\ LockFree
  /\ worker.pc = "idle"
  /\ queue # <<>>
  /\ queue' = Tail(queue)
  /\ Store!Found(m) /\ IsOpen(m)
  /\ \/ /\ m \notin cancelFailed
        /\ Store!Put(m, [status |-> "running", summary |-> "none"])
        /\ worker' = [worker EXCEPT !.pc = "executing", !.mission = m]
        /\ UNCHANGED <<active, cancelRequested, cancelFailed>>
     \/ /\ m \in cancelFailed
        /\ Store!Put(m, [status |-> IF m \in cancelRequested THEN "cancelled"
                                                             ELSE "degraded",
                         summary |-> "none"])
        /\ worker' = Leave(m)
        /\ Discard(m)
  /\ UNCHANGED <<authVars, clock, handler, closeVars, historyVars, marker>>

(* executor.execute, without the lock: the inspection script runs in its    *)
(* own process under a timeout.  It removes the marker when it sees it and  *)
(* then stops early; it may also have passed its last check already.        *)
ExecutorStops ==
  /\ worker.pc = "executing"
  /\ worker.mission \in marker
  /\ marker' = marker \ {worker.mission}
  /\ worker' = [worker EXCEPT !.pc = "returned", !.summary = "stopped"]
  /\ UNCHANGED <<authVars, storeVars, clock, active, cancelRequested, queue,
                 handler, closeVars, historyVars, cancelFailed>>

ExecutorReturns ==
  /\ worker.pc = "executing"
  /\ \/ \E s \in {"clean", "failures"} :
          worker' = [worker EXCEPT !.pc = "returned", !.summary = s]
     \/ worker' = [worker EXCEPT !.pc = "raised"]
  /\ UNCHANGED <<authVars, storeVars, clock, active, cancelRequested, queue,
                 handler, closeVars, historyVars, cancelVars>>

(* The two flags are read under the lock, which is then released before     *)
(* _finish takes it again.                                                  *)
ReadFlags ==
  LET m == worker.mission
      degraded == \/ worker.pc = "raised"
                  \/ m \in cancelFailed
                  \/ worker.summary = "failures"
  IN
  /\ LockFree
  /\ worker.pc \in {"returned", "raised"}
  /\ worker' = [worker EXCEPT !.pc = "deciding",
                              !.status = IF m \in cancelRequested THEN "cancelled"
                                         ELSE IF degraded THEN "degraded"
                                         ELSE "completed"]
  /\ UNCHANGED <<authVars, storeVars, clock, active, cancelRequested, queue,
                 handler, closeVars, historyVars, cancelVars>>

(* A slip: the flags are not read again.                                    *)
StatusAsRead(m, status) == status

FinalStatus(m, status) ==
  CASE m \in cancelRequested -> "cancelled"
    [] m \in cancelFailed \ cancelRequested -> "degraded"
    [] OTHER -> status

(* _finish, under the lock: what was cancelled since ReadFlags counts.      *)
Finish ==
  LET m == worker.mission IN
  /\ LockFree
  /\ worker.pc = "deciding"
  /\ Store!Found(m) /\ IsOpen(m)
  /\ Store!Put(m, [status |-> FinalStatus(m, worker.status),
                   summary |-> worker.summary])
  /\ worker' = Leave(m)
  /\ Discard(m)
  /\ UNCHANGED <<authVars, clock, queue, handler, closeVars, historyVars,
                 marker>>

(* The finally clause of _run.                                              *)
LeaveRun ==
  /\ LockFree
  /\ worker.pc = "leaving"
  /\ active' = active \ {worker.mission}
  /\ worker' = IdleWorker
  /\ UNCHANGED <<authVars, storeVars, clock, cancelRequested, queue, handler,
                 closeVars, historyVars, cancelVars>>
-----------------------------------------------------------------------------
Slot == Environment \/ Start \/ CloseBegin \/ CloseDrain \/ CloseDone

Cancelling ==
  \/ \E m \in MissionId, byClose \in BOOLEAN : Cancel(m, byClose)
  \/ CancelRecord

Run == Begin \/ ExecutorStops \/ ExecutorReturns \/ ReadFlags \/ Finish \/ LeaveRun

Next ==
  \/ Slot /\ UNCHANGED cancelVars
  \/ Cancelling
  \/ Run

Spec == Init /\ [][Next]_vars

(* The inspection process ends, at the latest by its timeout.  A thread     *)
(* waiting for the lock gets it in the end although handlers keep taking    *)
(* it: strong fairness.                                                     *)
Fairness ==
  /\ SlotFairness
  /\ WF_vars(CancelRecord)
  /\ WF_vars(ExecutorStops \/ ExecutorReturns)
  /\ SF_vars(Begin)
  /\ SF_vars(ReadFlags)
  /\ SF_vars(Finish)
  /\ SF_vars(LeaveRun)
  /\ SF_vars(\E m \in MissionId : Cancel(m, TRUE))

FairSpec == Spec /\ Fairness
-----------------------------------------------------------------------------
(* The slot is taken exactly while a mission is queued or running, and one  *)
(* mission is at most: a slot that stays taken would refuse every later     *)
(* start, one freed early would let two batches share the private state.    *)
SlotTracksMission ==
  /\ active = {m \in MissionId : IsOpen(m)}
  /\ \A m, n \in active : m = n

(* "completed" is only ever published with the summary of a batch in which  *)
(* every selected file was inspected.  The marker is written before the     *)
(* request is recorded: only the lock keeps the worker from publishing the  *)
(* batch it cut short as complete in between.                               *)
CompletedIsWhole ==
  \A m \in MissionId :
    IsSettled(m) /\ missions[m].body.status = "completed"
      => missions[m].body.summary = "clean"

(* No cancel flag outlives its mission: a flag is only set while the        *)
(* mission is open and _finish clears it with the last status.              *)
FlagsAreLive == cancelRequested \cup cancelFailed \subseteq active

(* What the worker carries is in the store and open until it has published  *)
(* the outcome itself: get never raises in _run, and no other thread can    *)
(* settle, evict or expire the mission under it.                            *)
WorkIsOpen ==
  /\ \A i \in DOMAIN queue : IsOpen(queue[i])
  /\ worker.pc \in {"executing", "returned", "raised", "deciding"} =>
       IsOpen(worker.mission)

(* The coordinator implements the lifecycle its API promises.               *)
Lifecycle == INSTANCE MissionLifecycle
               WITH Mission <- MissionId,
                    phase <- [m \in MissionId |-> Phase(m)]

ImplementsLifecycle == Lifecycle!Spec
=============================================================================
