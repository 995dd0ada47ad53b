-------------------- MODULE PcapDetectionCoordinatorProofs --------------------
(***************************************************************************)
(* The detection coordinator is correct for any number of missions, files, *)
(* clients, authorizations and store slots.                                *)
(*                                                                         *)
(* Its worker publishes without the lock and frees the slot later, so what *)
(* the lock's holder has seen may be settled under it; IInv says what still*)
(* holds then.  Where a mission is, in the queue or with the worker, is    *)
(* what keeps a second one out; which flags a cancel has reached decides   *)
(* whether a batch that was cut short can be reported as complete.         *)
(***************************************************************************)
EXTENDS PcapDetectionCoordinator, PcapMissionSlotProofs

Busy == worker.pc \in {"executing", "reporting", "returned", "raised", "deciding"}

HasStatus(m, s) == m \in DOMAIN missions /\ missions[m].body.status = s

(* A cancel of m was recorded, or is about to be by who holds the lock.     *)
CancelInFlight(m) ==
  m \in cancelRequested \/ (handler.op = "signalled" /\ handler.mission = m)

(* A mission that was never accepted left no trace.                         *)
FreshIsUnknown ==
  \A m \in MissionId :
    funded[m] = 0 => /\ m \notin DOMAIN missions
                     /\ m \notin acknowledged \cup execCancel \cup tooLate \cup active

(* Whatever holds the slot is in exactly one place: the queue or the worker.*)
OneCarrier ==
  /\ Len(queue) <= 1
  /\ worker.pc # "idle" => queue = <<>> /\ active = {worker.mission}
  /\ worker.pc = "leaving" => ~IsOpen(worker.mission)
  /\ active # {} => queue # <<>> \/ worker.pc # "idle"

(* What is in the queue has not begun, what the worker executes has.        *)
StageInv ==
  /\ \A i \in DOMAIN queue : queue[i] \in active /\ HasStatus(queue[i], "queued")
  /\ Busy => HasStatus(worker.mission, "running")

(* What the handler that holds the lock has checked still holds; the        *)
(* mission it cancels may have been settled, but still has the slot.        *)
HandlerIsCurrent ==
  /\ handler.op \in {"consume", "publish"} => active = {} /\ closer = "open"
  /\ handler.op = "signalled" => handler.mission \in active

SlotInv ==
  /\ SlotCoversMission /\ FreshIsUnknown /\ OneCarrier /\ StageInv
  /\ HandlerIsCurrent
  /\ cancelRequested \subseteq active

(* A loop is only cut short when the worker will see the cancel; what it    *)
(* decides to publish as completed is whole.                                *)
StopIsFlagged ==
  /\ \A m \in execCancel : IsOpen(m) => CancelInFlight(m)
  /\ Busy /\ worker.summary = "stopped" => CancelInFlight(worker.mission)
  /\ worker.pc = "returned" => worker.summary \in {"clean", "failures", "stopped"}
  /\ worker.pc = "deciding" =>
       /\ worker.status \in Settled
       /\ worker.status = "completed" => worker.summary \in {"clean", "failures"}

(* A cancel that was accepted in time is on the flag until the worker reads *)
(* it, and is the worker's verdict after that.                              *)
InTime == acknowledged \ tooLate

VerdictInv ==
  \A m \in MissionId :
    IsOpen(m) =>
      IF FlagWasRead(m)
        THEN m \in InTime <=> worker.status = "cancelled"
        ELSE m \notin tooLate /\ (m \in acknowledged <=> m \in cancelRequested)

CloseInv ==
  /\ closer # "failed"
  /\ closer = "stopped" => active = {}

IInv ==
  /\ TypeOK /\ SlotInv /\ StopIsFlagged /\ CompletedIsWhole /\ VerdictInv
  /\ CloseInv /\ TokenInv /\ RoomInv
-----------------------------------------------------------------------------
(* The types hold at first, and every step of every thread keeps them.      *)
LEMMA TypeInit == Init => TypeOK
<1> SUFFICES ASSUME Init PROVE TypeOK
  OBVIOUS
<1> USE CoordinatorAssumption, MaxFilesAssumption DEF Init, SlotInit
<1>1. Auth!AuthTypeOK
  BY DEF Auth!Init, Auth!AuthTypeOK, Auth!Token, Auth!Entry
<1>2. Store!StoreTypeOK
  BY DEF Store!Init, Store!StoreTypeOK, Auth!Init
<1>3. worker \in Worker
  BY DEF Worker, WorkerPc, IdleWorker, Summary
<1> QED
  BY <1>1, <1>2, <1>3 DEF TypeOK, SlotTypeOK, CloserPc, Handler, StartHandler, Free

(* A worker's step that keeps to its record, and what it may put.           *)
LEMMA WorkerFields ==
  ASSUME TypeOK
  PROVE  /\ worker.pc \in WorkerPc
         /\ worker.mission \in MissionId \cup {NoMission}
         /\ worker.left \in 0..MaxFiles /\ worker.failed \in BOOLEAN
         /\ worker.summary \in Summary /\ worker.status \in Status \cup {"none"}
BY DEF TypeOK, Worker

(* The summary of any number of files is one.                               *)
LEMMA SummaryOfType ==
  ASSUME NEW n \in Nat, NEW failed \in BOOLEAN
  PROVE  /\ SummaryOf(n, failed) \in {"partial", "failures", "clean"}
         /\ SummaryOf(0, failed) \in {"failures", "clean"}
BY DEF SummaryOf

(* What the worker is after each of its steps.                              *)
LEMMA BeginWorker ==
  ASSUME TypeOK, Begin
  PROVE  /\ worker.pc = "idle" /\ queue # <<>> /\ Head(queue) \in MissionId
         /\ queue' = Tail(queue) /\ queue' \in Seq(MissionId)
         /\ worker' \in Worker
         /\ worker'.pc = "executing" /\ worker'.mission = Head(queue)
         /\ worker'.summary = "none" /\ worker'.status = "none"
<1>1. /\ worker.pc = "idle" /\ queue # <<>> /\ Head(queue) \in MissionId
      /\ queue' = Tail(queue) /\ queue' \in Seq(MissionId)
  BY DEF Begin, TypeOK, SlotTypeOK
<1>2. PICK n \in 0..MaxFiles :
        worker' = [IdleWorker EXCEPT !.pc = "executing", !.left = n,
                                     !.mission = Head(queue)]
  BY DEF Begin
<1>3. worker' = [pc |-> "executing", mission |-> Head(queue), left |-> n,
                 failed |-> FALSE, summary |-> "none", status |-> "none"]
  BY <1>2 DEF IdleWorker
<1> QED
  BY <1>1, <1>3 DEF Worker, WorkerPc, Summary

(* Collecting a result changes the summary only.                            *)
LEMMA CollectWorker ==
  ASSUME TypeOK, Collect
  PROVE  /\ worker.pc = "executing" /\ worker' \in Worker
         /\ worker'.pc = "reporting" /\ worker'.mission = worker.mission
         /\ worker'.status = worker.status
         /\ worker'.summary \in {"partial", "failures", "clean"}
<1>1. PICK fails \in BOOLEAN :
        LET left == worker.left - 1
            failed == worker.failed \/ fails
        IN  worker' = [worker EXCEPT !.pc = "reporting", !.left = left,
                                     !.failed = failed,
                                     !.summary = SummaryOf(left, failed)]
  BY DEF Collect
<1> DEFINE left == worker.left - 1
           failed == worker.failed \/ fails
<1>2. left \in 0..MaxFiles /\ left \in Nat /\ failed \in BOOLEAN
  BY WorkerFields, MaxFilesAssumption DEF Collect
<1>3. SummaryOf(left, failed) \in {"partial", "failures", "clean"}
  BY <1>2, SummaryOfType
<1> HIDE DEF left, failed
<1>4. worker \in Worker
  BY DEF TypeOK
<1>5. worker' = [worker EXCEPT !.pc = "reporting", !.left = left, !.failed = failed,
                               !.summary = SummaryOf(left, failed)]
  BY <1>1 DEF left, failed
<1> QED
  BY <1>2, <1>3, <1>4, <1>5 DEF Worker, WorkerPc, Summary, Collect

(* Leaving the loop, by an exception or not.                                *)
LEMMA ExecutorWorker ==
  ASSUME TypeOK, ExecutorStops \/ ExecutorReturns \/ ExecutorRaises
  PROVE  /\ worker.pc = "executing" /\ worker' \in Worker
         /\ worker'.mission = worker.mission /\ worker'.status = worker.status
         /\ \/ /\ worker'.pc = "returned" /\ worker'.summary = "stopped"
               /\ worker.mission \in execCancel
            \/ worker'.pc = "returned" /\ worker'.summary \in {"failures", "clean"}
            \/ worker'.pc = "raised" /\ worker'.summary = worker.summary
         /\ execCancel' \subseteq execCancel
<1>1. worker \in Worker
  BY DEF TypeOK
<1>2. CASE ExecutorStops
  BY <1>1, <1>2 DEF ExecutorStops, Worker, WorkerPc, Summary
<1>3. CASE ExecutorReturns
  <2>1. SummaryOf(0, worker.failed) \in {"failures", "clean"}
    BY WorkerFields, SummaryOfType
  <2> HIDE DEF SummaryOf
  <2> QED
    BY <1>1, <1>3, <2>1 DEF ExecutorReturns, Worker, WorkerPc, Summary
<1>4. CASE ExecutorRaises
  BY <1>1, <1>4 DEF ExecutorRaises, Worker, WorkerPc, Summary
<1> QED
  BY <1>2, <1>3, <1>4

(* Reading the flag makes the verdict a settled status.                     *)
LEMMA ReadWorker ==
  ASSUME TypeOK, ReadCancelled
  PROVE  /\ LockFree /\ worker.pc \in {"returned", "raised"} /\ worker' \in Worker
         /\ worker'.pc = "deciding" /\ worker'.mission = worker.mission
         /\ worker'.summary = worker.summary
         /\ worker'.status = Verdict /\ Verdict \in Settled
<1>1. Verdict \in Settled
  BY DEF Verdict, Settled
<1> HIDE DEF Verdict
<1> QED
  BY <1>1 DEF ReadCancelled, TypeOK, Worker, WorkerPc, Status

(* After on_progress the loop goes on; after the outcome the worker leaves. *)
LEMMA PutWorker ==
  ASSUME TypeOK, Report \/ Publish
  PROVE  /\ worker' \in Worker
         /\ worker'.mission = worker.mission /\ worker'.status = worker.status
         /\ worker'.summary = worker.summary
         /\ Report => worker.pc = "reporting" /\ worker'.pc = "executing"
         /\ Publish => worker.pc = "deciding" /\ worker'.pc = "leaving"
BY DEF Report, Publish, TypeOK, Worker, WorkerPc
-----------------------------------------------------------------------------
(* What the worker puts: a mission of its own with a body.                  *)
PublishedBody ==
  [status |-> worker.status,
   summary |-> IF worker.status = "completed" THEN worker.summary ELSE "none"]

(* Every put of the worker is a body.                                       *)
LEMMA BodiesPut ==
  ASSUME TypeOK
  PROVE  /\ [status |-> "running", summary |-> "none"] \in Body
         /\ [status |-> "running", summary |-> worker.summary] \in Body
         /\ worker.status \in Settled => PublishedBody \in Body
BY WorkerFields DEF Body, Status, Open, Settled, Summary, PublishedBody

(* What is known of the worker's mission and verdict is enough for types.   *)
Carried ==
  /\ worker.pc # "idle" => worker.mission \in MissionId
  /\ worker.pc = "deciding" => worker.status \in Settled

(* Every step of every thread keeps the types.                              *)
LEMMA TypeStep == TypeOK /\ Carried /\ [Next]_vars => TypeOK'
<1> SUFFICES ASSUME TypeOK, Carried, [Next]_vars PROVE TypeOK'
  OBVIOUS
<1> USE DEF TypeOK
<1>1. CASE Environment /\ UNCHANGED detectionVars
  BY <1>1, EnvironmentStep DEF detectionVars, workVars
<1>2. ASSUME NEW t \in 1..MaxIssued, StartCheck(t), UNCHANGED detectionVars
      PROVE  TypeOK'
  BY <1>2, StartCheckStep DEF detectionVars, workVars, Handler, StartHandler
<1>3. CASE StartConsume /\ UNCHANGED detectionVars
  <2>1. handler \in StartHandler
    BY <1>3 DEF StartConsume, Handler, StartHandler
  <2> QED
    BY <1>3, <2>1, StartConsumeStep
       DEF detectionVars, workVars, Handler, StartHandler, Free
<1>4. ASSUME NEW m \in MissionId, StartPublish(m), UNCHANGED detectionVars
      PROVE  TypeOK'
  <2>1. handler \in StartHandler
    BY <1>4 DEF StartPublish, Handler, StartHandler
  <2> QED
    BY <1>4, <2>1, StartPublishStep DEF detectionVars, Handler, StartHandler, Free
<1>5. CASE (CloseBegin \/ CloseDrain \/ CloseDone) /\ UNCHANGED detectionVars
  BY <1>5, CloseStep DEF detectionVars, workVars
<1>6. ASSUME NEW m \in MissionId, NEW byClose \in BOOLEAN, CancelNothing(m, byClose)
      PROVE  TypeOK'
  <2>1. Store!StoreTypeOK'
    BY <1>6, OwnPurge DEF CancelNothing
  <2> QED
    BY <1>6, <2>1
       DEF CancelNothing, detectionVars, authVars, workVars, historyVars, SlotTypeOK,
           Auth!AuthTypeOK
<1>7. ASSUME NEW m \in MissionId, NEW byClose \in BOOLEAN, CancelSignal(m, byClose)
      PROVE  TypeOK'
  <2>1. Store!StoreTypeOK'
    BY <1>7, OwnPurge DEF CancelSignal
  <2>2. handler' \in Handler /\ execCancel' \subseteq MissionId
    BY <1>7 DEF CancelSignal, Handler
  <2> QED
    BY <1>7, <2>1, <2>2
       DEF CancelSignal, authVars, workVars, closeVars, historyVars, SlotTypeOK,
           Auth!AuthTypeOK
<1>8. CASE CancelRecord
  <2>1. handler.mission \in MissionId
    BY <1>8 DEF CancelRecord, Handler, StartHandler
  <2> QED
    BY <1>8, <2>1
       DEF CancelRecord, authVars, storeVars, SlotTypeOK, Auth!AuthTypeOK,
           Store!StoreTypeOK, Handler, StartHandler, Free
<1>9. CASE Begin
  <2>1. Store!StoreTypeOK'
    BY <1>9, BeginWorker, BodiesPut, OwnPut DEF Begin
  <2> QED
    BY <1>9, <2>1, BeginWorker
       DEF Begin, authVars, closeVars, historyVars, detectionVars, SlotTypeOK,
           Auth!AuthTypeOK
<1>10. CASE Collect \/ ReadCancelled
  <2>1. worker' \in Worker
    BY <1>10, CollectWorker, ReadWorker
  <2> QED
    BY <1>10, <2>1
       DEF Collect, ReadCancelled, authVars, storeVars, closeVars, historyVars,
           detectionVars, SlotTypeOK, Auth!AuthTypeOK, Store!StoreTypeOK
<1>11. CASE ExecutorStops \/ ExecutorReturns \/ ExecutorRaises
  <2>1. worker' \in Worker /\ execCancel' \subseteq execCancel
    BY <1>11, ExecutorWorker
  <2> QED
    BY <1>11, <2>1
       DEF ExecutorStops, ExecutorReturns, ExecutorRaises, authVars, storeVars,
           closeVars, historyVars, SlotTypeOK, Auth!AuthTypeOK, Store!StoreTypeOK
<1>12. CASE Report \/ Publish
  <2>1. worker' \in Worker /\ UNCHANGED <<authVars, clock>>
    BY <1>12, PutWorker DEF Report, Publish
  <2>2. worker.mission \in MissionId
    BY <1>12 DEF Carried, Report, Publish
  <2>3. Store!StoreTypeOK'
    <3>1. CASE UNCHANGED storeVars
      BY <2>1, <3>1 DEF storeVars, SlotTypeOK, Store!StoreTypeOK
    <3>2. CASE Store!Put(worker.mission,
                         [status |-> "running", summary |-> worker.summary])
      BY <2>1, <2>2, <3>2, BodiesPut, OwnPut
    <3>3. CASE Publish
      BY <2>1, <2>2, <3>3, BodiesPut, OwnPut DEF Publish, Carried, PublishedBody
    <3> QED
      BY <1>12, <3>1, <3>2, <3>3 DEF Report
  <2> QED
    BY <1>12, <2>1, <2>3
       DEF Report, Publish, authVars, closeVars, historyVars, detectionVars,
           SlotTypeOK, Auth!AuthTypeOK
<1>13. CASE LeaveRun
  <2>1. IdleWorker \in Worker
    BY MaxFilesAssumption DEF IdleWorker, Worker, WorkerPc, Summary
  <2> QED
    BY <1>13, <2>1
       DEF LeaveRun, Discard, detectionVars, authVars, storeVars, closeVars,
           historyVars, SlotTypeOK, Auth!AuthTypeOK, Store!StoreTypeOK
<1>14. CASE UNCHANGED vars
  BY <1>14
     DEF vars, slotVars, detectionVars, authVars, storeVars, workVars, closeVars,
         historyVars, SlotTypeOK, Auth!AuthTypeOK, Store!StoreTypeOK
<1> QED
  BY <1>1, <1>2, <1>3, <1>4, <1>5, <1>6, <1>7, <1>8, <1>9, <1>10, <1>11, <1>12,
     <1>13, <1>14
     DEF Next, Slot, Start, Cancelling, Cancel, Run, Executing
-----------------------------------------------------------------------------
(* Every step but four leaves the missions of this coordinator as they are, *)
(* or forgets settled ones.                                                 *)
Quiet ==
  \A n \in MissionId :
    /\ IsOpen(n)' <=> IsOpen(n)
    /\ IsSettled(n)' => IsSettled(n) /\ missions'[n] = missions[n]
    /\ n \in DOMAIN missions' => n \in DOMAIN missions /\ missions'[n] = missions[n]

(* A step that publishes a status of m, or nothing new for it.              *)
Publishes(m, s) ==
  /\ m \in MissionId
  /\ m \in DOMAIN missions' /\ missions'[m].body.status = s
  /\ \A n \in MissionId \ {m} :
       /\ IsOpen(n)' <=> IsOpen(n)
       /\ IsSettled(n)' => IsSettled(n) /\ missions'[n] = missions[n]
       /\ n \in DOMAIN missions' => n \in DOMAIN missions /\ missions'[n] = missions[n]

(* Steps without a put: a handler's, the environment's, the executor's.     *)
QuietStep ==
  \/ Environment
  \/ \E t \in 1..MaxIssued : StartCheck(t)
  \/ StartConsume
  \/ CloseBegin \/ CloseDrain \/ CloseDone
  \/ \E m \in MissionId, byClose \in BOOLEAN : Cancel(m, byClose)
  \/ CancelRecord
  \/ Collect \/ ExecutorStops \/ ExecutorReturns \/ ExecutorRaises
  \/ ReadCancelled \/ LeaveRun
  \/ UNCHANGED vars

(* They are quiet.                                                          *)
LEMMA QuietStepIsQuiet ==
  ASSUME TypeOK, QuietStep
  PROVE  Quiet /\ UNCHANGED funded
<1>1. CASE Environment
  BY <1>1, EnvironmentStep, ForgetsStatus, CoordinatorAssumption
     DEF TypeOK, Forgets, Quiet, StoredId, historyVars
<1>2. CASE \E m \in MissionId, byClose \in BOOLEAN : Cancel(m, byClose)
  <2>1. Store!Purge /\ UNCHANGED <<clock, funded>>
    BY <1>2 DEF Cancel, CancelNothing, CancelSignal, historyVars
  <2> QED
    BY <2>1, OwnPurge, ForgetsStatus, CoordinatorAssumption
       DEF TypeOK, Forgets, Quiet, StoredId
<1>3. CASE UNCHANGED missions /\ UNCHANGED funded
  BY <1>3 DEF Quiet, IsOpen, IsSettled
<1> QED
  BY <1>1, <1>2, <1>3
     DEF QuietStep, StartCheck, StartConsume, CloseBegin, CloseDrain, CloseDone,
         CancelRecord, Collect, ExecutorStops, ExecutorReturns, ExecutorRaises,
         ReadCancelled, LeaveRun, storeVars, historyVars, vars, slotVars

(* A put of this coordinator publishes the status in its body.              *)
LEMMA PutPublishes ==
  ASSUME TypeOK, NEW m \in MissionId, NEW b \in Body, Store!Put(m, b),
         UNCHANGED clock
  PROVE  Publishes(m, b.status) /\ missions'[m].body = b
<1>1. m \in DOMAIN missions' /\ missions'[m].body = b /\ ForgetsBut(m)
  BY OwnPut DEF TypeOK
<1> QED
  BY <1>1, ForgetsStatus DEF Publishes, HasStatus

(* start publishes a mission that was not there, as queued.                 *)
LEMMA StartPublishes ==
  ASSUME TypeOK, NEW m \in MissionId, StartPublish(m)
  PROVE  /\ Publishes(m, "queued")
         /\ handler.op = "publish" /\ handler' = Free
         /\ funded[m] = 0 /\ funded'[m] # 0
         /\ \A n \in MissionId \ {m} : funded'[n] = funded[n]
         /\ active' = active \cup {m} /\ queue' = Append(queue, m)
         /\ UNCHANGED <<cancelRequested, worker, closeVars, acknowledged>>
<1>1. handler \in StartHandler
  BY DEF StartPublish, TypeOK, Handler, StartHandler
<1>2. Publishes(m, "queued")
  <2>1. [status |-> "queued", summary |-> "none"] \in Body
    BY DEF Body, Status, Open, Settled, Summary
  <2> QED
    BY <2>1, PutPublishes DEF StartPublish
<1>3. /\ handler.op = "publish" /\ handler' = Free
      /\ funded[m] = 0 /\ funded'[m] # 0
      /\ \A n \in MissionId \ {m} : funded'[n] = funded[n]
      /\ active' = active \cup {m} /\ queue' = Append(queue, m)
      /\ UNCHANGED <<cancelRequested, worker, closeVars, acknowledged>>
  BY <1>1, StartPublishStep DEF TypeOK
<1> QED
  BY <1>2, <1>3

(* The worker publishes that it runs.                                       *)
LEMMA BeginPublishes ==
  ASSUME TypeOK, Begin
  PROVE  /\ Publishes(Head(queue), "running")
         /\ UNCHANGED <<active, cancelRequested, handler, closeVars, historyVars,
                        detectionVars>>
BY BeginWorker, BodiesPut, PutPublishes DEF Begin

(* Progress publishes that it still does.                                   *)
LEMMA ReportPublishes ==
  ASSUME TypeOK, Report, worker.mission \in MissionId,
         HasStatus(worker.mission, "running")
  PROVE  /\ Publishes(worker.mission, "running")
         /\ UNCHANGED <<active, cancelRequested, queue, handler, closeVars,
                        historyVars, detectionVars>>
<1>1. CASE UNCHANGED storeVars
  <2>1. UNCHANGED missions
    BY <1>1 DEF storeVars
  <2> QED
    BY <2>1 DEF Report, Publishes, IsOpen, IsSettled, HasStatus
<1>2. CASE Store!Put(worker.mission,
                     [status |-> "running", summary |-> worker.summary])
  BY <1>2, BodiesPut, PutPublishes DEF Report
<1> QED
  BY <1>1, <1>2 DEF Report

(* The outcome is published as the verdict was, with its summary only if it *)
(* is "completed".                                                          *)
LEMMA OutcomePublishes ==
  ASSUME TypeOK, Publish, worker.mission \in MissionId, worker.status \in Settled
  PROVE  /\ Publishes(worker.mission, worker.status)
         /\ missions'[worker.mission].body = PublishedBody
         /\ UNCHANGED <<active, cancelRequested, queue, handler, closeVars,
                        historyVars, detectionVars>>
BY BodiesPut, PutPublishes DEF Publish, PublishedBody

(* Every step is one of these.                                              *)
LEMMA StepKinds ==
  ASSUME [Next]_vars
  PROVE  \/ QuietStep
         \/ \E m \in MissionId : StartPublish(m) /\ UNCHANGED detectionVars
         \/ Begin \/ Report \/ Publish
BY DEF Next, Slot, Start, Cancelling, Run, Executing, QuietStep
-----------------------------------------------------------------------------
(* What SlotInv says of the worker's mission, by where the worker is.       *)
LEMMA CarriedIs ==
  ASSUME TypeOK, SlotInv, StopIsFlagged
  PROVE  /\ Carried
         /\ worker.pc # "idle" => worker.mission \in active
         /\ Busy <=> worker.pc \notin {"idle", "leaving"}
BY WorkerFields
   DEF SlotInv, OneCarrier, StopIsFlagged, Carried, Busy, WorkerPc, TypeOK, SlotTypeOK

(* Open missions that hold the slot are open to the steps without a put.    *)
LEMMA KeptByQuiet ==
  ASSUME Quiet
  PROVE  \A n \in MissionId, s \in Open : HasStatus(n, s) => HasStatus(n, s)'
BY DEF Quiet, HasStatus, IsOpen

(* Every step keeps the slot in agreement with the store.                   *)
LEMMA SlotStep == TypeOK /\ SlotInv /\ StopIsFlagged /\ [Next]_vars => SlotInv'
<1> SUFFICES ASSUME TypeOK, SlotInv, StopIsFlagged, [Next]_vars PROVE SlotInv'
  OBVIOUS
<1>0. /\ TypeOK' /\ Carried
      /\ worker.pc # "idle" => worker.mission \in active
      /\ Busy <=> worker.pc \notin {"idle", "leaving"}
      /\ active \subseteq MissionId /\ queue \in Seq(MissionId)
  BY TypeStep, CarriedIs DEF TypeOK, SlotTypeOK
(* Steps without a put in which the worker stays at its mission.            *)
<1>1. ASSUME Quiet, UNCHANGED <<active, queue, funded>>,
             \/ UNCHANGED worker
             \/ Busy /\ Busy' /\ worker'.mission = worker.mission
      PROVE  SlotCoversMission' /\ OneCarrier' /\ StageInv'
  <2>1. \A n \in MissionId, s \in Open : HasStatus(n, s) => HasStatus(n, s)'
    BY <1>1, KeptByQuiet
  <2>2. Busy' <=> Busy
    BY <1>1 DEF Busy
  <2>3. worker'.mission = worker.mission /\ (worker'.pc = "idle" <=> worker.pc = "idle")
        /\ (worker'.pc = "leaving" <=> worker.pc = "leaving")
    BY <1>1 DEF Busy
  <2>4. SlotCoversMission'
    BY <1>0, <1>1, <2>3 DEF Quiet, SlotInv, SlotCoversMission
  <2>5. OneCarrier'
    <3>1. worker'.pc = "leaving" => ~IsOpen(worker.mission)'
      <4>1. SUFFICES ASSUME worker'.pc = "leaving"
                     PROVE  ~IsOpen(worker.mission)'
        OBVIOUS
      <4>2. PICK m \in MissionId : m = worker.mission
        BY <1>0, <2>3, <4>1 DEF Carried
      <4>3. ~IsOpen(m)
        BY <2>3, <4>1, <4>2 DEF SlotInv, OneCarrier
      <4>4. ~IsOpen(m)'
        BY <1>1, <4>3 DEF Quiet
      <4> QED
        BY <2>3, <4>2, <4>4
    <3> QED
      BY <1>1, <2>3, <3>1 DEF SlotInv, OneCarrier
  <2>6. StageInv'
    <3>1. \A i \in DOMAIN queue : HasStatus(queue[i], "queued")'
      BY <1>0, <1>1, <2>1 DEF SlotInv, StageInv, Open
    <3>2. Busy' => HasStatus(worker.mission, "running")'
      <4> SUFFICES ASSUME Busy' PROVE HasStatus(worker.mission, "running")'
        OBVIOUS
      <4>2. PICK m \in MissionId : m = worker.mission
        BY <1>0, <2>2 DEF Carried
      <4>3. HasStatus(m, "running")
        BY <2>2, <4>2 DEF SlotInv, StageInv
      <4>4. HasStatus(m, "running")'
        BY <2>1, <4>3 DEF Open
      <4> QED
        BY <2>3, <4>2, <4>4
    <3> QED
      BY <1>1, <3>1, <3>2 DEF SlotInv, StageInv
  <2> QED
    BY <2>4, <2>5, <2>6
<1>2. ASSUME QuietStep, UNCHANGED <<active, queue>>,
             \/ UNCHANGED worker
             \/ Busy /\ Busy' /\ worker'.mission = worker.mission,
             UNCHANGED <<handler, closer, cancelRequested, acknowledged, tooLate>>,
             execCancel' \subseteq execCancel
      PROVE  SlotInv'
  <2>1. Quiet /\ UNCHANGED funded
    BY <1>2, QuietStepIsQuiet
  <2>2. SlotCoversMission' /\ OneCarrier' /\ StageInv'
    BY <1>1, <1>2, <2>1
  <2>3. FreshIsUnknown'
    BY <1>2, <2>1 DEF Quiet, SlotInv, FreshIsUnknown
  <2> QED
    BY <1>2, <2>2, <2>3 DEF SlotInv, HandlerIsCurrent
<1>3. CASE Environment /\ UNCHANGED detectionVars
  BY <1>2, <1>3, EnvironmentStep
     DEF QuietStep, TypeOK, detectionVars, workVars, closeVars, historyVars
<1>4. CASE UNCHANGED vars
  BY <1>2, <1>4
     DEF QuietStep, vars, slotVars, detectionVars, workVars, closeVars, historyVars
<1>5. CASE (CloseDrain \/ CloseDone \/ CloseBegin) /\ UNCHANGED detectionVars
  <2>1. Quiet /\ UNCHANGED funded
    BY <1>5, QuietStepIsQuiet DEF QuietStep
  <2>2. UNCHANGED <<handler, active, queue, worker, cancelRequested, acknowledged,
                    execCancel, tooLate>>
    BY <1>5 DEF CloseDrain, CloseDone, CloseBegin, historyVars, workVars, detectionVars
  <2>3. closer = "open" => LockFree
    BY <1>5 DEF CloseDrain, CloseDone, CloseBegin
  <2>4. SlotCoversMission' /\ OneCarrier' /\ StageInv'
    BY <1>1, <2>1, <2>2
  <2>5. HandlerIsCurrent'
    BY <2>2, <2>3 DEF SlotInv, HandlerIsCurrent, LockFree, Free
  <2> QED
    BY <2>1, <2>2, <2>4, <2>5 DEF Quiet, SlotInv, FreshIsUnknown
<1>6. CASE /\ StartConsume \/ \E t \in 1..MaxIssued : StartCheck(t)
           /\ UNCHANGED detectionVars
  <2>1. Quiet /\ UNCHANGED funded
    BY <1>6, QuietStepIsQuiet DEF QuietStep
  <2>2. UNCHANGED <<active, queue, worker, cancelRequested, acknowledged, closer,
                    execCancel, tooLate>>
    BY <1>6 DEF StartConsume, StartCheck, historyVars, workVars, closeVars, detectionVars
  <2>3. handler'.op = "free" \/ (active = {} /\ closer = "open"
                                 /\ handler'.op \in {"consume", "publish"})
    <3>1. CASE \E t \in 1..MaxIssued : StartCheck(t)
      BY <3>1 DEF StartCheck
    <3>2. CASE StartConsume
      <4>1. handler \in StartHandler
        BY <3>2 DEF StartConsume, TypeOK, Handler, StartHandler
      <4>2. active = {} /\ closer = "open"
        BY <3>2 DEF StartConsume, SlotInv, HandlerIsCurrent
      <4> QED
        BY <3>2, <4>1, <4>2, StartConsumeStep DEF TypeOK, Free
    <3> QED
      BY <1>6, <3>1, <3>2
  <2>4. SlotCoversMission' /\ OneCarrier' /\ StageInv'
    BY <1>1, <2>1, <2>2
  <2>5. HandlerIsCurrent'
    BY <2>2, <2>3 DEF HandlerIsCurrent
  <2> QED
    BY <2>1, <2>2, <2>4, <2>5 DEF Quiet, SlotInv, FreshIsUnknown
<1>7. ASSUME NEW m \in MissionId, StartPublish(m), UNCHANGED detectionVars
      PROVE  SlotInv'
  <2>1. /\ Publishes(m, "queued")
        /\ handler.op = "publish" /\ handler' = Free
        /\ funded[m] = 0 /\ funded'[m] # 0
        /\ \A n \in MissionId \ {m} : funded'[n] = funded[n]
        /\ active' = active \cup {m} /\ queue' = Append(queue, m)
        /\ UNCHANGED <<cancelRequested, worker, closeVars, acknowledged>>
    BY <1>7, StartPublishes
  <2>2. active = {} /\ worker.pc = "idle"
    BY <2>1 DEF SlotInv, HandlerIsCurrent, OneCarrier
  <2>3. queue = <<>>
    BY <1>0, <2>2 DEF SlotInv, StageInv
  <2>4. queue' = <<m>> /\ active' = {m} /\ worker'.pc = "idle"
    BY <2>1, <2>2, <2>3
  <2>5. SlotCoversMission'
    BY <2>1, <2>2, <2>4
       DEF SlotInv, SlotCoversMission, Publishes, IsOpen, Open
  <2>6. OneCarrier' /\ StageInv'
    BY <2>1, <2>4 DEF OneCarrier, StageInv, Publishes, HasStatus, Busy
  <2>7. FreshIsUnknown'
    BY <1>7, <2>1, <2>4 DEF SlotInv, FreshIsUnknown, Publishes, detectionVars
  <2>8. HandlerIsCurrent' /\ cancelRequested' \subseteq active'
    BY <2>1, <2>2 DEF HandlerIsCurrent, Free, SlotInv
  <2> QED
    BY <2>5, <2>6, <2>7, <2>8 DEF SlotInv
<1>8. ASSUME NEW m \in MissionId, NEW byClose \in BOOLEAN, CancelNothing(m, byClose)
      PROVE  SlotInv'
  BY <1>2, <1>8
     DEF QuietStep, Cancel, CancelNothing, workVars, historyVars, detectionVars
<1>9. ASSUME NEW m \in MissionId, NEW byClose \in BOOLEAN, CancelSignal(m, byClose)
      PROVE  SlotInv'
  <2>1. Quiet /\ UNCHANGED funded
    BY <1>9, QuietStepIsQuiet DEF QuietStep, Cancel
  <2>2. /\ IsOpen(m) /\ execCancel' = execCancel \cup {m}
        /\ handler' = [op |-> "signalled", mission |-> m, closing |-> byClose]
        /\ UNCHANGED <<active, queue, worker, cancelRequested, acknowledged, tooLate,
                       closer>>
    BY <1>9 DEF CancelSignal, workVars, closeVars, historyVars
  <2>3. SlotCoversMission' /\ OneCarrier' /\ StageInv'
    BY <1>1, <2>1, <2>2
  <2>4. m \in active
    BY <2>2 DEF SlotInv, SlotCoversMission
  <2>5. FreshIsUnknown'
    BY <2>1, <2>2, <2>4 DEF Quiet, SlotInv, FreshIsUnknown
  <2>6. HandlerIsCurrent' /\ cancelRequested' \subseteq active'
    BY <2>2, <2>4 DEF SlotInv, HandlerIsCurrent
  <2> QED
    BY <2>3, <2>5, <2>6 DEF SlotInv
<1>10. CASE CancelRecord
  <2>1. Quiet /\ UNCHANGED funded
    BY <1>10, QuietStepIsQuiet DEF QuietStep
  <2>2. PICK m \in MissionId : m = handler.mission /\ m \in active
    BY <1>0, <1>10 DEF CancelRecord, SlotInv, HandlerIsCurrent
  <2>3. /\ cancelRequested' = cancelRequested \cup {m}
        /\ acknowledged' = acknowledged \cup {m}
        /\ tooLate' \subseteq tooLate \cup {m}
        /\ handler' = Free
        /\ UNCHANGED <<active, queue, worker, execCancel, closer>>
    BY <1>10, <2>2 DEF CancelRecord
  <2>4. SlotCoversMission' /\ OneCarrier' /\ StageInv'
    BY <1>1, <2>1, <2>3
  <2>5. FreshIsUnknown'
    BY <2>1, <2>2, <2>3 DEF Quiet, SlotInv, FreshIsUnknown
  <2>6. HandlerIsCurrent' /\ cancelRequested' \subseteq active'
    BY <2>2, <2>3 DEF SlotInv, HandlerIsCurrent, Free
  <2> QED
    BY <2>4, <2>5, <2>6 DEF SlotInv
<1>11. CASE Begin
  <2>1. PICK m \in MissionId : m = Head(queue)
    BY <1>11, BeginWorker
  <2>2. /\ worker.pc = "idle" /\ queue # <<>> /\ queue' = Tail(queue)
        /\ worker'.pc = "executing" /\ worker'.mission = m
        /\ Publishes(m, "running")
        /\ UNCHANGED <<active, cancelRequested, handler, closeVars, historyVars,
                       detectionVars>>
    BY <1>11, <2>1, BeginWorker, BeginPublishes
  <2>3. 1 \in DOMAIN queue /\ queue[1] = m
    BY <1>0, <2>1, <2>2
  <2>4. m \in active /\ HasStatus(m, "queued") /\ active = {m}
    BY <2>3 DEF SlotInv, StageInv, SlotCoversMission
  <2>5. queue' = <<>>
    BY <1>0, <2>2 DEF SlotInv, OneCarrier
  <2>6. SlotCoversMission'
    BY <2>2, <2>4 DEF SlotInv, SlotCoversMission, Publishes, IsOpen, Open
  <2>7. OneCarrier' /\ StageInv'
    BY <2>2, <2>4, <2>5 DEF OneCarrier, StageInv, Publishes, HasStatus
  <2>8. FreshIsUnknown'
    BY <2>2, <2>4
       DEF SlotInv, FreshIsUnknown, Publishes, historyVars, detectionVars, HasStatus
  <2>9. HandlerIsCurrent' /\ cancelRequested' \subseteq active'
    BY <2>2 DEF SlotInv, HandlerIsCurrent, closeVars
  <2> QED
    BY <2>6, <2>7, <2>8, <2>9 DEF SlotInv
<1>12. CASE Collect \/ ExecutorStops \/ ExecutorReturns \/ ExecutorRaises \/ ReadCancelled
  <2>1. QuietStep
    BY <1>12 DEF QuietStep
  <2>2. Busy /\ Busy' /\ worker'.mission = worker.mission
    BY <1>12, CollectWorker, ExecutorWorker, ReadWorker DEF Busy
  <2>3. execCancel' \subseteq execCancel
    BY <1>12, ExecutorWorker DEF Collect, ReadCancelled, detectionVars
  <2>4. UNCHANGED <<active, queue, handler, closer, cancelRequested, acknowledged,
                    tooLate>>
    BY <1>12
       DEF Collect, ExecutorStops, ExecutorReturns, ExecutorRaises, ReadCancelled,
           closeVars, historyVars, detectionVars
  <2> QED
    BY <1>2, <2>1, <2>2, <2>3, <2>4
<1>13. ASSUME NEW m \in MissionId, m = worker.mission, NEW s \in Status,
              Report \/ Publish, Publishes(m, s), Report => s = "running",
              Publish => s \in Settled,
              UNCHANGED <<active, cancelRequested, queue, handler, closeVars,
                          historyVars, detectionVars>>
       PROVE  SlotInv'
  <2>1. /\ worker'.mission = m
        /\ \/ worker'.pc = "executing" /\ s = "running"
           \/ worker'.pc = "leaving" /\ s \in Settled
        /\ worker.pc \in {"reporting", "deciding"}
    BY <1>13, PutWorker
  <2>2. active = {m} /\ queue = <<>> /\ funded[m] # 0
    <3>1. active = {m} /\ queue = <<>>
      BY <1>13, <2>1 DEF SlotInv, OneCarrier
    <3> QED
      BY <3>1 DEF SlotInv, FreshIsUnknown
  <2>3. SlotCoversMission'
    BY <1>13, <2>1, <2>2 DEF SlotInv, SlotCoversMission, Publishes, IsOpen, Open
  <2>4. OneCarrier'
    <3>1. s \in Settled => ~IsOpen(m)'
      BY <1>13 DEF Publishes, IsOpen, Open, Settled
    <3>2. worker'.pc = "leaving" => ~IsOpen(worker.mission)'
      BY <2>1, <3>1 DEF IsOpen
    <3> QED
      BY <1>13, <2>1, <2>2, <3>2 DEF OneCarrier
  <2>5. StageInv'
    BY <1>13, <2>1, <2>2 DEF StageInv, Publishes, HasStatus, Busy
  <2>6. FreshIsUnknown'
    BY <1>13, <2>2 DEF SlotInv, FreshIsUnknown, Publishes, historyVars, detectionVars
  <2>7. HandlerIsCurrent' /\ cancelRequested' \subseteq active'
    BY <1>13 DEF SlotInv, HandlerIsCurrent, closeVars
  <2> QED
    BY <2>3, <2>4, <2>5, <2>6, <2>7 DEF SlotInv
<1>14. CASE Report
  <2>1. PICK m \in MissionId : m = worker.mission
    BY <1>0, <1>14, PutWorker DEF Carried
  <2>2. HasStatus(worker.mission, "running")
    BY <1>14, PutWorker DEF SlotInv, StageInv, Busy
  <2> QED
    BY <1>13, <1>14, <2>1, <2>2, ReportPublishes DEF Publish, Report, Status, Open
<1>15. CASE Publish
  <2>1. PICK m \in MissionId : m = worker.mission
    BY <1>0, <1>15, PutWorker DEF Carried
  <2>2. PICK s \in Settled : s = worker.status
    BY <1>0, <1>15, PutWorker DEF Carried
  <2>3. ~Report
    BY <1>15 DEF Publish, Report
  <2> QED
    BY <1>13, <1>15, <2>1, <2>2, <2>3, OutcomePublishes DEF Status
<1>16. CASE LeaveRun
  <2>1. Quiet /\ UNCHANGED funded
    BY <1>16, QuietStepIsQuiet DEF QuietStep
  <2>2. /\ worker.pc = "leaving" /\ worker'.pc = "idle"
        /\ active' = active \ {worker.mission}
        /\ cancelRequested' = cancelRequested \ {worker.mission}
        /\ LockFree
        /\ UNCHANGED <<queue, handler, closeVars, acknowledged, execCancel, tooLate>>
    BY <1>16 DEF LeaveRun, Discard, IdleWorker, historyVars, detectionVars
  <2>3. active' = {} /\ queue' = <<>> /\ cancelRequested' = {}
    BY <2>2 DEF SlotInv, OneCarrier
  <2>4. \A n \in MissionId : ~IsOpen(n)'
    BY <2>1, <2>2 DEF Quiet, SlotInv, SlotCoversMission, OneCarrier
  <2>5. SlotCoversMission' /\ OneCarrier' /\ StageInv'
    BY <2>2, <2>3, <2>4 DEF SlotCoversMission, OneCarrier, StageInv, Busy
  <2>6. FreshIsUnknown'
    BY <2>1, <2>2, <2>3 DEF Quiet, SlotInv, FreshIsUnknown
  <2>7. HandlerIsCurrent'
    BY <2>2 DEF HandlerIsCurrent, LockFree, Free
  <2> QED
    BY <2>3, <2>5, <2>6, <2>7 DEF SlotInv
<1> QED
  BY <1>3, <1>4, <1>5, <1>6, <1>7, <1>8, <1>9, <1>10, <1>11, <1>12, <1>14, <1>15,
     <1>16
     DEF Next, Slot, Start, Cancelling, Cancel, Run, Executing
-----------------------------------------------------------------------------
(* A mission that was settled before a step stays as it is, or goes.        *)
LEMMA SettledBefore ==
  ASSUME TypeOK, SlotInv, StopIsFlagged, [Next]_vars,
         NEW n \in MissionId, IsSettled(n)', ~(Publish /\ n = worker.mission)
  PROVE  IsSettled(n) /\ missions'[n] = missions[n]
<1>1. CASE QuietStep
  BY <1>1, QuietStepIsQuiet DEF Quiet
<1>2. ASSUME NEW m \in MissionId, NEW s \in Open, Publishes(m, s)
      PROVE  IsSettled(n) /\ missions'[n] = missions[n]
  BY <1>2 DEF Publishes, IsSettled, Open, Settled
<1>3. ASSUME NEW m \in MissionId, StartPublish(m)
      PROVE  IsSettled(n) /\ missions'[n] = missions[n]
  BY <1>2, <1>3, StartPublishes DEF Open
<1>4. CASE Begin
  <2>1. PICK m \in MissionId : m = Head(queue)
    BY <1>4, BeginWorker
  <2> QED
    BY <1>2, <1>4, <2>1, BeginPublishes DEF Open
<1>5. CASE Report
  <2>1. PICK m \in MissionId : m = worker.mission
    BY <1>5, CarriedIs, PutWorker DEF Carried
  <2>2. HasStatus(m, "running")
    BY <1>5, <2>1, PutWorker DEF SlotInv, StageInv, Busy
  <2> QED
    BY <1>2, <1>5, <2>1, <2>2, ReportPublishes DEF Open
<1>6. CASE Publish
  <2>1. PICK m \in MissionId : m = worker.mission
    BY <1>6, CarriedIs, PutWorker DEF Carried
  <2>2. PICK s \in Settled : s = worker.status
    BY <1>6, CarriedIs, PutWorker DEF Carried
  <2>3. Publishes(m, s)
    BY <1>6, <2>1, <2>2, OutcomePublishes
  <2> QED
    BY <1>6, <2>1, <2>3 DEF Publishes
<1> QED
  BY <1>1, <1>3, <1>4, <1>5, <1>6, StepKinds

(* What opens: a mission is only opened by start.                           *)
LEMMA OpenBefore ==
  ASSUME TypeOK, SlotInv, StopIsFlagged, [Next]_vars,
         NEW n \in MissionId, IsOpen(n)'
  PROVE  \/ IsOpen(n)
         \/ StartPublish(n) /\ UNCHANGED detectionVars /\ funded[n] = 0
<1>1. CASE QuietStep
  BY <1>1, QuietStepIsQuiet DEF Quiet
<1>2. ASSUME NEW m \in MissionId, StartPublish(m), UNCHANGED detectionVars
      PROVE  \/ IsOpen(n)
             \/ StartPublish(n) /\ UNCHANGED detectionVars /\ funded[n] = 0
  BY <1>2, StartPublishes DEF Publishes
<1>3. CASE Begin
  <2>1. PICK m \in MissionId : m = Head(queue)
    BY <1>3, BeginWorker
  <2>2. Publishes(m, "running") /\ HasStatus(m, "queued")
    <3>1. queue \in Seq(MissionId) /\ queue # <<>>
      BY <1>3, BeginWorker DEF TypeOK, SlotTypeOK
    <3>2. 1 \in DOMAIN queue /\ queue[1] = m
      BY <2>1, <3>1
    <3> QED
      BY <1>3, <2>1, <3>2, BeginPublishes DEF SlotInv, StageInv
  <2> QED
    BY <2>2 DEF Publishes, HasStatus, IsOpen, Open
<1>4. CASE Report \/ Publish
  <2>1. PICK m \in MissionId : m = worker.mission
    BY <1>4, CarriedIs, PutWorker DEF Carried
  <2>2. HasStatus(m, "running")
    BY <1>4, <2>1, PutWorker DEF SlotInv, StageInv, Busy
  <2>3. \E s \in Status : Publishes(m, s)
    BY <1>4, <2>1, <2>2, ReportPublishes, OutcomePublishes, CarriedIs, PutWorker
       DEF Carried, Status, Open
  <2> QED
    BY <2>2, <2>3 DEF Publishes, HasStatus, IsOpen, Open
<1> QED
  BY <1>1, <1>2, <1>3, <1>4, StepKinds

(* Every step keeps a cut that will be seen, and "completed" whole.         *)
LEMMA StopStep ==
  TypeOK /\ SlotInv /\ StopIsFlagged /\ [Next]_vars => StopIsFlagged'
<1> SUFFICES ASSUME TypeOK, SlotInv, StopIsFlagged, [Next]_vars
             PROVE  StopIsFlagged'
  OBVIOUS
<1>0. Carried /\ TypeOK'
  BY CarriedIs, TypeStep
<1> DEFINE Marked == \A m \in execCancel : IsOpen(m) => CancelInFlight(m)
           Stopped == Busy /\ worker.summary = "stopped" =>
                        CancelInFlight(worker.mission)
           Decided ==
             /\ worker.pc = "returned" =>
                  worker.summary \in {"clean", "failures", "stopped"}
             /\ worker.pc = "deciding" =>
                  /\ worker.status \in Settled
                  /\ worker.status = "completed" =>
                       worker.summary \in {"clean", "failures"}
(* Open missions with a mark keep their cancel in flight.                   *)
<1>1. ASSUME \A n \in MissionId : CancelInFlight(n) => CancelInFlight(n)' \/ ~IsOpen(n)',
             \A n \in MissionId :
               n \in execCancel' => n \in execCancel \/ CancelInFlight(n)'
      PROVE  Marked'
  <2> SUFFICES ASSUME NEW n \in execCancel', IsOpen(n)' PROVE CancelInFlight(n)'
    OBVIOUS
  <2>1. n \in MissionId
    BY <1>0 DEF TypeOK
  <2>2. CASE IsOpen(n)
    BY <1>1, <2>1, <2>2 DEF StopIsFlagged
  <2>3. CASE ~IsOpen(n)
    <3>1. funded[n] = 0
      BY <2>1, <2>3, OpenBefore
    <3>2. n \notin execCancel
      BY <2>1, <3>1 DEF SlotInv, FreshIsUnknown
    <3> QED
      BY <1>1, <2>1, <3>2
  <2> QED
    BY <2>2, <2>3
<1>2. ASSUME UNCHANGED worker, Marked',
             \A n \in MissionId : CancelInFlight(n) => CancelInFlight(n)'
      PROVE  StopIsFlagged'
  <2>1. worker.pc # "idle" => worker.mission \in MissionId
    BY <1>0 DEF Carried
  <2>2. worker'.mission = worker.mission /\ worker'.pc = worker.pc
        /\ worker'.summary = worker.summary /\ worker'.status = worker.status
    BY <1>2
  <2>3. Decided'
    BY <2>2 DEF StopIsFlagged
  <2>4. Stopped'
    <3> SUFFICES ASSUME Busy', worker'.summary = "stopped"
                 PROVE  CancelInFlight(worker.mission)'
      OBVIOUS
    <3>1. PICK m \in MissionId : m = worker.mission
      BY <2>1, <2>2 DEF Busy
    <3>2. CancelInFlight(m)
      BY <2>2, <3>1 DEF Busy, StopIsFlagged
    <3> QED
      BY <1>2, <2>2, <3>1, <3>2
  <2> QED
    BY <1>2, <2>3, <2>4 DEF StopIsFlagged
<1>3. CASE /\ \/ Environment \/ StartConsume
              \/ \E t \in 1..MaxIssued : StartCheck(t)
              \/ \E m \in MissionId : StartPublish(m)
              \/ CloseBegin \/ CloseDrain \/ CloseDone
              \/ \E m \in MissionId, byClose \in BOOLEAN : CancelNothing(m, byClose)
              \/ UNCHANGED vars
           /\ UNCHANGED execCancel
  <2>1. /\ UNCHANGED <<worker, cancelRequested>>
        /\ handler.op = "signalled" => UNCHANGED handler
    BY <1>3, EnvironmentStep
       DEF TypeOK, StartCheck, StartConsume, StartPublish, CloseBegin, CloseDrain,
           CloseDone, CancelNothing, LockFree, Free, vars, slotVars, workVars
  <2>2. \A n \in MissionId : CancelInFlight(n) => CancelInFlight(n)'
    BY <2>1 DEF CancelInFlight
  <2>3. Marked'
    BY <1>1, <1>3, <2>2
  <2> QED
    BY <1>2, <2>1, <2>2, <2>3
<1>4. ASSUME NEW m \in MissionId, NEW byClose \in BOOLEAN, CancelSignal(m, byClose)
      PROVE  StopIsFlagged'
  <2>1. /\ UNCHANGED <<worker, cancelRequested>> /\ execCancel' = execCancel \cup {m}
        /\ handler.op = "free"
        /\ handler' = [op |-> "signalled", mission |-> m, closing |-> byClose]
    BY <1>4 DEF CancelSignal, LockFree, Free, workVars
  <2>2. \A n \in MissionId : CancelInFlight(n) => CancelInFlight(n)'
    BY <2>1 DEF CancelInFlight
  <2>3. CancelInFlight(m)'
    BY <2>1 DEF CancelInFlight
  <2>4. Marked'
    BY <1>1, <2>1, <2>2, <2>3
  <2> QED
    BY <1>2, <2>1, <2>2, <2>4
<1>5. CASE CancelRecord
  <2>1. /\ UNCHANGED <<worker, execCancel>>
        /\ cancelRequested' = cancelRequested \cup {handler.mission}
    BY <1>5 DEF CancelRecord
  <2>2. \A n \in MissionId : CancelInFlight(n) => CancelInFlight(n)'
    BY <2>1 DEF CancelInFlight
  <2>3. Marked'
    BY <1>1, <2>1, <2>2
  <2> QED
    BY <1>2, <2>1, <2>2, <2>3
<1>6. CASE Begin \/ Collect \/ Report \/ Publish \/ ReadCancelled
             \/ ExecutorStops \/ ExecutorReturns \/ ExecutorRaises
  <2>1. UNCHANGED <<cancelRequested, handler>> /\ execCancel' \subseteq execCancel
    BY <1>6
       DEF Begin, Collect, Report, Publish, ReadCancelled, ExecutorStops,
           ExecutorReturns, ExecutorRaises, detectionVars
  <2>2. \A n \in MissionId : CancelInFlight(n) => CancelInFlight(n)'
    BY <2>1 DEF CancelInFlight
  <2>3. Marked'
    BY <1>1, <2>1, <2>2
  <2>4. CASE Begin
    BY <2>3, <2>4, BeginWorker DEF StopIsFlagged
  <2>5. CASE Collect
    BY <2>3, <2>5, CollectWorker DEF StopIsFlagged
  <2>6. ASSUME Busy, worker'.mission = worker.mission,
               worker'.summary = "stopped" =>
                 worker.summary = "stopped" \/ worker.mission \in execCancel
        PROVE  Stopped'
    <3> SUFFICES ASSUME Busy', worker'.summary = "stopped"
                 PROVE  CancelInFlight(worker.mission)'
      OBVIOUS
    <3>1. PICK m \in MissionId : m = worker.mission
      BY <1>0, <2>6 DEF Carried, Busy
    <3>2. IsOpen(m)
      BY <2>6, <3>1 DEF SlotInv, StageInv, HasStatus, IsOpen, Open
    <3>3. CancelInFlight(m)
      BY <2>6, <3>1, <3>2 DEF StopIsFlagged
    <3>4. CancelInFlight(m)'
      BY <2>2, <3>3
    <3> QED
      BY <2>6, <3>1, <3>4
  <2>7. CASE Report \/ Publish
    <3>1. Stopped'
      BY <2>6, <2>7, PutWorker DEF Busy
    <3>2. Decided'
      BY <2>7, PutWorker
    <3> QED
      BY <2>3, <3>1, <3>2 DEF StopIsFlagged
  <2>8. CASE ExecutorStops \/ ExecutorReturns \/ ExecutorRaises
    <3>1. Stopped'
      BY <2>6, <2>8, ExecutorWorker DEF Busy
    <3>2. Decided'
      BY <2>8, ExecutorWorker
    <3> QED
      BY <2>3, <3>1, <3>2 DEF StopIsFlagged
  <2>9. CASE ReadCancelled
    <3>1. Stopped'
      BY <2>6, <2>9, ReadWorker DEF Busy
    <3>2. /\ LockFree /\ worker.pc \in {"returned", "raised"}
          /\ worker'.pc = "deciding" /\ worker'.summary = worker.summary
          /\ worker'.status = Verdict /\ Verdict \in Settled
      BY <2>9, ReadWorker
    <3>3. Verdict = "completed" =>
            worker.mission \notin cancelRequested /\ worker.pc = "returned"
      BY <3>2 DEF Verdict
    <3>4. worker.summary = "stopped" => worker.mission \in cancelRequested
      BY <3>2 DEF StopIsFlagged, CancelInFlight, Busy, LockFree, Free
    <3>5. Decided'
      BY <3>2, <3>3, <3>4 DEF StopIsFlagged
    <3> QED
      BY <2>3, <3>1, <3>5 DEF StopIsFlagged
  <2> QED
    BY <1>6, <2>4, <2>5, <2>7, <2>8, <2>9
<1>7. CASE LeaveRun
  <2>1. PICK m \in MissionId : m = worker.mission /\ worker.pc = "leaving"
    BY <1>0, <1>7 DEF Carried, LeaveRun
  <2>2. /\ cancelRequested' = cancelRequested \ {m} /\ UNCHANGED <<handler, execCancel>>
        /\ worker'.pc = "idle"
    BY <1>7, <2>1 DEF LeaveRun, Discard, IdleWorker, detectionVars
  <2>3. ~IsOpen(m)'
    <3>1. ~IsOpen(m)
      BY <2>1 DEF SlotInv, OneCarrier
    <3> QED
      BY <1>7, <3>1, QuietStepIsQuiet DEF QuietStep, Quiet
  <2>4. Marked'
    BY <1>1, <2>2, <2>3 DEF CancelInFlight
  <2> QED
    BY <2>2, <2>4 DEF StopIsFlagged, Busy
<1>8. ASSUME NEW m \in MissionId, NEW byClose \in BOOLEAN, CancelNothing(m, byClose)
      PROVE  StopIsFlagged'
  BY <1>3, <1>8 DEF CancelNothing, detectionVars
<1> QED
  BY <1>3, <1>4, <1>5, <1>6, <1>7, <1>8
     DEF Next, Slot, Start, Cancelling, Cancel, Run, Executing, vars, detectionVars

(* "completed" is only published with the summary of all files.             *)
LEMMA CompletedStep ==
  TypeOK /\ SlotInv /\ StopIsFlagged /\ CompletedIsWhole /\ [Next]_vars => CompletedIsWhole'
<1> SUFFICES ASSUME TypeOK, SlotInv, StopIsFlagged, CompletedIsWhole, [Next]_vars,
                    NEW n \in MissionId, IsSettled(n)',
                    missions'[n].body.status = "completed"
             PROVE  missions'[n].body.summary \in {"clean", "failures"}
  BY DEF CompletedIsWhole
<1>1. CASE Publish /\ n = worker.mission
  <2>1. missions'[n].body = PublishedBody /\ worker.pc = "deciding"
    BY <1>1, CarriedIs, OutcomePublishes, PutWorker DEF Carried
  <2>2. worker.status = "completed" /\ missions'[n].body.summary = worker.summary
    BY <2>1 DEF PublishedBody
  <2> QED
    BY <2>1, <2>2 DEF StopIsFlagged
<1>2. CASE ~(Publish /\ n = worker.mission)
  BY <1>2, SettledBefore DEF CompletedIsWhole
<1> QED
  BY <1>1, <1>2
-----------------------------------------------------------------------------
(* Every step keeps the account of the cancels accepted in time.            *)
LEMMA VerdictStep ==
  TypeOK /\ SlotInv /\ StopIsFlagged /\ VerdictInv /\ [Next]_vars => VerdictInv'
<1> SUFFICES ASSUME TypeOK, SlotInv, StopIsFlagged, VerdictInv, [Next]_vars,
                    NEW n \in MissionId, IsOpen(n)'
             PROVE  IF FlagWasRead(n)'
                      THEN n \in InTime' <=> worker'.status = "cancelled"
                      ELSE /\ n \notin tooLate'
                           /\ n \in acknowledged' <=> n \in cancelRequested'
  BY DEF VerdictInv
<1>1. CASE StartPublish(n) /\ UNCHANGED detectionVars /\ funded[n] = 0
  <2>1. n \notin acknowledged \cup tooLate \cup active \cup cancelRequested
    BY <1>1 DEF SlotInv, FreshIsUnknown
  <2>2. UNCHANGED <<worker, acknowledged, cancelRequested, tooLate>>
    BY <1>1 DEF StartPublish, detectionVars
  <2>3. ~FlagWasRead(n)'
    BY <2>1, <2>2, CarriedIs DEF FlagWasRead
  <2> QED
    BY <2>1, <2>2, <2>3
<1>2. SUFFICES ASSUME IsOpen(n)
               PROVE  IF FlagWasRead(n)'
                        THEN n \in InTime' <=> worker'.status = "cancelled"
                        ELSE /\ n \notin tooLate'
                             /\ n \in acknowledged' <=> n \in cancelRequested'
  BY <1>1, OpenBefore
<1>3. ~(worker.pc = "leaving" /\ worker.mission = n)
  BY <1>2 DEF SlotInv, OneCarrier
<1>4. ASSUME n \in acknowledged' <=> n \in acknowledged,
             n \in tooLate' <=> n \in tooLate,
             n \in cancelRequested' <=> n \in cancelRequested,
             FlagWasRead(n)' <=> FlagWasRead(n),
             FlagWasRead(n) => worker'.status = worker.status
      PROVE  IF FlagWasRead(n)'
               THEN n \in InTime' <=> worker'.status = "cancelled"
               ELSE /\ n \notin tooLate'
                    /\ n \in acknowledged' <=> n \in cancelRequested'
  BY <1>2, <1>4 DEF VerdictInv, InTime
<1>5. CASE /\ UNCHANGED <<acknowledged, tooLate, cancelRequested>>
           /\ \/ UNCHANGED worker
              \/ ~FlagWasRead(n) /\ ~FlagWasRead(n)'
  BY <1>4, <1>5 DEF FlagWasRead
<1>6. CASE /\ \/ Environment \/ StartConsume
              \/ \E t \in 1..MaxIssued : StartCheck(t)
              \/ \E m \in MissionId : StartPublish(m)
              \/ CloseBegin \/ CloseDrain \/ CloseDone
              \/ \E m \in MissionId, byClose \in BOOLEAN : Cancel(m, byClose)
              \/ UNCHANGED vars
           /\ UNCHANGED tooLate
  <2>1. UNCHANGED <<worker, acknowledged, cancelRequested>>
    BY <1>6, EnvironmentStep
       DEF TypeOK, StartCheck, StartConsume, StartPublish, CloseBegin, CloseDrain,
           CloseDone, Cancel, CancelNothing, CancelSignal, vars, slotVars, workVars,
           historyVars
  <2> QED
    BY <1>5, <1>6, <2>1
<1>7. CASE CancelRecord
  <2>1. PICK m \in MissionId : m = handler.mission
    BY <1>7 DEF CancelRecord, TypeOK, Handler, StartHandler
  <2>2. /\ cancelRequested' = cancelRequested \cup {m}
        /\ acknowledged' = acknowledged \cup {m}
        /\ tooLate' = IF FlagWasRead(m) /\ m \notin acknowledged
                        THEN tooLate \cup {m} ELSE tooLate
        /\ UNCHANGED worker
    BY <1>7, <2>1 DEF CancelRecord
  <2>3. FlagWasRead(n)' <=> FlagWasRead(n)
    BY <2>2 DEF FlagWasRead
  <2>4. CASE n # m
    BY <1>4, <2>2, <2>3, <2>4
  <2>5. CASE n = m
    BY <1>2, <2>2, <2>3, <2>5 DEF VerdictInv, InTime
  <2> QED
    BY <2>4, <2>5
<1>8. CASE Begin \/ Collect \/ Report \/ ExecutorStops \/ ExecutorReturns \/ ExecutorRaises
  <2>1. UNCHANGED <<acknowledged, tooLate, cancelRequested>>
    BY <1>8
       DEF Begin, Collect, Report, ExecutorStops, ExecutorReturns, ExecutorRaises,
           historyVars, detectionVars
  <2>2. ~FlagWasRead(n) /\ ~FlagWasRead(n)'
    BY <1>8, BeginWorker, CollectWorker, PutWorker, ExecutorWorker DEF FlagWasRead
  <2> QED
    BY <1>5, <2>1, <2>2
<1>9. CASE ReadCancelled
  <2>1. /\ UNCHANGED <<acknowledged, tooLate, cancelRequested>>
        /\ ~FlagWasRead(n) /\ worker'.mission = worker.mission
        /\ worker'.pc = "deciding" /\ worker'.status = Verdict
    BY <1>9, ReadWorker DEF ReadCancelled, historyVars, detectionVars, FlagWasRead
  <2>2. CASE n # worker.mission
    BY <1>5, <2>1, <2>2 DEF FlagWasRead
  <2>3. CASE n = worker.mission
    <3>1. Verdict = "cancelled" <=> n \in cancelRequested
      BY <2>3 DEF Verdict
    <3> QED
      BY <1>2, <2>1, <2>3, <3>1 DEF VerdictInv, InTime, FlagWasRead
  <2> QED
    BY <2>2, <2>3
<1>10. CASE Publish
  <2>1. UNCHANGED <<acknowledged, tooLate, cancelRequested>>
    BY <1>10 DEF Publish, historyVars, detectionVars
  <2>2. n # worker.mission
    <3>1. PICK m \in MissionId, s \in Settled : m = worker.mission /\ s = worker.status
      BY <1>10, CarriedIs, PutWorker DEF Carried
    <3>2. Publishes(m, s)
      BY <1>10, <3>1, OutcomePublishes
    <3> QED
      BY <3>1, <3>2 DEF Publishes, IsOpen, Open, Settled
  <2> QED
    BY <1>5, <1>10, <2>1, <2>2, PutWorker DEF FlagWasRead
<1>11. CASE LeaveRun
  <2>1. /\ UNCHANGED <<acknowledged, tooLate>>
        /\ cancelRequested' = cancelRequested \ {worker.mission}
        /\ worker.pc = "leaving" /\ worker'.pc = "idle"
    BY <1>11 DEF LeaveRun, Discard, IdleWorker, historyVars, detectionVars
  <2> QED
    BY <1>3, <1>4, <2>1 DEF FlagWasRead
<1>12. ASSUME Slot, UNCHANGED detectionVars
       PROVE  IF FlagWasRead(n)'
                THEN n \in InTime' <=> worker'.status = "cancelled"
                ELSE /\ n \notin tooLate'
                     /\ n \in acknowledged' <=> n \in cancelRequested'
  BY <1>6, <1>12 DEF Slot, Start, detectionVars
<1>13. ASSUME NEW m \in MissionId, NEW byClose \in BOOLEAN, Cancel(m, byClose)
       PROVE  UNCHANGED tooLate
  BY <1>13 DEF Cancel, CancelNothing, CancelSignal, detectionVars
<1>14. CASE UNCHANGED vars
  BY <1>6, <1>14 DEF vars, detectionVars
<1> QED
  BY <1>6, <1>7, <1>8, <1>9, <1>10, <1>11, <1>12, <1>13, <1>14
     DEF Next, Cancelling, Run, Executing
-----------------------------------------------------------------------------
(* close() only ends when the slot is free.                                 *)
LEMMA ClosingStep ==
  TypeOK /\ SlotInv /\ StopIsFlagged /\ CloseInv /\ [Next]_vars => CloseInv'
<1> SUFFICES ASSUME TypeOK, SlotInv, StopIsFlagged, CloseInv, [Next]_vars
             PROVE  CloseInv'
  OBVIOUS
<1>1. CASE UNCHANGED closer /\ (active' \subseteq active \/ closer # "stopped")
  BY <1>1 DEF CloseInv
<1>2. CASE Environment
  BY <1>1, <1>2, EnvironmentStep DEF TypeOK, workVars, closeVars
<1>3. CASE \/ \E t \in 1..MaxIssued : StartCheck(t)
           \/ StartConsume
           \/ \E m \in MissionId, byClose \in BOOLEAN : Cancel(m, byClose)
  BY <1>1, <1>3
     DEF StartCheck, StartConsume, Cancel, CancelNothing, CancelSignal, workVars,
         closeVars
<1>4. ASSUME NEW m \in MissionId, StartPublish(m)
      PROVE  CloseInv'
  BY <1>1, <1>4 DEF StartPublish, closeVars, SlotInv, HandlerIsCurrent
<1>5. CASE CloseBegin \/ CloseDrain
  BY <1>5 DEF CloseBegin, CloseDrain, CloseInv
<1>6. CASE CloseDone
  BY <1>6 DEF CloseDone, PoolIdle, workVars, CloseInv, SlotInv, OneCarrier
<1>7. CASE CancelRecord \/ Run \/ UNCHANGED vars
  BY <1>1, <1>7
     DEF CancelRecord, Run, Begin, Executing, Collect, Report, ExecutorStops,
         ExecutorReturns, ExecutorRaises, ReadCancelled, Publish, LeaveRun, Discard,
         closeVars, vars, slotVars, workVars
<1> QED
  BY <1>2, <1>3, <1>4, <1>5, <1>6, <1>7 DEF Next, Slot, Start, Cancelling

(* The account of tokens and the room in the store are kept as well.        *)
LEMMA AccountStep ==
  TypeOK /\ SlotInv /\ StopIsFlagged /\ TokenInv /\ RoomInv /\ [Next]_vars =>
    TokenInv' /\ RoomInv'
<1> SUFFICES ASSUME TypeOK, SlotInv, StopIsFlagged, TokenInv, RoomInv, [Next]_vars
             PROVE  TokenInv' /\ RoomInv'
  OBVIOUS
<1>1. CASE Slot
  <2>1. handler.op \in {"consume", "publish"} => handler \in StartHandler
    BY DEF TypeOK, Handler
  <2> QED
    BY <1>1, <2>1, TokenStep, RoomStep DEF Slot, TypeOK
<1>2. CASE Cancelling \/ Run \/ UNCHANGED vars
  <2>1. UNCHANGED <<authVars, funded>>
    BY <1>2
       DEF Cancelling, Cancel, CancelNothing, CancelSignal, CancelRecord, Run, Begin,
           Executing, Collect, Report, ExecutorStops, ExecutorReturns, ExecutorRaises,
           ReadCancelled, Publish, LeaveRun, vars, slotVars, historyVars
  <2>2. UNCHANGED handler \/ (handler.op # "publish" /\ handler'.op # "publish")
    <3>1. CASE Cancelling
      BY <3>1
         DEF Cancelling, Cancel, CancelNothing, CancelSignal, CancelRecord, LockFree, Free
    <3>2. CASE Run \/ UNCHANGED vars
      BY <3>2
         DEF Run, Begin, Executing, Collect, Report, ExecutorStops, ExecutorReturns,
             ExecutorRaises, ReadCancelled, Publish, LeaveRun, vars, slotVars
    <3> QED
      BY <1>2, <3>1, <3>2
  <2>3. TokenInv'
    BY <2>1, <2>2, TokenQuiet
  <2>4. CASE Store!Purge \/ UNCHANGED missions
    BY <2>3, <2>4, RoomPurge
  <2>5. ASSUME NEW m \in MissionId, NEW b \in Body, Store!Put(m, b)
        PROVE  RoomInv'
    BY <2>5, RoomOwnPut DEF TypeOK
  <2>6. CASE Begin
    BY <2>3, <2>5, <2>6, BeginWorker, BodiesPut DEF Begin
  <2>7. CASE Report
    BY <2>3, <2>4, <2>5, <2>7, CarriedIs, PutWorker, BodiesPut
       DEF Report, Carried, storeVars
  <2>8. CASE Publish
    BY <2>3, <2>5, <2>8, CarriedIs, PutWorker, BodiesPut
       DEF Publish, Carried, PublishedBody
  <2> QED
    BY <1>2, <2>4, <2>6, <2>7, <2>8
       DEF Cancelling, Cancel, CancelNothing, CancelSignal, CancelRecord, Run,
           Executing, Collect, ExecutorStops, ExecutorReturns, ExecutorRaises,
           ReadCancelled, LeaveRun, storeVars, vars, slotVars
<1> QED
  BY <1>1, <1>2 DEF Next
-----------------------------------------------------------------------------
(* A coordinator that was just built satisfies IInv.                        *)
LEMMA InitInv == Init => IInv
<1> SUFFICES ASSUME Init PROVE IInv
  OBVIOUS
<1>1. TypeOK
  BY TypeInit
<1>2. /\ DOMAIN missions = {}
      /\ active = {} /\ cancelRequested = {} /\ acknowledged = {}
      /\ execCancel = {} /\ tooLate = {}
      /\ queue = <<>> /\ worker.pc = "idle" /\ handler.op = "free"
      /\ closer = "open"
  BY DEF Init, SlotInit, Store!Init, Free, IdleWorker
<1>3. SlotInv
  BY <1>2
     DEF SlotInv, SlotCoversMission, FreshIsUnknown, OneCarrier, StageInv,
         HandlerIsCurrent, Busy, IsOpen
<1>4. StopIsFlagged /\ CompletedIsWhole /\ VerdictInv /\ CloseInv
  BY <1>2
     DEF StopIsFlagged, CompletedIsWhole, VerdictInv, CloseInv, Busy, IsOpen, IsSettled
<1>5. TokenInv
  <2>1. /\ \A t \in 1..MaxIssued : grants[t] = 0 /\ ~Due(t)
        /\ DOMAIN authorizations = {}
        /\ \A m \in MissionId : funded[m] = 0
    BY <1>2 DEF Init, SlotInit, Auth!Init, Auth!Token, Due
  <2> QED
    BY <2>1 DEF TokenInv, Paid
<1>6. RoomInv
  <2>1. ForeignActive = {}
    BY <1>2 DEF ForeignActive, IsOpen
  <2> QED
    BY <1>2, <2>1, FS_EmptySet, CoordinatorAssumption DEF RoomInv
<1> QED
  BY <1>1, <1>3, <1>4, <1>5, <1>6 DEF IInv

(* The strengthening is inductive: every step of every thread keeps it.     *)
THEOREM DetectionInductive == Spec => []IInv
<1>1. IInv /\ [Next]_vars => IInv'
  <2> SUFFICES ASSUME IInv, [Next]_vars PROVE IInv'
    OBVIOUS
  <2>1. Carried
    BY CarriedIs DEF IInv
  <2> QED
    BY <2>1, TypeStep, SlotStep, StopStep, CompletedStep, VerdictStep, ClosingStep,
       AccountStep
       DEF IInv
<1> QED
  BY <1>1, InitInv, PTL DEF Spec

(* An open mission holds the slot until the worker has left it, although it *)
(* publishes the outcome without the lock, and never two at once.           *)
THEOREM SlotIsCovered == Spec => []SlotCoversMission
<1>1. IInv => SlotCoversMission
  BY DEF IInv, SlotInv
<1> QED
  BY <1>1, DetectionInductive, PTL

(* What is published as completed has a result for every selected file: a   *)
(* loop that was cut short has its flag before the worker looks for it.     *)
THEOREM DetectionCompletedIsWhole == Spec => []CompletedIsWhole
<1>1. IInv => CompletedIsWhole
  BY DEF IInv
<1> QED
  BY <1>1, DetectionInductive, PTL

(* Nor is there anything else with statistics of part of the sample: what   *)
(* is not completed is published without a summary.                         *)
THEOREM DetectionStatisticsAreWhole == Spec => []StatisticsAreWhole
<1>1. Init => StatisticsAreWhole
  BY DEF Init, SlotInit, Store!Init, StatisticsAreWhole, IsSettled
<1>2. IInv /\ StatisticsAreWhole /\ [Next]_vars => StatisticsAreWhole'
  <2> SUFFICES ASSUME IInv, StatisticsAreWhole, [Next]_vars,
                      NEW n \in MissionId, IsSettled(n)',
                      missions'[n].body.summary = "stopped"
               PROVE  missions'[n].body.status = "degraded"
    BY DEF StatisticsAreWhole
  <2>1. CASE Publish /\ n = worker.mission
    <3>1. missions'[n].body = PublishedBody
      BY <2>1, CarriedIs, OutcomePublishes, PutWorker DEF Carried, IInv
    <3>2. missions'[n].body.status = "completed"
      BY <3>1 DEF PublishedBody
    <3>3. CompletedIsWhole'
      BY CompletedStep DEF IInv
    <3> QED
      BY <3>2, <3>3 DEF CompletedIsWhole
  <2>2. CASE ~(Publish /\ n = worker.mission)
    BY <2>2, SettledBefore DEF IInv, StatisticsAreWhole
  <2> QED
    BY <2>1, <2>2
<1> QED
  BY <1>1, <1>2, DetectionInductive, PTL DEF Spec

(* close() of the detection coordinator leaves nothing open either.         *)
THEOREM DetectionCloseLeavesNothing == Spec => []ClosedMeansDone
<1>1. IInv => ClosedMeansDone
  <2> SUFFICES ASSUME IInv, closer \in {"stopped", "failed"}
               PROVE  /\ \A m \in MissionId : ~IsOpen(m)
                      /\ queue = <<>>
                      /\ handler.op \notin {"consume", "publish"}
    BY DEF ClosedMeansDone
  <2>1. active = {} /\ closer = "stopped"
    BY DEF IInv, CloseInv
  <2>2. \A m \in MissionId : ~IsOpen(m)
    BY <2>1 DEF IInv, SlotInv, SlotCoversMission
  <2>3. queue = <<>>
    <3>1. queue \in Seq(MissionId)
      BY DEF IInv, TypeOK, SlotTypeOK
    <3>2. \A i \in DOMAIN queue : queue[i] \in active
      BY DEF IInv, SlotInv, StageInv
    <3>3. queue # <<>> => 1 \in DOMAIN queue
      BY <3>1
    <3> QED
      BY <2>1, <3>2, <3>3
  <2> QED
    BY <2>1, <2>2, <2>3 DEF IInv, SlotInv, HandlerIsCurrent
<1> QED
  BY <1>1, DetectionInductive, PTL

(* A token pays for one detection, and for one only.                        *)
THEOREM DetectionTokenPaysOnce == Spec => []TokenFundsOneMission
<1>1. IInv => TokenFundsOneMission
  BY TokenInvCounts DEF IInv, TypeOK
<1> QED
  BY <1>1, DetectionInductive, PTL

(* The store has room for the detection whose token was consumed.           *)
THEOREM NoDetectionTokenIsWasted == Spec => []StoreAdmitsMission
<1>1. IInv => StoreAdmitsMission
  <2> SUFFICES ASSUME IInv, handler.op = "publish", NEW m \in MissionId
               PROVE  Store!PutAccepted(m)
    BY DEF StoreAdmitsMission
  <2>1. \A n \in MissionId : ~IsOpen(n)
    BY DEF IInv, SlotInv, HandlerIsCurrent, SlotCoversMission
  <2> QED
    BY <2>1, RoomAdmits DEF IInv, TypeOK
<1> QED
  BY <1>1, DetectionInductive, PTL

(* No step changes an outcome, although it is put without the lock.         *)
THEOREM DetectionOutcomeIsFinal == Spec => OutcomeIsFinal
<1> DEFINE Kept == \A m \in MissionId :
                     IsSettled(m) /\ m \in DOMAIN missions' => missions'[m] = missions[m]
<1>1. IInv /\ [Next]_vars => [Kept]_slotVars
  <2> SUFFICES ASSUME IInv, [Next]_vars, NEW n \in MissionId,
                      IsSettled(n), n \in DOMAIN missions'
               PROVE  missions'[n] = missions[n]
    OBVIOUS
  <2> USE DEF IInv
  <2>1. CASE QuietStep
    BY <2>1, QuietStepIsQuiet DEF Quiet
  <2>2. ASSUME NEW m \in MissionId, NEW s, Publishes(m, s), m # n
        PROVE  missions'[n] = missions[n]
    BY <2>2 DEF Publishes
  <2>3. ASSUME NEW m \in MissionId, StartPublish(m)
        PROVE  missions'[n] = missions[n]
    BY <2>2, <2>3, StartPublishes DEF SlotInv, FreshIsUnknown, IsSettled
  <2>4. CASE Begin
    <3>1. PICK m \in MissionId : m = Head(queue)
      BY <2>4, BeginWorker
    <3>2. HasStatus(m, "queued")
      <4>1. queue \in Seq(MissionId) /\ queue # <<>>
        BY <2>4, BeginWorker DEF TypeOK, SlotTypeOK
      <4>2. 1 \in DOMAIN queue /\ queue[1] = m
        BY <3>1, <4>1
      <4> QED
        BY <4>2 DEF SlotInv, StageInv
    <3> QED
      BY <2>2, <2>4, <3>1, <3>2, BeginPublishes DEF HasStatus, IsSettled, Settled
  <2>5. CASE Report \/ Publish
    <3>1. PICK m \in MissionId : m = worker.mission
      BY <2>5, CarriedIs, PutWorker DEF Carried
    <3>2. HasStatus(m, "running")
      BY <2>5, <3>1, PutWorker DEF SlotInv, StageInv, Busy
    <3>3. \E s \in Status : Publishes(m, s)
      BY <2>5, <3>1, <3>2, ReportPublishes, OutcomePublishes, CarriedIs, PutWorker
         DEF Carried, Status, Open
    <3> QED
      BY <2>2, <3>2, <3>3 DEF HasStatus, IsSettled, Settled
  <2> QED
    BY <2>1, <2>3, <2>4, <2>5, StepKinds
<1> QED
  BY <1>1, DetectionInductive, PTL DEF Spec, OutcomeIsFinal
-----------------------------------------------------------------------------
(* The missions that a step forgets.                                        *)
Gone == {n \in MissionId : IsSettled(n) /\ n \notin DOMAIN missions'}

(* A mission that a step does not publish stays in its phase or is gone.    *)
LEMMA PhaseOfOthers ==
  ASSUME IInv, NEW n \in MissionId, funded'[n] = funded[n],
         IsOpen(n)' <=> IsOpen(n),
         n \in DOMAIN missions' => n \in DOMAIN missions /\ missions'[n] = missions[n]
  PROVE  Phase(n)' = IF n \in Gone THEN "forgotten" ELSE Phase(n)
<1>1. n \in DOMAIN missions => IsOpen(n) \/ IsSettled(n)
  BY DEF IInv, TypeOK, SlotTypeOK, Store!StoreTypeOK, Store!Stored, Body, Status,
         IsOpen, IsSettled
<1>2. n \in DOMAIN missions => funded[n] # 0
  BY DEF IInv, SlotInv, FreshIsUnknown
<1>3. n \in Gone <=> IsSettled(n) /\ n \notin DOMAIN missions'
  BY DEF Gone
<1>4. CASE n \in DOMAIN missions'
  BY <1>3, <1>4 DEF Phase
<1>5. CASE n \notin DOMAIN missions' /\ n \in DOMAIN missions
  <2>1. IsSettled(n)
    BY <1>1, <1>5 DEF IsOpen
  <2> QED
    BY <1>2, <1>3, <1>5, <2>1 DEF Phase
<1>6. CASE n \notin DOMAIN missions' /\ n \notin DOMAIN missions
  BY <1>3, <1>6 DEF Phase, IsSettled
<1> QED
  BY <1>4, <1>5, <1>6

(* So do all missions in a quiet step.                                      *)
LEMMA PhaseAfterQuiet ==
  ASSUME IInv, Quiet, UNCHANGED funded
  PROVE  \A n \in MissionId : Phase(n)' = IF n \in Gone THEN "forgotten" ELSE Phase(n)
<1> SUFFICES ASSUME NEW n \in MissionId
             PROVE  Phase(n)' = IF n \in Gone THEN "forgotten" ELSE Phase(n)
  OBVIOUS
<1>1. /\ funded'[n] = funded[n]
      /\ IsOpen(n)' <=> IsOpen(n)
      /\ n \in DOMAIN missions' => n \in DOMAIN missions /\ missions'[n] = missions[n]
  BY DEF Quiet
<1> QED
  BY <1>1, PhaseOfOthers

(* A step that publishes moves one mission, as Move says.                   *)
LEMMA PhaseAfterPublish ==
  ASSUME IInv, NEW m \in MissionId, NEW s, Publishes(m, s),
         \A n \in MissionId \ {m} : funded'[n] = funded[n]
  PROVE  m \notin Gone /\ Lifecycle!Move(m, s, Gone)
<1>1. m \in MissionId /\ m \in DOMAIN missions' /\ missions'[m].body.status = s
  BY DEF Publishes
<1>2. m \notin Gone
  BY <1>1 DEF Gone
<1>3. Phase(m)' = s
  BY <1>1 DEF Phase
<1>4. ASSUME NEW n \in MissionId \ {m}
      PROVE  Phase(n)' = IF n \in Gone THEN "forgotten" ELSE Phase(n)
  <2>1. /\ funded'[n] = funded[n]
        /\ IsOpen(n)' <=> IsOpen(n)
        /\ n \in DOMAIN missions' => n \in DOMAIN missions /\ missions'[n] = missions[n]
    BY DEF Publishes
  <2> QED
    BY <2>1, PhaseOfOthers
<1>5. \A n \in MissionId :
        Phase(n)' = IF n = m THEN s ELSE IF n \in Gone THEN "forgotten" ELSE Phase(n)
  BY <1>3, <1>4
<1> QED
  BY <1>2, <1>5 DEF Lifecycle!Move

(* Which cancels are in time only changes when one is recorded in time.     *)
LEMMA InTimeStep ==
  ASSUME TypeOK, [Next]_vars
  PROVE  \/ InTime' = InTime
         \/ /\ CancelRecord
            /\ ~FlagWasRead(handler.mission) /\ handler.mission \notin tooLate'
            /\ InTime' = InTime \cup {handler.mission}
         \/ CancelRecord /\ handler.mission \in tooLate
<1>1. CASE CancelRecord
  <2> DEFINE m == handler.mission
  <2>1. /\ acknowledged' = acknowledged \cup {m}
        /\ tooLate' = IF FlagWasRead(m) /\ m \notin acknowledged
                        THEN tooLate \cup {m} ELSE tooLate
    BY <1>1 DEF CancelRecord
  <2>2. CASE FlagWasRead(m)
    BY <2>1, <2>2 DEF InTime
  <2>3. CASE ~FlagWasRead(m) /\ m \notin tooLate
    BY <1>1, <2>1, <2>3 DEF InTime
  <2> QED
    BY <1>1, <2>2, <2>3
<1>2. CASE UNCHANGED <<acknowledged, tooLate>>
  BY <1>2 DEF InTime
<1>3. CASE Environment /\ UNCHANGED detectionVars
  BY <1>2, <1>3, EnvironmentStep DEF TypeOK, historyVars, detectionVars
<1> QED
  BY <1>1, <1>2, <1>3
     DEF Next, Slot, Start, StartCheck, StartConsume, StartPublish, CloseBegin,
         CloseDrain, CloseDone, Cancelling, Cancel, CancelNothing, CancelSignal, Run,
         Begin, Executing, Collect, Report, ExecutorStops, ExecutorReturns,
         ExecutorRaises, ReadCancelled, Publish, LeaveRun, historyVars, detectionVars,
         vars, slotVars

(* Every step of the coordinator is a step of the lifecycle, or none.       *)
LEMMA LifecycleStep ==
  ASSUME IInv, [Next]_vars
  PROVE  [Lifecycle!Next]_(Lifecycle!lifecycleVars)
<1> USE DEF IInv
<1>1. Gone \in SUBSET Lifecycle!Forgettable
  BY DEF Gone, Lifecycle!Forgettable, Phase, IsSettled, Settled, Lifecycle!Settled
<1>2. ASSUME Quiet, UNCHANGED funded, InTime' = InTime
      PROVE  Lifecycle!Next
  <2>1. Lifecycle!ForgetSettled(Gone)
    BY <1>2, PhaseAfterQuiet DEF Lifecycle!ForgetSettled, InTime
  <2> QED
    BY <1>1, <2>1 DEF Lifecycle!Next
<1>3. CASE CancelRecord
  <2>1. PICK m \in MissionId : m = handler.mission
    BY <1>3 DEF CancelRecord, TypeOK, Handler, StartHandler
  <2>2. UNCHANGED <<missions, funded>>
    BY <1>3 DEF CancelRecord, storeVars
  <2>3. UNCHANGED [n \in MissionId |-> Phase(n)]
    BY <2>2 DEF Phase
  <2>4. m \in active /\ (IsOpen(m) \/ FlagWasRead(m))
    BY <1>3, <2>1
       DEF CancelRecord, SlotInv, HandlerIsCurrent, SlotCoversMission, FlagWasRead
  <2>5. CASE InTime' = InTime
    BY <2>3, <2>5 DEF Lifecycle!lifecycleVars, InTime
  <2>6. CASE InTime' = InTime \cup {m} /\ ~FlagWasRead(m)
    <3>1. Lifecycle!AcknowledgeCancel(m)
      BY <2>3, <2>4, <2>6
         DEF Lifecycle!AcknowledgeCancel, Lifecycle!Open, Phase, IsOpen, Open, InTime
    <3>2. Gone = {} /\ m \in MissionId \ Gone
      BY <2>2 DEF Gone, IsSettled
    <3> QED
      BY <1>1, <3>1, <3>2 DEF Lifecycle!Next
  <2>7. CASE m \in tooLate
    <3>1. FlagWasRead(m)
      BY <2>4, <2>7 DEF VerdictInv
    <3>2. InTime' = InTime
      BY <1>3, <2>1, <2>7, <3>1 DEF CancelRecord, InTime
    <3> QED
      BY <2>5, <3>2
  <2> QED
    BY <1>3, <2>1, <2>5, <2>6, <2>7, InTimeStep
<1>4. CASE ~CancelRecord /\ QuietStep
  BY <1>2, <1>4, QuietStepIsQuiet, InTimeStep
<1>5. ASSUME NEW m \in MissionId, StartPublish(m), UNCHANGED detectionVars
      PROVE  Lifecycle!Next
  <2>1. /\ Publishes(m, "queued") /\ handler.op = "publish"
        /\ funded[m] = 0 /\ UNCHANGED acknowledged
        /\ \A n \in MissionId \ {m} : funded'[n] = funded[n]
    BY <1>5, StartPublishes
  <2>2. m \notin DOMAIN missions /\ \A n \in MissionId : ~IsOpen(n)
    BY <2>1 DEF SlotInv, FreshIsUnknown, HandlerIsCurrent, SlotCoversMission
  <2>3. m \notin Gone /\ Lifecycle!Move(m, "queued", Gone)
    BY <2>1, PhaseAfterPublish
  <2>4. Phase(m) = "absent" /\ \A n \in MissionId : Phase(n) \notin {"queued", "running"}
    BY <2>1, <2>2 DEF Phase, IsOpen, Open
  <2>5. Lifecycle!Accept(m, Gone)
    BY <1>5, <2>1, <2>3, <2>4
       DEF Lifecycle!Accept, Lifecycle!Open, detectionVars
  <2> QED
    BY <1>1, <2>3, <2>5 DEF Lifecycle!Next
<1>6. CASE Begin
  <2>1. PICK m \in MissionId : m = Head(queue)
    BY <1>6, BeginWorker
  <2>2. HasStatus(m, "queued")
    <3>1. queue \in Seq(MissionId) /\ queue # <<>>
      BY <1>6, BeginWorker DEF TypeOK, SlotTypeOK
    <3>2. 1 \in DOMAIN queue /\ queue[1] = m
      BY <2>1, <3>1
    <3> QED
      BY <3>2 DEF SlotInv, StageInv
  <2>3. Publishes(m, "running") /\ UNCHANGED <<historyVars, detectionVars>>
    BY <1>6, <2>1, BeginPublishes
  <2>4. m \notin Gone /\ Lifecycle!Move(m, "running", Gone)
    BY <2>3, PhaseAfterPublish DEF historyVars
  <2>5. Lifecycle!Begin(m, Gone)
    BY <2>2, <2>3, <2>4
       DEF Lifecycle!Begin, Phase, HasStatus, historyVars, detectionVars
  <2> QED
    BY <1>1, <2>4, <2>5 DEF Lifecycle!Next
<1>7. CASE Report
  <2>1. PICK m \in MissionId : m = worker.mission
    BY <1>7, CarriedIs, PutWorker DEF Carried
  <2>2. HasStatus(m, "running")
    BY <1>7, <2>1, PutWorker DEF SlotInv, StageInv, Busy
  <2>3. Publishes(m, "running") /\ UNCHANGED <<historyVars, detectionVars>>
    BY <1>7, <2>1, <2>2, ReportPublishes
  <2>4. m \notin Gone /\ Lifecycle!Move(m, "running", Gone)
    BY <2>3, PhaseAfterPublish DEF historyVars
  <2>5. Phase(m) = "running"
    BY <2>2 DEF Phase, HasStatus
  <2>6. Lifecycle!ForgetSettled(Gone)
    BY <2>3, <2>4, <2>5
       DEF Lifecycle!Move, Lifecycle!ForgetSettled, historyVars, detectionVars
  <2> QED
    BY <1>1, <2>6 DEF Lifecycle!Next
<1>8. CASE Publish
  <2>1. PICK m \in MissionId, s \in Settled : m = worker.mission /\ s = worker.status
    BY <1>8, CarriedIs, PutWorker DEF Carried
  <2>2. HasStatus(m, "running") /\ IsOpen(m) /\ FlagWasRead(m)
    BY <1>8, <2>1, PutWorker
       DEF SlotInv, StageInv, Busy, FlagWasRead, HasStatus, IsOpen, Open
  <2>3. Publishes(m, s) /\ UNCHANGED <<historyVars, detectionVars>>
    BY <1>8, <2>1, OutcomePublishes
  <2>4. m \notin Gone /\ Lifecycle!Move(m, s, Gone)
    BY <2>3, PhaseAfterPublish DEF historyVars
  <2>5. m \in InTime <=> s = "cancelled"
    BY <2>1, <2>2 DEF VerdictInv
  <2>6. Phase(m) = "running"
    BY <2>2 DEF Phase, HasStatus
  <2>7. Lifecycle!Settle(m, s, Gone) /\ s \in Lifecycle!Settled
    BY <2>1, <2>3, <2>4, <2>5, <2>6
       DEF Lifecycle!Settle, Lifecycle!Open, Lifecycle!Settled, Settled, InTime,
           historyVars, detectionVars
  <2> QED
    BY <1>1, <2>4, <2>7 DEF Lifecycle!Next
<1> QED
  BY <1>3, <1>4, <1>5, <1>6, <1>7, <1>8, StepKinds

(* But for cancels that came too late, the detection coordinator implements *)
(* the lifecycle: it accepts one mission at a time, settles it once, and as *)
(* cancelled exactly if a cancel was accepted in time.                      *)
THEOREM DetectionImplementsLifecycle == Spec => ImplementsLifecycle
<1>1. Init => Lifecycle!Init
  BY DEF Init, SlotInit, Store!Init, Lifecycle!Init, Phase
<1>2. IInv /\ [Next]_vars => [Lifecycle!Next]_(Lifecycle!lifecycleVars)
  BY LifecycleStep
<1> QED
  BY <1>1, <1>2, DetectionInductive, PTL DEF Spec, ImplementsLifecycle, Lifecycle!Spec
=============================================================================
