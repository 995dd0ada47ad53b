-------------------- MODULE PcapMissionCoordinatorProofs --------------------
(***************************************************************************)
(* The triage and the reconnaissance coordinator are correct for any       *)
(* number of missions, clients, authorizations and store slots.            *)
(*                                                                         *)
(* The invariants the runs check are not inductive one by one: that the    *)
(* worker finds its mission open rests on nobody else settling or dropping *)
(* it, that a cancel is honoured rests on the flag surviving until the     *)
(* worker looks, and both on which mission a thread holding the lock is    *)
(* working for.  IInv says all of it.                                      *)
(*                                                                         *)
(* The two coordinators only differ in how the worker reads the flags and  *)
(* in what it publishes.  IInv holds of both, so the lemmas are about a    *)
(* step of either; what a published summary means is proved of each.       *)
(***************************************************************************)
EXTENDS PcapReconCoordinator, PcapMissionSlotProofs

EitherNext == Next \/ NextRecon
ReadVerdict == ReadFlags \/ ReadCancelled
Conclude == Finish \/ FinishRecon

Busy == worker.pc \in {"executing", "returned", "raised", "deciding"}
InCancel == handler.op \in {"written", "refused"}

(* A cancel of m was recorded, or is about to be by who holds the lock.     *)
CancelInFlight(m) ==
  m \in cancelRequested \cup cancelFailed \/ (InCancel /\ handler.mission = m)

(* A mission that was never accepted left no trace.                         *)
FreshIsUnknown ==
  \A m \in MissionId :
    funded[m] = 0 => m \notin DOMAIN missions /\ m \notin acknowledged \cup marker

(* Whatever holds the slot is in exactly one place: the queue or the worker.*)
OneCarrier ==
  /\ Len(queue) <= 1
  /\ Busy => queue = <<>> /\ worker.mission \in MissionId
  /\ active # {} => queue # <<>> \/ Busy
  /\ worker.pc = "leaving" =>
       /\ worker.mission \in MissionId
       /\ ~IsOpen(worker.mission) /\ funded[worker.mission] # 0

(* What the handler that holds the lock has checked still holds.            *)
HandlerIsCurrent ==
  /\ handler.op \in {"consume", "publish"} => active = {} /\ closer = "open"
  /\ InCancel => IsOpen(handler.mission)

SlotInv ==
  WorkIsOpen /\ SlotTracksMission /\ FlagsAreLive /\ FreshIsUnknown /\ OneCarrier
    /\ HandlerIsCurrent

(* An accepted cancel stays on the flag until the mission is settled.       *)
AcknowledgedIsFlagged ==
  /\ cancelRequested \subseteq acknowledged
  /\ \A m \in acknowledged : IsOpen(m) => m \in cancelRequested

(* Nothing is cut short, or about to be, without a flag the worker will see.*)
StopIsFlagged ==
  /\ \A m \in marker : IsOpen(m) => CancelInFlight(m)
  /\ worker.pc \in {"idle", "executing"} => worker.summary = "none"
  /\ Busy /\ worker.summary = "stopped" => CancelInFlight(worker.mission)

(* The worker decides for "cancelled" only when it saw the accepted cancel. *)
VerdictIsSound ==
  worker.pc = "deciding" /\ worker.status = "cancelled" =>
    worker.mission \in cancelRequested

CancelInv ==
  AcknowledgedIsFlagged /\ CancelHonoured /\ StopIsFlagged /\ VerdictIsSound

(* close() only ends when the slot is free.                                 *)
CloseInv ==
  /\ closer = "cancelling" => \A m \in closing : active \subseteq {m}
  /\ closer \in {"stopped", "failed"} => active = {}

HasStatus(m, s) == m \in DOMAIN missions /\ missions[m].body.status = s

(* What is in the queue has not begun, what the worker executes has.        *)
StageInv ==
  /\ \A i \in DOMAIN queue : HasStatus(queue[i], "queued")
  /\ Busy => HasStatus(worker.mission, "running")

IInv ==
  TypeOK /\ SlotInv /\ StageInv /\ CancelInv /\ CloseInv /\ TokenInv /\ RoomInv

(* Triage reads "completed" off a whole batch only.                         *)
WholeInv ==
  /\ CompletedIsWhole
  /\ worker.pc = "returned" => worker.summary \in {"clean", "failures", "stopped"}
  /\ worker.pc = "deciding" /\ worker.status = "completed" =>
       worker.summary = "clean"
-----------------------------------------------------------------------------
(* Any status and any summary make a body.                                  *)
LEMMA WorkerStatusInBody ==
  ASSUME NEW s \in Status, NEW u \in Summary
  PROVE  [status |-> s, summary |-> u] \in Body
BY DEF Body

(* The types hold at first, and every step of every thread keeps them.      *)
LEMMA TypeInit == Init => TypeOK
<1> SUFFICES ASSUME Init PROVE TypeOK
  OBVIOUS
<1> USE CoordinatorAssumption DEF Init, SlotInit
<1>1. Auth!AuthTypeOK
  BY DEF Auth!Init, Auth!AuthTypeOK, Auth!Token, Auth!Entry
<1>2. Store!StoreTypeOK
  BY DEF Store!Init, Store!StoreTypeOK, Auth!Init
<1> QED
  BY <1>1, <1>2
     DEF TypeOK, SlotTypeOK, CloserPc, Worker, WorkerPc, IdleWorker, Summary,
         Handler, StartHandler, Free

(* Every step of every thread keeps the types.                              *)
LEMMA TypeStep == TypeOK /\ [EitherNext]_vars => TypeOK'
<1> SUFFICES ASSUME TypeOK, [EitherNext]_vars PROVE TypeOK'
  OBVIOUS
<1> USE DEF TypeOK
<1>1. CASE Environment /\ UNCHANGED cancelVars
  BY <1>1, EnvironmentStep DEF cancelVars, workVars
<1>2. ASSUME NEW t \in 1..MaxIssued, StartCheck(t), UNCHANGED cancelVars
      PROVE  TypeOK'
  BY <1>2, StartCheckStep DEF cancelVars, workVars, Handler, StartHandler
<1>3. CASE StartConsume /\ UNCHANGED cancelVars
  <2>1. handler \in StartHandler
    BY <1>3 DEF StartConsume, Handler, StartHandler
  <2> QED
    BY <1>3, <2>1, StartConsumeStep DEF cancelVars, workVars, Handler, StartHandler, Free
<1>4. ASSUME NEW m \in MissionId, StartPublish(m), UNCHANGED cancelVars
      PROVE  TypeOK'
  <2>1. handler \in StartHandler
    BY <1>4 DEF StartPublish, Handler, StartHandler
  <2> QED
    BY <1>4, <2>1, StartPublishStep DEF cancelVars, Handler, StartHandler, Free
<1>5. CASE (CloseBegin \/ CloseDrain \/ CloseDone) /\ UNCHANGED cancelVars
  BY <1>5, CloseStep DEF cancelVars, workVars
<1>6. ASSUME NEW m \in MissionId, NEW byClose \in BOOLEAN, CancelUnknown(m, byClose)
      PROVE  TypeOK'
  <2>1. Store!StoreTypeOK'
    BY <1>6, OwnPurge DEF CancelUnknown
  <2> QED
    BY <1>6, <2>1
       DEF CancelUnknown, cancelVars, authVars, workVars, historyVars, SlotTypeOK,
           Auth!AuthTypeOK, CloserPc
<1>7. ASSUME NEW m \in MissionId, NEW byClose \in BOOLEAN, CancelSettled(m, byClose)
      PROVE  TypeOK'
  <2>1. Store!StoreTypeOK'
    BY <1>7, OwnPurge DEF CancelSettled
  <2> QED
    BY <1>7, <2>1
       DEF CancelSettled, cancelVars, authVars, historyVars, SlotTypeOK, Auth!AuthTypeOK
<1>8. ASSUME NEW m \in MissionId, NEW byClose \in BOOLEAN, CancelSignal(m, byClose)
      PROVE  TypeOK'
  <2>1. Store!StoreTypeOK'
    BY <1>8, OwnPurge DEF CancelSignal
  <2>2. handler' \in Handler /\ marker' \subseteq MissionId
    BY <1>8 DEF CancelSignal, Handler
  <2> QED
    BY <1>8, <2>1, <2>2
       DEF CancelSignal, authVars, workVars, closeVars, historyVars, SlotTypeOK,
           Auth!AuthTypeOK
<1>9. CASE CancelRecord
  <2>1. handler.mission \in MissionId
    BY <1>9 DEF CancelRecord, Handler, StartHandler
  <2> QED
    BY <1>9, <2>1
       DEF CancelRecord, authVars, storeVars, SlotTypeOK, Auth!AuthTypeOK,
           Store!StoreTypeOK, Handler, StartHandler, Free
<1>10. CASE Begin
  <2> DEFINE m == Head(queue)
  <2>1. m \in MissionId /\ queue' \in Seq(MissionId)
    BY <1>10 DEF Begin, SlotTypeOK
  <2>2. Store!StoreTypeOK'
    <3>1. PICK s \in Status : Store!Put(m, [status |-> s, summary |-> "none"])
      BY <1>10 DEF Begin, Status, Open, Settled
    <3>2. [status |-> s, summary |-> "none"] \in Body
      BY DEF Body, Summary
    <3>3. UNCHANGED clock
      BY <1>10 DEF Begin
    <3> QED
      BY <2>1, <3>1, <3>2, <3>3, OwnPut
  <2>3. worker' \in Worker /\ worker'.pc \in {"executing", "leaving"}
    BY <1>10, <2>1 DEF Begin, Worker, WorkerPc, Leave, Summary
  <2> QED
    BY <1>10, <2>1, <2>2, <2>3
       DEF Begin, Discard, authVars, closeVars, historyVars, SlotTypeOK, Auth!AuthTypeOK
<1>11. CASE ExecutorStops
  BY <1>11
     DEF ExecutorStops, authVars, storeVars, closeVars, historyVars, SlotTypeOK,
         Auth!AuthTypeOK, Store!StoreTypeOK, Worker, WorkerPc, Summary
<1>12. CASE ExecutorReturns
  BY <1>12
     DEF ExecutorReturns, cancelVars, authVars, storeVars, closeVars, historyVars,
         SlotTypeOK, Auth!AuthTypeOK, Store!StoreTypeOK, Worker, WorkerPc, Summary
<1>13. CASE ReadVerdict
  <2>1. /\ worker' \in Worker
        /\ worker'.pc = "deciding" /\ worker'.status \in Settled
    BY <1>13
       DEF ReadVerdict, ReadFlags, ReadCancelled, Worker, WorkerPc, Status, Settled
  <2> QED
    BY <1>13, <2>1
       DEF ReadVerdict, ReadFlags, ReadCancelled, cancelVars, authVars, storeVars,
           closeVars, historyVars, SlotTypeOK, Auth!AuthTypeOK, Store!StoreTypeOK
<1>14. CASE Conclude
  <2> DEFINE m == worker.mission
  <2>1. worker.status \in Settled /\ worker.summary \in Summary
    BY <1>14 DEF Conclude, Finish, FinishRecon, Worker
  <2>2. FinalStatus(m, worker.status) \in Status
    BY <2>1 DEF FinalStatus, Status, Settled
  <2>3. PICK u \in Summary :
          Store!Put(m, [status |-> FinalStatus(m, worker.status), summary |-> u])
    BY <1>14, <2>1 DEF Conclude, Finish, FinishRecon, PublishedSummary, Summary
  <2>4. m \in MissionId
    BY <1>14, CoordinatorAssumption
       DEF Conclude, Finish, FinishRecon, Store!Found, Store!Live, Worker, SlotTypeOK,
           Store!StoreTypeOK
  <2>5. Store!StoreTypeOK'
    BY <1>14, <2>2, <2>3, <2>4, OwnPut, WorkerStatusInBody
       DEF Conclude, Finish, FinishRecon
  <2>6. worker' \in Worker /\ worker'.pc = "leaving"
    BY <1>14, <2>4
       DEF Conclude, Finish, FinishRecon, Leave, Worker, WorkerPc, Summary
  <2> QED
    BY <1>14, <2>5, <2>6
       DEF Conclude, Finish, FinishRecon, Discard, authVars, closeVars, historyVars,
           SlotTypeOK, Auth!AuthTypeOK
<1>15. CASE LeaveRun
  BY <1>15
     DEF LeaveRun, cancelVars, authVars, storeVars, closeVars, historyVars,
         SlotTypeOK, Auth!AuthTypeOK, Store!StoreTypeOK, Worker, WorkerPc, Summary,
         IdleWorker
<1>16. CASE UNCHANGED vars
  BY <1>16
     DEF vars, slotVars, cancelVars, authVars, storeVars, workVars, closeVars,
         historyVars, SlotTypeOK, Auth!AuthTypeOK, Store!StoreTypeOK
<1> QED
  BY <1>1, <1>2, <1>3, <1>4, <1>5, <1>6, <1>7, <1>8, <1>9, <1>10, <1>11, <1>12,
     <1>13, <1>14, <1>15, <1>16
     DEF EitherNext, Next, NextRecon, Slot, Start, Cancelling, Cancel, Run, RunRecon,
         ReadVerdict, Conclude

(* Type correctness: every variable, of the coordinator and of the two      *)
(* stores, keeps its type, whatever the threads do.                         *)
THEOREM TypeCorrect == Spec => []TypeOK
<1>1. Init => TypeOK
  BY TypeInit
<1>2. TypeOK /\ [Next]_vars => TypeOK'
  BY TypeStep DEF EitherNext
<1> QED
  BY <1>1, <1>2, PTL DEF Spec
-----------------------------------------------------------------------------
(* Every step but three leaves the missions of this coordinator as they     *)
(* are, or forgets settled ones.                                            *)
Quiet ==
  \A n \in MissionId :
    /\ IsOpen(n)' <=> IsOpen(n)
    /\ IsSettled(n)' => IsSettled(n) /\ missions'[n] = missions[n]
    /\ n \in DOMAIN missions' => n \in DOMAIN missions /\ missions'[n] = missions[n]

(* All steps but three leave the missions alone or forget settled ones.     *)
LEMMA QuietStep ==
  ASSUME TypeOK,
         \/ Environment
         \/ \E t \in 1..MaxIssued : StartCheck(t)
         \/ StartConsume
         \/ CloseBegin \/ CloseDrain \/ CloseDone
         \/ \E m \in MissionId, byClose \in BOOLEAN : Cancel(m, byClose)
         \/ CancelRecord \/ ExecutorStops \/ ExecutorReturns \/ ReadVerdict \/ LeaveRun
         \/ UNCHANGED vars
  PROVE  Quiet
<1>1. CASE Environment
  BY <1>1, EnvironmentStep, ForgetsStatus, CoordinatorAssumption
     DEF TypeOK, Forgets, Quiet, StoredId
<1>2. CASE \E m \in MissionId, byClose \in BOOLEAN : Cancel(m, byClose)
  <2>1. Store!Purge /\ UNCHANGED clock
    BY <1>2 DEF Cancel, CancelUnknown, CancelSettled, CancelSignal
  <2> QED
    BY <2>1, OwnPurge, ForgetsStatus, CoordinatorAssumption
       DEF TypeOK, Forgets, Quiet, StoredId
<1>3. CASE UNCHANGED missions
  BY <1>3 DEF Quiet, IsOpen, IsSettled
<1> QED
  BY <1>1, <1>2, <1>3
     DEF StartCheck, StartConsume, CloseBegin, CloseDrain, CloseDone, CancelRecord,
         ExecutorStops, ExecutorReturns, ReadVerdict, ReadFlags, ReadCancelled, LeaveRun,
         storeVars, vars, slotVars

(* The three steps that publish a status of mission m.                      *)
LEMMA BeginEffect ==
  ASSUME TypeOK, SlotInv, Begin
  PROVE  LET m == Head(queue) IN
         /\ LockFree /\ worker.pc = "idle" /\ queue # <<>> /\ queue' = Tail(queue)
         /\ m \in MissionId /\ IsOpen(m) /\ ForgetsBut(m) /\ m \in DOMAIN missions'
         /\ UNCHANGED <<handler, closeVars, historyVars, marker>>
         /\ \/ /\ m \notin cancelFailed
               /\ missions'[m].body = [status |-> "running", summary |-> "none"]
               /\ worker'.pc = "executing" /\ worker'.mission = m
               /\ worker'.summary = worker.summary
               /\ UNCHANGED <<active, cancelRequested, cancelFailed>>
            \/ /\ m \in cancelFailed
               /\ missions'[m].body =
                    [status |-> IF m \in cancelRequested THEN "cancelled"
                                                         ELSE "degraded",
                     summary |-> "none"]
               /\ worker'.pc = "leaving" /\ worker'.mission = m
               /\ Discard(m)
<1> DEFINE m == Head(queue)
<1>1. m \in MissionId /\ queue # <<>>
  BY DEF TypeOK, SlotTypeOK, Begin
<1>2. CASE m \notin cancelFailed
  <2> DEFINE b == [status |-> "running", summary |-> "none"]
  <2>1. b \in Body /\ Store!Put(m, b) /\ UNCHANGED clock
    BY <1>2 DEF Begin, Body, Status, Open, Summary
  <2>2. ForgetsBut(m) /\ m \in DOMAIN missions' /\ missions'[m].body = b
    BY <1>1, <2>1, OwnPut DEF TypeOK
  <2> QED
    BY <1>1, <1>2, <2>2 DEF Begin, TypeOK, Worker
<1>3. CASE m \in cancelFailed
  <2> DEFINE b == [status |-> IF m \in cancelRequested THEN "cancelled"
                                                       ELSE "degraded",
                   summary |-> "none"]
  <2>1. b \in Body /\ Store!Put(m, b) /\ UNCHANGED clock
    BY <1>3 DEF Begin, Body, Status, Settled, Summary
  <2>2. ForgetsBut(m) /\ m \in DOMAIN missions' /\ missions'[m].body = b
    BY <1>1, <2>1, OwnPut DEF TypeOK
  <2> QED
    BY <1>1, <1>3, <2>2 DEF Begin, TypeOK, Worker, Leave
<1> QED
  BY <1>2, <1>3

(* _finish settles its mission and frees the slot.                          *)
LEMMA ConcludeEffect ==
  ASSUME TypeOK, Conclude
  PROVE  LET m == worker.mission IN
         /\ LockFree /\ worker.pc = "deciding" /\ m \in MissionId /\ IsOpen(m)
         /\ ForgetsBut(m) /\ m \in DOMAIN missions'
         /\ missions'[m].body.status = FinalStatus(m, worker.status)
         /\ Finish => missions'[m].body.summary = worker.summary
         /\ FinishRecon => missions'[m].body.summary = PublishedSummary(m)
         /\ FinalStatus(m, worker.status) \in Settled
         /\ worker'.pc = "leaving" /\ worker'.mission = m
         /\ Discard(m)
         /\ UNCHANGED <<queue, handler, closeVars, historyVars, marker>>
<1> DEFINE m == worker.mission
           s == FinalStatus(m, worker.status)
<1>1. worker.status \in Settled /\ worker.summary \in Summary
  BY DEF Conclude, Finish, FinishRecon, TypeOK, Worker
<1>2. s \in Settled
  BY <1>1 DEF FinalStatus, Settled
<1>3. m \in MissionId
  BY CoordinatorAssumption
     DEF Conclude, Finish, FinishRecon, Store!Found, Store!Live, TypeOK, Worker,
         SlotTypeOK, Store!StoreTypeOK
<1>4. ASSUME NEW u \in Summary, Store!Put(m, [status |-> s, summary |-> u])
      PROVE  /\ ForgetsBut(m) /\ m \in DOMAIN missions'
             /\ missions'[m].body = [status |-> s, summary |-> u]
  <2>1. [status |-> s, summary |-> u] \in Body
    BY <1>2 DEF Body, Status
  <2> QED
    BY <1>3, <1>4, <2>1, OwnPut DEF Conclude, Finish, FinishRecon, TypeOK
<1>5. ASSUME Finish
      PROVE  /\ ForgetsBut(m) /\ m \in DOMAIN missions'
             /\ missions'[m].body = [status |-> s, summary |-> worker.summary]
  BY <1>1, <1>4, <1>5 DEF Finish
<1>6. ASSUME FinishRecon
      PROVE  /\ ForgetsBut(m) /\ m \in DOMAIN missions'
             /\ missions'[m].body = [status |-> s, summary |-> PublishedSummary(m)]
  <2>1. PublishedSummary(m) \in Summary
    BY <1>1 DEF PublishedSummary, Summary
  <2> QED
    BY <1>4, <1>6, <2>1 DEF FinishRecon
<1>7. /\ LockFree /\ worker.pc = "deciding" /\ IsOpen(m)
      /\ worker'.pc = "leaving" /\ worker'.mission = m
      /\ Discard(m)
      /\ UNCHANGED <<queue, handler, closeVars, historyVars, marker>>
  BY DEF Conclude, Finish, FinishRecon, Leave, TypeOK, Worker
<1> QED
  BY <1>2, <1>3, <1>5, <1>6, <1>7 DEF Conclude
-----------------------------------------------------------------------------
(* Every step keeps the slot in agreement with the store.                   *)
LEMMA SlotStep == TypeOK /\ SlotInv /\ [EitherNext]_vars => SlotInv'
<1> SUFFICES ASSUME TypeOK, SlotInv, [EitherNext]_vars PROVE SlotInv'
  OBVIOUS
<1> USE DEF SlotInv
<1>0. TypeOK'
  BY TypeStep
(* Steps that leave the missions, the queue, the worker and the flags alone.*)
<1>1. ASSUME Quiet, UNCHANGED <<workVars, handler, closer, historyVars, cancelVars>>
      PROVE  SlotInv'
  <2>1. queue \in Seq(MissionId)
    BY DEF TypeOK, SlotTypeOK
  <2> QED
    BY <1>1, <2>1
       DEF Quiet, workVars, historyVars, cancelVars, WorkIsOpen, SlotTracksMission,
           FlagsAreLive, FreshIsUnknown, OneCarrier, HandlerIsCurrent, Busy, InCancel,
           TypeOK, Handler, StartHandler, Worker
<1>2. CASE Environment /\ UNCHANGED cancelVars
  BY <1>1, <1>2, QuietStep, EnvironmentStep DEF TypeOK, closeVars
<1>3. CASE UNCHANGED vars
  BY <1>1, <1>3, QuietStep DEF vars, slotVars, closeVars
<1>4. ASSUME NEW t \in 1..MaxIssued, StartCheck(t), UNCHANGED cancelVars
      PROVE  SlotInv'
  <2>1. Quiet
    BY <1>4, QuietStep
  <2>2. /\ active = {} /\ closer = "open"
        /\ handler' = [op |-> "consume", token |-> t]
        /\ UNCHANGED <<workVars, closeVars, historyVars>>
    BY <1>4, StartCheckStep DEF TypeOK
  <2> QED
    BY <1>4, <2>1, <2>2
       DEF Quiet, workVars, closeVars, historyVars, cancelVars, WorkIsOpen, SlotTracksMission, FlagsAreLive, FreshIsUnknown, OneCarrier,
           HandlerIsCurrent, Busy, InCancel,
           TypeOK, SlotTypeOK, Worker
<1>5. CASE StartConsume /\ UNCHANGED cancelVars
  <2>1. Quiet
    BY <1>5, QuietStep
  <2>2. /\ handler.op = "consume"
        /\ handler'.op \in {"publish", "free"}
        /\ UNCHANGED <<workVars, closeVars, historyVars>>
    <3>1. handler \in StartHandler
      BY <1>5 DEF StartConsume, TypeOK, Handler, StartHandler
    <3> QED
      BY <1>5, <3>1, StartConsumeStep DEF TypeOK, Free
  <2> QED
    BY <1>5, <2>1, <2>2
       DEF Quiet, workVars, closeVars, historyVars, cancelVars, WorkIsOpen, SlotTracksMission, FlagsAreLive, FreshIsUnknown, OneCarrier,
           HandlerIsCurrent, Busy, InCancel,
           TypeOK, SlotTypeOK, Worker
<1>6. ASSUME NEW m \in MissionId, StartPublish(m), UNCHANGED cancelVars
      PROVE  SlotInv'
  <2>1. handler \in StartHandler
    BY <1>6 DEF StartPublish, TypeOK, Handler, StartHandler
  <2>2. /\ handler.op = "publish" /\ handler' = Free
        /\ funded[m] = 0 /\ funded'[m] # 0
        /\ \A n \in MissionId \ {m} : funded'[n] = funded[n]
        /\ active' = active \cup {m} /\ queue' = Append(queue, m)
        /\ UNCHANGED <<cancelRequested, worker, closer, acknowledged, cancelVars>>
    BY <1>6, <2>1, StartPublishStep DEF TypeOK, closeVars
  <2>3. \A n \in MissionId :
          /\ IsOpen(n)' <=> IsOpen(n) \/ n = m
          /\ n # m => (n \in DOMAIN missions' => n \in DOMAIN missions)
    <3>1. \A n \in MissionId \ {m} :
            /\ IsOpen(n)' <=> IsOpen(n)
            /\ n \in DOMAIN missions' => n \in DOMAIN missions
      BY <1>6, <2>1, StartPublishStep, ForgetsStatus DEF TypeOK
    <3>2. m \in DOMAIN missions' /\ missions'[m].body.status \in Open
      BY <1>6, <2>1, StartPublishStep DEF TypeOK, Open
    <3> QED
      BY <3>1, <3>2 DEF IsOpen
  <2>4. active = {}
    BY <2>2 DEF HandlerIsCurrent
  <2>5. queue = <<>> /\ ~Busy
    BY <2>4 DEF TypeOK, SlotTypeOK, WorkIsOpen, SlotTracksMission, OneCarrier, Busy
  <2>6. queue' = <<m>>
    BY <2>2, <2>5
  <2>7. WorkIsOpen'
    BY <2>2, <2>3, <2>5, <2>6 DEF WorkIsOpen, Busy
  <2>8. SlotTracksMission' /\ FlagsAreLive'
    BY <2>2, <2>3, <2>4 DEF SlotTracksMission, FlagsAreLive, cancelVars
  <2>9. FreshIsUnknown'
    BY <2>2, <2>3 DEF FreshIsUnknown, cancelVars
  <2>10. OneCarrier'
    <3>1. worker.pc = "leaving" => funded'[worker.mission] # 0 /\ worker.mission # m
      BY <2>2 DEF OneCarrier
    <3> QED
      BY <2>2, <2>3, <2>5, <2>6, <3>1 DEF OneCarrier, Busy
  <2> QED
    BY <2>2, <2>7, <2>8, <2>9, <2>10 DEF HandlerIsCurrent, InCancel, Free
<1>7. CASE (CloseBegin \/ CloseDrain \/ CloseDone) /\ UNCHANGED cancelVars
  <2>1. Quiet /\ UNCHANGED <<workVars, handler, historyVars>>
    BY <1>7, QuietStep, CloseStep DEF TypeOK
  <2>2. handler.op \in {"consume", "publish"} => UNCHANGED closer
    BY <1>7
       DEF CloseBegin, CloseDrain, CloseDone, LockFree, Free, HandlerIsCurrent
  <2> QED
    BY <1>7, <2>1, <2>2
       DEF Quiet, workVars, historyVars, cancelVars, WorkIsOpen, SlotTracksMission, FlagsAreLive, FreshIsUnknown, OneCarrier,
           HandlerIsCurrent, Busy, InCancel,
           TypeOK, SlotTypeOK, Worker, Handler, StartHandler
<1>8. ASSUME NEW m \in MissionId, NEW byClose \in BOOLEAN, CancelUnknown(m, byClose)
      PROVE  SlotInv'
  <2>1. Quiet
    BY <1>8, QuietStep DEF Cancel
  <2> QED
    BY <1>8, <2>1
       DEF CancelUnknown, LockFree, Free, Quiet, workVars, historyVars, cancelVars,
           WorkIsOpen, SlotTracksMission, FlagsAreLive, FreshIsUnknown, OneCarrier,
           HandlerIsCurrent, Busy, InCancel,
           TypeOK, SlotTypeOK, Worker
<1>9. ASSUME NEW m \in MissionId, NEW byClose \in BOOLEAN, CancelSettled(m, byClose)
      PROVE  SlotInv'
  <2>1. Quiet
    BY <1>9, QuietStep DEF Cancel
  <2>2. m \notin active
    BY <1>9 DEF CancelSettled, SlotTracksMission, IsOpen, IsSettled, Open, Settled
  <2>3. active' = active
    BY <1>9, <2>2 DEF CancelSettled
  <2> QED
    BY <1>9, <2>1, <2>3
       DEF CancelSettled, LockFree, Free, Quiet, historyVars, cancelVars,
           WorkIsOpen, SlotTracksMission, FlagsAreLive, FreshIsUnknown, OneCarrier,
           HandlerIsCurrent, Busy, InCancel,
           TypeOK, SlotTypeOK, Worker
<1>10. ASSUME NEW m \in MissionId, NEW byClose \in BOOLEAN, CancelSignal(m, byClose)
       PROVE  SlotInv'
  <2>1. Quiet
    BY <1>10, QuietStep DEF Cancel
  <2>2. /\ handler'.op \in {"written", "refused"} /\ handler'.mission = m
        /\ marker' \subseteq marker \cup {m}
        /\ IsOpen(m)
    BY <1>10 DEF CancelSignal
  <2>3. FreshIsUnknown'
    BY <1>10, <2>1, <2>2
       DEF FreshIsUnknown, CancelSignal, historyVars, Quiet, IsOpen
  <2> QED
    BY <1>10, <2>1, <2>2, <2>3
       DEF CancelSignal, Quiet, workVars, closeVars, historyVars,
           WorkIsOpen, SlotTracksMission, FlagsAreLive, FreshIsUnknown, OneCarrier,
           HandlerIsCurrent, Busy, InCancel,
           TypeOK, SlotTypeOK, Worker
<1>11. CASE CancelRecord
  <2>1. Quiet
    BY <1>11, QuietStep
  <2>2. IsOpen(handler.mission) /\ handler.mission \in MissionId
    BY <1>11 DEF CancelRecord, HandlerIsCurrent, InCancel, TypeOK, Handler, StartHandler
  <2>3. FlagsAreLive'
    BY <1>11, <2>2 DEF CancelRecord, FlagsAreLive, SlotTracksMission
  <2>4. FreshIsUnknown'
    BY <1>11, <2>1, <2>2 DEF CancelRecord, FreshIsUnknown, Quiet, IsOpen
  <2> QED
    BY <1>11, <2>1, <2>3, <2>4
       DEF CancelRecord, Free, Quiet, WorkIsOpen, SlotTracksMission, OneCarrier,
           HandlerIsCurrent, Busy, InCancel, TypeOK, SlotTypeOK, Worker
<1>12. CASE Begin
  <2>1. PICK m \in MissionId : m = Head(queue)
    BY <1>12, BeginEffect
  <2>2. /\ LockFree /\ worker.pc = "idle" /\ queue # <<>> /\ queue' = Tail(queue)
        /\ m \in active /\ m \in DOMAIN missions
        /\ UNCHANGED <<handler, closeVars, historyVars, marker>>
    BY <1>12, <2>1, BeginEffect DEF SlotTracksMission, IsOpen
  <2>3. \A n \in MissionId \ {m} :
          /\ IsOpen(n)' <=> IsOpen(n)
          /\ n \in DOMAIN missions' => n \in DOMAIN missions
    BY <1>12, <2>1, BeginEffect, ForgetsStatus
  <2>4. queue' = <<>>
    BY <2>2 DEF OneCarrier, TypeOK, SlotTypeOK
  <2>5. FreshIsUnknown' /\ funded[m] # 0
    BY <2>2, <2>3 DEF FreshIsUnknown, historyVars
  <2>6. HandlerIsCurrent'
    BY <2>2 DEF HandlerIsCurrent, InCancel, LockFree, Free
  <2>7. CASE m \notin cancelFailed
    <3>1. /\ worker'.pc = "executing" /\ worker'.mission = m
          /\ UNCHANGED <<active, cancelRequested, cancelFailed>>
          /\ m \in DOMAIN missions' /\ missions'[m].body.status \in Open
      BY <1>12, <2>1, <2>7, BeginEffect DEF Open
    <3>2. \A n \in MissionId : IsOpen(n)' <=> IsOpen(n)
      BY <2>2, <2>3, <3>1 DEF IsOpen, SlotTracksMission
    <3> QED
      BY <2>1, <2>2, <2>4, <2>5, <2>6, <3>1, <3>2
         DEF WorkIsOpen, SlotTracksMission, FlagsAreLive, OneCarrier, Busy
  <2>8. CASE m \in cancelFailed
    <3>1. /\ worker'.pc = "leaving" /\ worker'.mission = m
          /\ Discard(m)
          /\ missions'[m].body.status \notin Open
      BY <1>12, <2>1, <2>8, BeginEffect DEF Open
    <3>2. \A n \in MissionId : IsOpen(n)' <=> IsOpen(n) /\ n # m
      BY <2>3, <3>1 DEF IsOpen
    <3>3. active' = {}
      BY <2>2, <3>1 DEF SlotTracksMission, Discard
    <3> QED
      BY <2>1, <2>2, <2>4, <2>5, <2>6, <3>1, <3>2, <3>3
         DEF WorkIsOpen, SlotTracksMission, FlagsAreLive, OneCarrier, Busy, Discard,
             historyVars
  <2> QED
    BY <2>7, <2>8
<1>13. CASE ExecutorStops \/ ExecutorReturns \/ ReadVerdict
  <2>1. Quiet
    BY <1>13, QuietStep
  <2>2. /\ Busy /\ Busy' /\ worker'.mission = worker.mission
        /\ marker' \subseteq marker
        /\ UNCHANGED <<active, cancelRequested, queue, handler, closer, historyVars,
                       cancelFailed>>
    BY <1>13
       DEF ExecutorStops, ExecutorReturns, ReadVerdict, ReadFlags, ReadCancelled,
           closeVars, cancelVars, Busy, TypeOK, Worker
  <2> QED
    BY <2>1, <2>2
       DEF Quiet, historyVars, WorkIsOpen, SlotTracksMission, FlagsAreLive,
           FreshIsUnknown, OneCarrier, HandlerIsCurrent, Busy, InCancel, TypeOK,
           SlotTypeOK, Worker, Handler, StartHandler
<1>14. CASE Conclude
  <2>1. PICK m \in MissionId : m = worker.mission
    BY <1>14, ConcludeEffect
  <2>2. /\ LockFree /\ worker.pc = "deciding"
        /\ m \in active /\ m \in DOMAIN missions
        /\ worker'.pc = "leaving" /\ worker'.mission = m
        /\ Discard(m)
        /\ UNCHANGED <<queue, handler, closeVars, historyVars, marker>>
        /\ missions'[m].body.status \notin Open
    BY <1>14, <2>1, ConcludeEffect DEF SlotTracksMission, IsOpen, Open, Settled
  <2>3. \A n \in MissionId \ {m} :
          /\ IsOpen(n)' <=> IsOpen(n)
          /\ n \in DOMAIN missions' => n \in DOMAIN missions
    BY <1>14, <2>1, ConcludeEffect, ForgetsStatus
  <2>4. \A n \in MissionId : IsOpen(n)' <=> IsOpen(n) /\ n # m
    BY <2>2, <2>3 DEF IsOpen
  <2>5. FreshIsUnknown' /\ funded[m] # 0
    BY <2>2, <2>3 DEF FreshIsUnknown, historyVars
  <2>6. active' = {} /\ queue = <<>>
    BY <2>2 DEF SlotTracksMission, Discard, OneCarrier, Busy
  <2> QED
    BY <2>1, <2>2, <2>4, <2>5, <2>6
       DEF WorkIsOpen, SlotTracksMission, FlagsAreLive, OneCarrier, Busy, Discard,
           HandlerIsCurrent, InCancel, LockFree, Free, historyVars
<1>15. CASE LeaveRun
  <2>1. Quiet
    BY <1>15, QuietStep
  <2>2. worker.mission \notin active
    BY <1>15 DEF LeaveRun, OneCarrier, SlotTracksMission
  <2>3. /\ worker' = IdleWorker /\ worker.pc = "leaving"
        /\ UNCHANGED <<active, cancelRequested, queue, handler, closer, historyVars,
                       cancelVars>>
    BY <1>15, <2>2 DEF LeaveRun, closeVars
  <2> QED
    BY <2>1, <2>3
       DEF Quiet, historyVars, cancelVars, WorkIsOpen, SlotTracksMission, FlagsAreLive, FreshIsUnknown, OneCarrier,
           HandlerIsCurrent, Busy, InCancel,
           TypeOK, SlotTypeOK, IdleWorker, Handler, StartHandler
<1> QED
  BY <1>2, <1>3, <1>4, <1>5, <1>6, <1>7, <1>8, <1>9, <1>10, <1>11, <1>12, <1>13,
     <1>14, <1>15
     DEF EitherNext, Next, NextRecon, Slot, Start, Cancelling, Cancel, Run, RunRecon,
         ReadVerdict, Conclude
-----------------------------------------------------------------------------
(* Every step keeps the cancel flags in agreement with the store.           *)
LEMMA CancelStep == TypeOK /\ SlotInv /\ CancelInv /\ [EitherNext]_vars => CancelInv'
<1> SUFFICES ASSUME TypeOK, SlotInv, CancelInv, [EitherNext]_vars PROVE CancelInv'
  OBVIOUS
<1> USE DEF CancelInv
<1>0. TypeOK'
  BY TypeStep
(* Steps that leave the flags, the marker and the worker alone, and what a  *)
(* handler that is cancelling is doing.                                     *)
<1>1. ASSUME Quiet, UNCHANGED <<acknowledged, cancelRequested, worker, cancelVars>>,
             InCancel => UNCHANGED handler
      PROVE  CancelInv'
  <2>1. \A n \in MissionId : CancelInFlight(n) => CancelInFlight(n)'
    BY <1>1 DEF CancelInFlight, InCancel, cancelVars
  <2>2. AcknowledgedIsFlagged' /\ CancelHonoured'
    BY <1>1
       DEF Quiet, AcknowledgedIsFlagged, CancelHonoured, TypeOK,
           SlotTypeOK
  <2>3. StopIsFlagged' /\ VerdictIsSound'
    BY <1>1, <2>1
       DEF Quiet, StopIsFlagged, VerdictIsSound, cancelVars, TypeOK, SlotInv,
           OneCarrier, Busy
  <2> QED
    BY <2>2, <2>3
<1>2. CASE Environment /\ UNCHANGED cancelVars
  BY <1>1, <1>2, QuietStep, EnvironmentStep DEF TypeOK, workVars, historyVars
<1>3. CASE UNCHANGED vars
  BY <1>1, <1>3, QuietStep DEF vars, slotVars, workVars, historyVars
<1>4. ASSUME NEW t \in 1..MaxIssued, StartCheck(t), UNCHANGED cancelVars
      PROVE  CancelInv'
  BY <1>1, <1>4, QuietStep DEF StartCheck, LockFree, Free, InCancel, workVars, historyVars
<1>5. CASE StartConsume /\ UNCHANGED cancelVars
  BY <1>1, <1>5, QuietStep DEF StartConsume, InCancel, workVars, historyVars
<1>6. ASSUME NEW m \in MissionId, StartPublish(m), UNCHANGED cancelVars
      PROVE  CancelInv'
  <2>1. handler \in StartHandler
    BY <1>6 DEF StartPublish, TypeOK, Handler, StartHandler
  <2>2. /\ ~InCancel /\ funded[m] = 0
        /\ UNCHANGED <<acknowledged, cancelRequested, worker, cancelVars>>
        /\ m \in DOMAIN missions' /\ missions'[m].body.status = "queued"
    BY <1>6, <2>1, StartPublishStep DEF TypeOK, InCancel
  <2>3. \A n \in MissionId \ {m} :
          /\ IsOpen(n)' <=> IsOpen(n)
          /\ IsSettled(n)' => IsSettled(n)
          /\ n \in DOMAIN missions' => missions'[n] = missions[n]
    BY <1>6, <2>1, StartPublishStep, ForgetsStatus DEF TypeOK
  <2>4. \A n \in MissionId :
          /\ IsOpen(n)' <=> IsOpen(n) \/ n = m
          /\ IsSettled(n)' => n # m /\ IsSettled(n) /\ missions'[n] = missions[n]
    BY <2>2, <2>3 DEF IsOpen, IsSettled, Open, Settled
  <2>5. m \notin acknowledged \cup marker
    BY <2>2 DEF SlotInv, FreshIsUnknown
  <2>6. \A n \in MissionId : CancelInFlight(n) => CancelInFlight(n)'
    BY <2>2 DEF CancelInFlight, cancelVars
  <2>7. AcknowledgedIsFlagged' /\ CancelHonoured'
    BY <2>2, <2>4, <2>5
       DEF AcknowledgedIsFlagged, CancelHonoured, TypeOK, SlotTypeOK
  <2>8. StopIsFlagged' /\ VerdictIsSound'
    BY <2>2, <2>4, <2>5, <2>6
       DEF StopIsFlagged, VerdictIsSound, cancelVars, TypeOK, SlotInv, OneCarrier, Busy
  <2> QED
    BY <2>7, <2>8
<1>7. CASE (CloseBegin \/ CloseDrain \/ CloseDone) /\ UNCHANGED cancelVars
  BY <1>1, <1>7, QuietStep, CloseStep DEF TypeOK, workVars, historyVars
<1>8. ASSUME NEW m \in MissionId, NEW byClose \in BOOLEAN, CancelUnknown(m, byClose)
      PROVE  CancelInv'
  BY <1>1, <1>8, QuietStep DEF Cancel, CancelUnknown, workVars, historyVars
<1>9. ASSUME NEW m \in MissionId, NEW byClose \in BOOLEAN, CancelSettled(m, byClose)
      PROVE  CancelInv'
  BY <1>1, <1>9, QuietStep DEF Cancel, CancelSettled, historyVars
<1>10. ASSUME NEW m \in MissionId, NEW byClose \in BOOLEAN, CancelSignal(m, byClose)
       PROVE  CancelInv'
  <2>1. Quiet
    BY <1>10, QuietStep DEF Cancel
  <2>2. /\ handler.op = "free"
        /\ handler'.op \in {"written", "refused"} /\ handler'.mission = m
        /\ marker' \subseteq marker \cup {m}
        /\ UNCHANGED <<acknowledged, cancelRequested, worker, cancelFailed>>
    BY <1>10 DEF CancelSignal, LockFree, Free, workVars, historyVars
  <2>3. \A n \in MissionId : CancelInFlight(n) \/ n = m => CancelInFlight(n)'
    BY <2>2 DEF CancelInFlight, InCancel
  <2>4. AcknowledgedIsFlagged' /\ CancelHonoured'
    BY <2>1, <2>2
       DEF Quiet, AcknowledgedIsFlagged, CancelHonoured, TypeOK,
           SlotTypeOK
  <2>5. StopIsFlagged' /\ VerdictIsSound'
    BY <2>1, <2>2, <2>3
       DEF Quiet, StopIsFlagged, VerdictIsSound, TypeOK, SlotInv, OneCarrier, Busy
  <2> QED
    BY <2>4, <2>5
<1>11. CASE CancelRecord
  <2>1. Quiet /\ InCancel /\ handler.mission \in MissionId
    BY <1>11, QuietStep DEF CancelRecord, InCancel, TypeOK, Handler, StartHandler
  <2>2. PICK m \in MissionId : m = handler.mission /\ IsOpen(m)
    BY <2>1 DEF SlotInv, HandlerIsCurrent
  <2>3. /\ \/ /\ cancelRequested' = cancelRequested \cup {m}
              /\ acknowledged' = acknowledged \cup {m}
              /\ UNCHANGED cancelFailed
           \/ /\ cancelFailed' = cancelFailed \cup {m}
              /\ UNCHANGED <<cancelRequested, acknowledged>>
        /\ UNCHANGED <<worker, marker>>
    BY <1>11, <2>2 DEF CancelRecord
  <2>4. \A n \in MissionId : CancelInFlight(n) => CancelInFlight(n)'
    BY <2>2, <2>3 DEF CancelInFlight
  <2>5. ~IsSettled(m)
    BY <2>2 DEF IsOpen, IsSettled, Open, Settled
  <2>6. AcknowledgedIsFlagged'
    BY <2>1, <2>3 DEF Quiet, AcknowledgedIsFlagged, TypeOK, SlotTypeOK
  <2>7. CancelHonoured'
    BY <2>1, <2>3, <2>5 DEF Quiet, CancelHonoured
  <2>8. StopIsFlagged' /\ VerdictIsSound'
    BY <2>1, <2>3, <2>4
       DEF Quiet, StopIsFlagged, VerdictIsSound, TypeOK, SlotInv, OneCarrier, Busy
  <2> QED
    BY <2>6, <2>7, <2>8
<1>12. CASE Begin
  <2>1. PICK m \in MissionId : m = Head(queue)
    BY <1>12, BeginEffect DEF SlotInv
  <2>2. /\ ~InCancel /\ IsOpen(m) /\ UNCHANGED <<handler, acknowledged, marker>>
        /\ m \in cancelRequested <=> m \in acknowledged
    BY <1>12, <2>1, BeginEffect
       DEF InCancel, LockFree, Free, historyVars, AcknowledgedIsFlagged
  <2>3. \A n \in MissionId \ {m} :
          /\ IsOpen(n)' <=> IsOpen(n)
          /\ IsSettled(n)' => IsSettled(n) /\ missions'[n] = missions[n]
    BY <1>12, <2>1, BeginEffect, ForgetsStatus
  <2>4. worker'.pc \in {"executing", "leaving"}
    BY <1>12, BeginEffect
  <2>5. CASE m \notin cancelFailed
    <3>1. /\ UNCHANGED <<cancelRequested, cancelFailed>>
          /\ m \in DOMAIN missions' /\ missions'[m].body.status = "running"
          /\ worker.pc = "idle" /\ worker'.summary = worker.summary
      BY <1>12, <2>1, <2>5, BeginEffect
    <3>2. \A n \in MissionId :
            /\ IsOpen(n)' <=> IsOpen(n)
            /\ IsSettled(n)' => IsSettled(n) /\ missions'[n] = missions[n]
      BY <2>2, <2>3, <3>1 DEF IsOpen, IsSettled, Open, Settled
    <3>3. \A n \in MissionId : CancelInFlight(n) => CancelInFlight(n)'
      BY <2>2, <3>1 DEF CancelInFlight, InCancel
    <3>4. StopIsFlagged' /\ VerdictIsSound'
      BY <2>2, <2>4, <3>1, <3>2, <3>3 DEF StopIsFlagged, VerdictIsSound, TypeOK
    <3> QED
      BY <2>2, <3>1, <3>2, <3>4
         DEF AcknowledgedIsFlagged, CancelHonoured, TypeOK, SlotTypeOK
  <2>6. CASE m \in cancelFailed
    <3>1. /\ Discard(m)
          /\ m \in DOMAIN missions'
          /\ missions'[m].body.status =
               IF m \in cancelRequested THEN "cancelled" ELSE "degraded"
          /\ worker'.pc = "leaving"
      BY <1>12, <2>1, <2>6, BeginEffect
    <3>2. \A n \in MissionId :
            /\ IsOpen(n)' <=> IsOpen(n) /\ n # m
            /\ n # m /\ IsSettled(n)' => IsSettled(n) /\ missions'[n] = missions[n]
      BY <2>3, <3>1 DEF IsOpen, Open
    <3>3. \A n \in MissionId \ {m} : CancelInFlight(n) => CancelInFlight(n)'
      BY <2>2, <3>1 DEF CancelInFlight, InCancel, Discard
    <3>4. AcknowledgedIsFlagged'
      BY <2>2, <3>1, <3>2 DEF AcknowledgedIsFlagged, Discard, TypeOK, SlotTypeOK
    <3>5. CancelHonoured'
      BY <2>2, <3>1, <3>2 DEF CancelHonoured
    <3>6. StopIsFlagged' /\ VerdictIsSound'
      BY <2>2, <3>1, <3>2, <3>3 DEF StopIsFlagged, VerdictIsSound, TypeOK, Busy
    <3> QED
      BY <3>4, <3>5, <3>6
  <2> QED
    BY <2>5, <2>6
<1>13. CASE ExecutorStops
  <2>1. Quiet
    BY <1>13, QuietStep
  <2>2. /\ worker.pc = "executing" /\ worker.mission \in marker
        /\ worker'.pc = "returned" /\ worker'.summary = "stopped"
        /\ worker'.mission = worker.mission
        /\ marker' \subseteq marker
        /\ UNCHANGED <<acknowledged, cancelRequested, cancelFailed, handler>>
    BY <1>13 DEF ExecutorStops, historyVars, TypeOK, Worker
  <2>3. CancelInFlight(worker.mission)
    BY <2>2 DEF StopIsFlagged, SlotInv, WorkIsOpen
  <2>4. \A n \in MissionId : CancelInFlight(n) => CancelInFlight(n)'
    BY <2>2 DEF CancelInFlight, InCancel
  <2>5. PICK m \in MissionId : m = worker.mission
    BY <2>2 DEF TypeOK
  <2>6. StopIsFlagged'
    BY <2>1, <2>2, <2>3, <2>4, <2>5 DEF Quiet, StopIsFlagged, TypeOK, Busy
  <2> QED
    BY <2>1, <2>2, <2>6
       DEF Quiet, AcknowledgedIsFlagged, CancelHonoured,
           VerdictIsSound, TypeOK, SlotTypeOK
<1>14. CASE ExecutorReturns
  <2>1. Quiet
    BY <1>14, QuietStep
  <2>2. /\ \/ worker'.pc = "returned" /\ worker'.summary \in {"clean", "failures"}
           \/ worker'.pc = "raised" /\ worker'.summary = "none"
        /\ UNCHANGED <<acknowledged, cancelRequested, cancelVars, handler>>
    BY <1>14 DEF ExecutorReturns, historyVars, TypeOK, Worker, StopIsFlagged
  <2>3. \A n \in MissionId : CancelInFlight(n) => CancelInFlight(n)'
    BY <2>2 DEF CancelInFlight, InCancel, cancelVars
  <2>4. StopIsFlagged'
    BY <2>1, <2>2, <2>3 DEF Quiet, StopIsFlagged, cancelVars, TypeOK, Busy
  <2> QED
    BY <2>1, <2>2, <2>4
       DEF Quiet, AcknowledgedIsFlagged, CancelHonoured, VerdictIsSound, cancelVars,
           TypeOK, SlotTypeOK
<1>15. CASE ReadVerdict
  <2>1. Quiet
    BY <1>15, QuietStep
  <2>2. /\ ~InCancel /\ Busy
        /\ worker'.pc = "deciding" /\ worker'.mission = worker.mission
        /\ worker'.summary = worker.summary
        /\ UNCHANGED <<acknowledged, cancelRequested, cancelVars, handler>>
    <3>1. LockFree /\ UNCHANGED <<acknowledged, cancelRequested, cancelVars, handler>>
      BY <1>15 DEF ReadVerdict, ReadFlags, ReadCancelled, historyVars
    <3>2. /\ Busy
          /\ worker'.pc = "deciding" /\ worker'.mission = worker.mission
          /\ worker'.summary = worker.summary
      BY <1>15 DEF ReadVerdict, ReadFlags, ReadCancelled, Busy, TypeOK, Worker
    <3> QED
      BY <3>1, <3>2 DEF LockFree, Free, InCancel
  <2>3. worker'.status = "cancelled" => worker.mission \in cancelRequested
    BY <1>15 DEF ReadVerdict, ReadFlags, ReadCancelled, TypeOK, Worker
  <2>4. VerdictIsSound'
    BY <2>2, <2>3 DEF VerdictIsSound
  <2>5. \A n \in MissionId : CancelInFlight(n) => CancelInFlight(n)'
    BY <2>2 DEF CancelInFlight, InCancel, cancelVars
  <2>6. StopIsFlagged'
    BY <2>1, <2>2, <2>5
       DEF Quiet, StopIsFlagged, SlotInv, OneCarrier, Busy, cancelVars, TypeOK
  <2> QED
    BY <2>1, <2>2, <2>4, <2>6
       DEF Quiet, AcknowledgedIsFlagged, CancelHonoured, TypeOK, SlotTypeOK
<1>16. CASE Conclude
  <2>1. PICK m \in MissionId : m = worker.mission
    BY <1>16, ConcludeEffect
  <2>2. /\ ~InCancel /\ IsOpen(m) /\ worker.pc = "deciding"
        /\ worker'.pc = "leaving"
        /\ Discard(m)
        /\ m \in DOMAIN missions'
        /\ missions'[m].body.status = FinalStatus(m, worker.status)
        /\ FinalStatus(m, worker.status) \in Settled
        /\ UNCHANGED <<handler, acknowledged, marker>>
    BY <1>16, <2>1, ConcludeEffect DEF InCancel, LockFree, Free, historyVars
  <2>3. \A n \in MissionId \ {m} :
          /\ IsOpen(n)' <=> IsOpen(n)
          /\ IsSettled(n)' => IsSettled(n) /\ missions'[n] = missions[n]
    BY <1>16, <2>1, ConcludeEffect, ForgetsStatus
  <2>4. \A n \in MissionId :
          /\ IsOpen(n)' <=> IsOpen(n) /\ n # m
          /\ n # m /\ IsSettled(n)' => IsSettled(n) /\ missions'[n] = missions[n]
    BY <2>2, <2>3 DEF IsOpen, Open, Settled
  <2>5. m \in acknowledged <=> FinalStatus(m, worker.status) = "cancelled"
    BY <2>1, <2>2 DEF FinalStatus, AcknowledgedIsFlagged, VerdictIsSound
  <2>7. AcknowledgedIsFlagged'
    BY <2>2, <2>4 DEF AcknowledgedIsFlagged, Discard, TypeOK, SlotTypeOK
  <2>8. CancelHonoured'
    BY <2>2, <2>4, <2>5 DEF CancelHonoured
  <2>9. \A n \in MissionId \ {m} : CancelInFlight(n) => CancelInFlight(n)'
    BY <2>2 DEF CancelInFlight, InCancel, Discard
  <2>10. StopIsFlagged' /\ VerdictIsSound'
    BY <2>2, <2>4, <2>9 DEF StopIsFlagged, VerdictIsSound, TypeOK, Busy
  <2> QED
    BY <2>7, <2>8, <2>10
<1>17. CASE LeaveRun
  <2>1. Quiet
    BY <1>17, QuietStep
  <2>2. /\ worker'.pc = "idle" /\ worker'.summary = "none"
        /\ UNCHANGED <<acknowledged, cancelRequested, cancelVars, handler>>
    BY <1>17 DEF LeaveRun, IdleWorker, historyVars
  <2>3. \A n \in MissionId : CancelInFlight(n) => CancelInFlight(n)'
    BY <2>2 DEF CancelInFlight, InCancel, cancelVars
  <2> QED
    BY <2>1, <2>2, <2>3
       DEF Quiet, AcknowledgedIsFlagged, CancelHonoured,
           StopIsFlagged, VerdictIsSound, cancelVars, TypeOK, SlotTypeOK, Busy
<1> QED
  BY <1>2, <1>3, <1>4, <1>5, <1>6, <1>7, <1>8, <1>9, <1>10, <1>11, <1>12, <1>13,
     <1>14, <1>15, <1>16, <1>17
     DEF EitherNext, Next, NextRecon, Slot, Start, Cancelling, Cancel, Run, RunRecon,
         ReadVerdict, Conclude
-----------------------------------------------------------------------------
(* close() only gets past its loop when the slot is free.                   *)
LEMMA ClosingStep == TypeOK /\ SlotInv /\ CloseInv /\ [EitherNext]_vars => CloseInv'
<1> SUFFICES ASSUME TypeOK, SlotInv, CloseInv, [EitherNext]_vars PROVE CloseInv'
  OBVIOUS
<1>1. CASE /\ active' \subseteq active
           /\ closing' \subseteq closing
           /\ UNCHANGED closer
  BY <1>1 DEF CloseInv
<1>2. CASE Environment
  BY <1>1, <1>2, EnvironmentStep DEF TypeOK, workVars, closeVars
<1>3. CASE \/ \E t \in 1..MaxIssued : StartCheck(t)
           \/ StartConsume
  BY <1>1, <1>3 DEF StartCheck, StartConsume, workVars, closeVars
<1>4. ASSUME NEW m \in MissionId, StartPublish(m)
      PROVE  CloseInv'
  BY <1>4 DEF StartPublish, closeVars, CloseInv, SlotInv, HandlerIsCurrent
<1>5. CASE CloseBegin
  BY <1>5 DEF CloseBegin, workVars, CloseInv, SlotInv, SlotTracksMission
<1>6. CASE CloseDrain
  BY <1>6 DEF CloseDrain, workVars, CloseInv
<1>7. CASE CloseDone
  BY <1>7 DEF CloseDone, PoolIdle, workVars, CloseInv, SlotInv, OneCarrier, Busy
<1>8. ASSUME NEW m \in MissionId, NEW byClose \in BOOLEAN, CancelUnknown(m, byClose)
      PROVE  CloseInv'
  <2>1. CASE byClose = FALSE
    BY <1>1, <1>8, <2>1 DEF CancelUnknown, workVars
  <2>2. CASE byClose = TRUE
    <3>1. m \notin active
      BY <1>8, OpenIsActive
         DEF CancelUnknown, Store!Found, Store!Live, Store!Lapsed, Store!IsActive,
             SlotInv, SlotTracksMission, TypeOK, SlotTypeOK
    <3>2. active \subseteq {m} /\ closer' = "failed" /\ UNCHANGED active
      BY <1>8, <2>2 DEF CancelUnknown, CallsCancel, CloseInv, workVars
    <3> QED
      BY <3>1, <3>2 DEF CloseInv
  <2> QED
    BY <2>1, <2>2
<1>9. ASSUME NEW m \in MissionId, NEW byClose \in BOOLEAN,
             CancelSettled(m, byClose) \/ CancelSignal(m, byClose)
      PROVE  CloseInv'
  BY <1>1, <1>9 DEF CancelSettled, CancelSignal, workVars, closeVars
<1>10. CASE CancelRecord
  BY <1>1, <1>10 DEF CancelRecord
<1>11. CASE Begin
  BY <1>1, <1>11 DEF Begin, Discard, closeVars
<1>12. CASE ExecutorStops \/ ExecutorReturns \/ ReadVerdict
  BY <1>1, <1>12
     DEF ExecutorStops, ExecutorReturns, ReadVerdict, ReadFlags, ReadCancelled, closeVars
<1>13. CASE Conclude \/ LeaveRun
  BY <1>1, <1>13 DEF Conclude, Finish, FinishRecon, LeaveRun, Discard, closeVars
<1>14. CASE UNCHANGED vars
  BY <1>1, <1>14 DEF vars, slotVars, workVars, closeVars
<1> QED
  BY <1>2, <1>3, <1>4, <1>5, <1>6, <1>7, <1>8, <1>9, <1>10, <1>11, <1>12, <1>13,
     <1>14
     DEF EitherNext, Next, NextRecon, Slot, Start, Cancelling, Cancel, Run, RunRecon,
         ReadVerdict, Conclude
-----------------------------------------------------------------------------
(* What the steps do to the missions of this coordinator: nothing but       *)
(* forgetting settled ones, or that and a new status for one mission.       *)
Publishes(m, s) ==
  /\ m \in MissionId
  /\ HasStatus(m, s)'
  /\ \A n \in MissionId \ {m} :
       /\ IsOpen(n)' <=> IsOpen(n)
       /\ n \in DOMAIN missions' => n \in DOMAIN missions /\ missions'[n] = missions[n]

(* Every step is quiet or publishes one status.                             *)
LEMMA StepKinds ==
  ASSUME IInv, [EitherNext]_vars
  PROVE  \/ /\ Quiet /\ UNCHANGED funded
            /\ \/ UNCHANGED acknowledged
               \/ CancelRecord
         \/ \E m \in MissionId : StartPublish(m)
         \/ Begin
         \/ Conclude
<1> USE DEF IInv
<1>1. CASE Environment
  BY <1>1, QuietStep, EnvironmentStep DEF TypeOK, historyVars
<1>2. CASE \E m \in MissionId, byClose \in BOOLEAN : Cancel(m, byClose)
  BY <1>2, QuietStep DEF Cancel, CancelUnknown, CancelSettled, CancelSignal, historyVars
<1>3. CASE \/ \E t \in 1..MaxIssued : StartCheck(t)
           \/ StartConsume
           \/ CloseBegin \/ CloseDrain \/ CloseDone
           \/ ExecutorStops \/ ExecutorReturns \/ ReadVerdict \/ LeaveRun
           \/ UNCHANGED vars
  BY <1>3, QuietStep
     DEF StartCheck, StartConsume, CloseBegin, CloseDrain, CloseDone, ExecutorStops,
         ExecutorReturns, ReadVerdict, ReadFlags, ReadCancelled, LeaveRun, vars, slotVars, historyVars
<1>4. CASE CancelRecord
  BY <1>4, QuietStep DEF CancelRecord
<1> QED
  BY <1>1, <1>2, <1>3, <1>4
     DEF EitherNext, Next, NextRecon, Slot, Start, Cancelling, Run, RunRecon,
         ReadVerdict, Conclude

(* start publishes a mission that was not there, as queued.                 *)
LEMMA StartPublishes ==
  ASSUME IInv, NEW m \in MissionId, StartPublish(m)
  PROVE  /\ Publishes(m, "queued")
         /\ funded[m] = 0 /\ funded'[m] # 0 /\ m \notin DOMAIN missions
         /\ \A n \in MissionId \ {m} : funded'[n] = funded[n]
         /\ active = {} /\ queue = <<>> /\ queue' = <<m>>
         /\ UNCHANGED <<worker, acknowledged>>
<1> USE DEF IInv, SlotInv
<1>1. handler \in StartHandler
  BY DEF StartPublish, TypeOK, Handler, StartHandler
<1>2. active = {}
  BY DEF StartPublish, HandlerIsCurrent
<1>3. queue = <<>>
  BY <1>2 DEF TypeOK, SlotTypeOK, WorkIsOpen, SlotTracksMission
<1>4. Publishes(m, "queued")
  <2>1. m \in DOMAIN missions' /\ missions'[m].body.status = "queued"
    BY <1>1, StartPublishStep DEF TypeOK
  <2>2. \A n \in MissionId \ {m} :
          /\ IsOpen(n)' <=> IsOpen(n)
          /\ n \in DOMAIN missions' =>
               n \in DOMAIN missions /\ missions'[n] = missions[n]
    BY <1>1, StartPublishStep, ForgetsStatus DEF TypeOK
  <2> QED
    BY <2>1, <2>2 DEF Publishes, HasStatus
<1>5. /\ funded[m] = 0 /\ funded'[m] # 0
      /\ \A n \in MissionId \ {m} : funded'[n] = funded[n]
      /\ queue' = Append(queue, m)
      /\ UNCHANGED <<worker, acknowledged>>
  BY <1>1, StartPublishStep DEF TypeOK
<1>6. m \notin DOMAIN missions
  BY <1>5 DEF FreshIsUnknown
<1>7. queue' = <<m>>
  BY <1>3, <1>5
<1> QED
  BY <1>2, <1>3, <1>4, <1>5, <1>6, <1>7

(* Begin publishes the queued mission as running or settled.                *)
LEMMA BeginPublishes ==
  ASSUME IInv, Begin
  PROVE  \E m \in MissionId, s \in {"running", "cancelled", "degraded"} :
           /\ Publishes(m, s) /\ HasStatus(m, "queued")
           /\ s # "running" => (m \in acknowledged <=> s = "cancelled")
           /\ queue' = <<>>
           /\ worker'.pc = IF s = "running" THEN "executing" ELSE "leaving"
           /\ worker'.mission = m
           /\ UNCHANGED historyVars
<1> USE DEF IInv, SlotInv
<1>1. PICK m \in MissionId : m = Head(queue)
  BY BeginEffect
<1>2. HasStatus(m, "queued") /\ IsOpen(m)
  <2>1. queue # <<>> /\ queue \in Seq(MissionId)
    BY DEF Begin, TypeOK, SlotTypeOK
  <2>2. 1 \in DOMAIN queue /\ queue[1] = m
    BY <1>1, <2>1
  <2> QED
    BY <2>2 DEF StageInv, WorkIsOpen
<1>3. queue' = <<>> /\ UNCHANGED historyVars
  BY BeginEffect DEF OneCarrier, TypeOK, SlotTypeOK
<1>4. \A n \in MissionId \ {m} :
        /\ IsOpen(n)' <=> IsOpen(n)
        /\ n \in DOMAIN missions' => n \in DOMAIN missions /\ missions'[n] = missions[n]
  BY <1>1, BeginEffect, ForgetsStatus
<1>5. m \in cancelRequested <=> m \in acknowledged
  BY <1>2 DEF CancelInv, AcknowledgedIsFlagged
<1>6. CASE m \notin cancelFailed
  <2>1. /\ m \in DOMAIN missions' /\ missions'[m].body.status = "running"
        /\ worker'.pc = "executing" /\ worker'.mission = m
    BY <1>1, <1>6, BeginEffect
  <2>2. Publishes(m, "running")
    BY <1>4, <2>1 DEF Publishes, HasStatus
  <2> QED
    BY <1>2, <1>3, <2>1, <2>2
<1>7. CASE m \in cancelFailed
  <2>1. PICK s \in {"cancelled", "degraded"} :
          /\ s = IF m \in cancelRequested THEN "cancelled" ELSE "degraded"
          /\ m \in DOMAIN missions' /\ missions'[m].body.status = s
          /\ worker'.pc = "leaving" /\ worker'.mission = m
    BY <1>1, <1>7, BeginEffect
  <2>2. Publishes(m, s)
    BY <1>4, <2>1 DEF Publishes, HasStatus
  <2> QED
    BY <1>2, <1>3, <1>5, <2>1, <2>2
<1> QED
  BY <1>6, <1>7

(* _finish publishes the running mission as settled.                        *)
LEMMA ConcludePublishes ==
  ASSUME IInv, Conclude
  PROVE  \E m \in MissionId, s \in Settled :
           /\ Publishes(m, s) /\ HasStatus(m, "running")
           /\ m \in acknowledged <=> s = "cancelled"
           /\ queue' = <<>>
           /\ worker'.pc = "leaving"
           /\ UNCHANGED historyVars
<1> USE DEF IInv, SlotInv
<1>1. PICK m \in MissionId : m = worker.mission
  BY ConcludeEffect
<1>2. PICK s \in Settled : s = FinalStatus(m, worker.status)
  BY <1>1, ConcludeEffect
<1>3. /\ m \in DOMAIN missions' /\ missions'[m].body.status = s
      /\ worker.pc = "deciding" /\ worker'.pc = "leaving" /\ IsOpen(m)
      /\ UNCHANGED <<queue, historyVars>>
  BY <1>1, <1>2, ConcludeEffect
<1>4. HasStatus(m, "running") /\ queue = <<>>
  BY <1>1, <1>3 DEF StageInv, OneCarrier, Busy
<1>5. \A n \in MissionId \ {m} :
        /\ IsOpen(n)' <=> IsOpen(n)
        /\ n \in DOMAIN missions' => n \in DOMAIN missions /\ missions'[n] = missions[n]
  BY <1>1, ConcludeEffect, ForgetsStatus
<1>6. m \in acknowledged <=> s = "cancelled"
  BY <1>1, <1>2, <1>3
     DEF FinalStatus, CancelInv, AcknowledgedIsFlagged, VerdictIsSound
<1>7. Publishes(m, s)
  BY <1>3, <1>5 DEF Publishes, HasStatus
<1> QED
  BY <1>3, <1>4, <1>6, <1>7
-----------------------------------------------------------------------------
(* Every step keeps queue and worker at their stages.                       *)
LEMMA StageStep == IInv /\ [EitherNext]_vars => StageInv'
<1> SUFFICES ASSUME IInv, [EitherNext]_vars PROVE StageInv'
  OBVIOUS
<1> USE DEF IInv
<1>1. CASE Quiet /\ UNCHANGED queue /\ (Busy' => Busy /\ worker'.mission = worker.mission)
  <2>1. \A n \in MissionId, st \in Open : HasStatus(n, st) => HasStatus(n, st)'
    BY <1>1 DEF Quiet, HasStatus, IsOpen
  <2>2. queue \in Seq(MissionId)
    BY DEF TypeOK, SlotTypeOK
  <2>3. \A i \in DOMAIN queue' : HasStatus(queue[i], "queued")'
    BY <1>1, <2>1, <2>2 DEF StageInv, Open
  <2>4. Busy' => HasStatus(worker.mission, "running")'
    BY <1>1, <2>1 DEF StageInv, Open, SlotInv, OneCarrier
  <2> QED
    BY <1>1, <2>3, <2>4 DEF StageInv
<1>2. CASE \E m \in MissionId : StartPublish(m)
  <2>1. PICK m \in MissionId : StartPublish(m)
    BY <1>2
  <2>2. /\ Publishes(m, "queued") /\ queue' = <<m>> /\ active = {}
        /\ UNCHANGED worker
    BY <2>1, StartPublishes
  <2>3. ~Busy'
    BY <2>2 DEF Busy, SlotInv, WorkIsOpen, SlotTracksMission, OneCarrier
  <2> QED
    BY <2>2, <2>3 DEF StageInv, Publishes
<1>3. CASE Begin
  <2>1. PICK m \in MissionId, s \in {"running", "cancelled", "degraded"} :
          /\ Publishes(m, s) /\ queue' = <<>>
          /\ worker'.pc = IF s = "running" THEN "executing" ELSE "leaving"
          /\ worker'.mission = m
    BY <1>3, BeginPublishes
  <2>2. Busy' => s = "running"
    BY <2>1 DEF Busy
  <2>3. Busy' => HasStatus(worker.mission, "running")'
    BY <2>1, <2>2 DEF Publishes, HasStatus
  <2>4. DOMAIN queue' = {}
    BY <2>1
  <2> QED
    BY <2>3, <2>4 DEF StageInv
<1>4. CASE Conclude
  <2>1. queue' = <<>> /\ worker'.pc = "leaving"
    BY <1>4, ConcludePublishes
  <2> QED
    BY <2>1 DEF StageInv, Busy
<1>5. CASE \/ Environment
           \/ \E t \in 1..MaxIssued : StartCheck(t)
           \/ StartConsume
           \/ CloseBegin \/ CloseDrain \/ CloseDone
           \/ \E m \in MissionId, byClose \in BOOLEAN : Cancel(m, byClose)
           \/ CancelRecord \/ UNCHANGED vars
  <2>1. UNCHANGED <<queue, worker>>
    BY <1>5, EnvironmentStep
       DEF TypeOK, StartCheck, StartConsume, CloseBegin, CloseDrain, CloseDone, Cancel,
           CancelUnknown, CancelSettled, CancelSignal, CancelRecord, vars, slotVars,
           workVars
  <2> QED
    BY <1>1, <1>5, <2>1, QuietStep DEF Busy
<1>6. CASE ExecutorStops \/ ExecutorReturns \/ ReadVerdict \/ LeaveRun
  <2>1. CASE ExecutorStops \/ ExecutorReturns \/ ReadVerdict
    BY <1>1, <2>1, QuietStep
       DEF ExecutorStops, ExecutorReturns, ReadVerdict, ReadFlags, ReadCancelled, Busy, TypeOK, Worker
  <2>2. CASE LeaveRun
    BY <1>1, <2>2, QuietStep DEF LeaveRun, Busy, IdleWorker
  <2> QED
    BY <1>6, <2>1, <2>2
<1> QED
  BY <1>2, <1>3, <1>4, <1>5, <1>6
     DEF EitherNext, Next, NextRecon, Slot, Start, Cancelling, Run, RunRecon,
         ReadVerdict, Conclude
-----------------------------------------------------------------------------
(* Only the lock's holder and the worker's own steps touch the account of   *)
(* tokens and the room in the store, or nobody does.                        *)
LEMMA TokenKept == TypeOK /\ TokenInv /\ [EitherNext]_vars => TokenInv'
<1> SUFFICES ASSUME TypeOK, TokenInv, [EitherNext]_vars PROVE TokenInv'
  OBVIOUS
<1>1. CASE Slot
  <2>1. handler.op \in {"consume", "publish"} => handler \in StartHandler
    BY DEF TypeOK, Handler
  <2> QED
    BY <1>1, <2>1, TokenStep DEF Slot, TypeOK
<1>2. CASE \/ Cancelling
           \/ Begin \/ ExecutorStops \/ ExecutorReturns \/ ReadVerdict \/ Conclude
           \/ LeaveRun \/ UNCHANGED vars
  <2>1. UNCHANGED <<authVars, funded>>
    BY <1>2
       DEF Cancelling, Cancel, CancelUnknown, CancelSettled, CancelSignal, CancelRecord,
           Begin, ExecutorStops, ExecutorReturns, ReadVerdict, ReadFlags, ReadCancelled,
           Conclude, Finish, FinishRecon, LeaveRun, vars, slotVars, historyVars
  <2>2. UNCHANGED handler \/ (handler.op # "publish" /\ handler'.op # "publish")
    BY <1>2
       DEF Cancelling, Cancel, CancelUnknown, CancelSettled, CancelSignal, CancelRecord,
           Begin, ExecutorStops, ExecutorReturns, ReadVerdict, ReadFlags, ReadCancelled,
           Conclude, Finish, FinishRecon, LeaveRun, vars, slotVars, LockFree, Free
  <2> QED
    BY <2>1, <2>2, TokenQuiet
<1> QED
  BY <1>1, <1>2
     DEF EitherNext, Next, NextRecon, Run, RunRecon, ReadVerdict, Conclude

(* So much for the room.                                                    *)
LEMMA RoomKept == TypeOK /\ RoomInv /\ [EitherNext]_vars => RoomInv'
<1> SUFFICES ASSUME TypeOK, RoomInv, [EitherNext]_vars PROVE RoomInv'
  OBVIOUS
<1>1. CASE Slot
  BY <1>1, RoomStep DEF Slot, TypeOK
<1>2. CASE \/ Cancelling
           \/ ExecutorStops \/ ExecutorReturns \/ ReadVerdict \/ LeaveRun
           \/ UNCHANGED vars
  <2>1. Store!Purge \/ UNCHANGED missions
    BY <1>2
       DEF Cancelling, Cancel, CancelUnknown, CancelSettled, CancelSignal, CancelRecord,
           ExecutorStops, ExecutorReturns, ReadVerdict, ReadFlags, ReadCancelled,
           LeaveRun, vars, slotVars, storeVars
  <2> QED
    BY <2>1, RoomPurge
<1>3. CASE Begin
  <2> DEFINE m == Head(queue)
  <2>1. m \in MissionId
    BY <1>3 DEF Begin, TypeOK, SlotTypeOK
  <2>2. PICK s \in Status : Store!Put(m, [status |-> s, summary |-> "none"])
    BY <1>3 DEF Begin, Status, Open, Settled
  <2>3. [status |-> s, summary |-> "none"] \in Body
    BY DEF Body, Summary
  <2> QED
    BY <2>1, <2>2, <2>3, RoomOwnPut DEF TypeOK
<1>4. CASE Conclude
  <2> DEFINE m == worker.mission
  <2>1. m \in MissionId /\ FinalStatus(m, worker.status) \in Status
    BY <1>4, ConcludeEffect DEF Status
  <2>2. PICK u \in Summary :
          Store!Put(m, [status |-> FinalStatus(m, worker.status), summary |-> u])
    BY <1>4
       DEF Conclude, Finish, FinishRecon, PublishedSummary, Summary, TypeOK, Worker
  <2>3. [status |-> FinalStatus(m, worker.status), summary |-> u] \in Body
    BY <2>1 DEF Body
  <2> QED
    BY <2>1, <2>2, <2>3, RoomOwnPut DEF TypeOK
<1> QED
  BY <1>1, <1>2, <1>3, <1>4
     DEF EitherNext, Next, NextRecon, Run, RunRecon, ReadVerdict, Conclude
-----------------------------------------------------------------------------
(* A coordinator that was just built satisfies IInv.                        *)
LEMMA InitInv == Init => IInv
<1> SUFFICES ASSUME Init PROVE IInv
  OBVIOUS
<1>1. TypeOK
  BY TypeInit
<1>2. /\ DOMAIN missions = {}
      /\ active = {} /\ cancelRequested = {} /\ acknowledged = {}
      /\ cancelFailed = {} /\ marker = {}
      /\ queue = <<>> /\ worker = IdleWorker /\ handler.op = "free"
      /\ closer = "open"
  BY DEF Init, SlotInit, Store!Init, Free
<1>3. SlotInv
  BY <1>2
     DEF SlotInv, WorkIsOpen, SlotTracksMission, FlagsAreLive, FreshIsUnknown,
         OneCarrier, HandlerIsCurrent, Busy, InCancel, IsOpen, IdleWorker
<1>4. CancelInv
  BY <1>2
     DEF CancelInv, AcknowledgedIsFlagged, CancelHonoured, StopIsFlagged,
         VerdictIsSound, IsSettled, Busy, IdleWorker
<1>5. CloseInv /\ StageInv
  BY <1>2 DEF CloseInv, StageInv, Busy, IdleWorker
<1>6. TokenInv
  <2>1. /\ \A t \in 1..MaxIssued : grants[t] = 0 /\ ~Due(t)
        /\ DOMAIN authorizations = {}
        /\ \A m \in MissionId : funded[m] = 0
    BY <1>2 DEF Init, SlotInit, Auth!Init, Auth!Token, Due
  <2> QED
    BY <2>1 DEF TokenInv, Paid
<1>7. RoomInv
  <2>1. ForeignActive = {}
    BY <1>2 DEF ForeignActive, IsOpen
  <2> QED
    BY <1>2, <2>1, FS_EmptySet, CoordinatorAssumption DEF RoomInv
<1> QED
  BY <1>1, <1>3, <1>4, <1>5, <1>6, <1>7 DEF IInv

(* The strengthening is inductive: every step of every thread keeps it,     *)
(* whichever of the two coordinators takes the step.                        *)
LEMMA EitherKeeps == IInv /\ [EitherNext]_vars => IInv'
BY TypeStep, SlotStep, StageStep, CancelStep, ClosingStep, TokenKept, RoomKept DEF IInv

(* IInv is an invariant of the triage coordinator.                          *)
THEOREM Inductive == Spec => []IInv
<1>1. IInv /\ [Next]_vars => IInv'
  BY EitherKeeps DEF EitherNext
<1> QED
  BY <1>1, InitInv, PTL DEF Spec

(* IInv is an invariant of the reconnaissance coordinator.                  *)
THEOREM ReconInductive == SpecRecon => []IInv
<1>1. IInv /\ [NextRecon]_vars => IInv'
  BY EitherKeeps DEF EitherNext
<1> QED
  BY <1>1, InitInv, PTL DEF SpecRecon
-----------------------------------------------------------------------------
(* A client whose cancel was accepted finds the mission cancelled, and      *)
(* nobody else does, however cancel, execute and _finish interleave.        *)
THEOREM CancelIsHonoured == Spec => []CancelHonoured
<1>1. IInv => CancelHonoured
  BY DEF IInv, CancelInv
<1> QED
  BY <1>1, Inductive, PTL

(* The same of a reconnaissance, whose worker looks at one flag only.       *)
THEOREM ReconCancelIsHonoured == SpecRecon => []CancelHonoured
<1>1. IInv => CancelHonoured
  BY DEF IInv, CancelInv
<1> QED
  BY <1>1, ReconInductive, PTL

(* The slot is held exactly by the one open mission, no flag outlives it,   *)
(* and the worker never finds its mission gone or settled.                  *)
THEOREM SlotIsExact == Spec => [](SlotTracksMission /\ FlagsAreLive)
<1>1. IInv => SlotTracksMission /\ FlagsAreLive
  BY DEF IInv, SlotInv
<1> QED
  BY <1>1, Inductive, PTL

(* What the worker and the queue carry is in the store and open: no client  *)
(* of the store settles it, evicts it or lets it expire.                    *)
THEOREM WorkStaysOpen == Spec => []WorkIsOpen
<1>1. IInv => WorkIsOpen
  BY DEF IInv, SlotInv
<1> QED
  BY <1>1, Inductive, PTL

(* A token pays for one mission, and for one only; a refused start costs    *)
(* none.                                                                    *)
THEOREM TokenPaysOnce == Spec => []TokenFundsOneMission
<1>1. IInv => TokenFundsOneMission
  BY TokenInvCounts DEF IInv, TypeOK
<1> QED
  BY <1>1, Inductive, PTL

(* When a token has been consumed, the store has room for the mission: what *)
(* the other coordinators run is less than its capacity, this one runs      *)
(* nothing yet, and whatever else is stored can be evicted.                 *)
THEOREM NoTokenIsWasted == Spec => []StoreAdmitsMission
<1>1. IInv => StoreAdmitsMission
  <2> SUFFICES ASSUME IInv, handler.op = "publish", NEW m \in MissionId
               PROVE  Store!PutAccepted(m)
    BY DEF StoreAdmitsMission
  <2>1. \A n \in MissionId : ~IsOpen(n)
    BY DEF IInv, SlotInv, HandlerIsCurrent, SlotTracksMission
  <2> QED
    BY <2>1, RoomAdmits DEF IInv, TypeOK
<1> QED
  BY <1>1, Inductive, PTL

(* Whichever way close() ends, nothing is left open or queued, and no start *)
(* is under way.                                                            *)
THEOREM CloseLeavesNothing == Spec => []ClosedMeansDone
<1>1. IInv => ClosedMeansDone
  <2> SUFFICES ASSUME IInv, closer \in {"stopped", "failed"}
               PROVE  /\ \A m \in MissionId : ~IsOpen(m)
                      /\ queue = <<>>
                      /\ handler.op \notin {"consume", "publish"}
    BY DEF ClosedMeansDone
  <2> USE DEF IInv, SlotInv
  <2>1. active = {}
    BY DEF CloseInv
  <2>2. \A m \in MissionId : ~IsOpen(m)
    BY <2>1 DEF SlotTracksMission
  <2>3. queue = <<>>
    BY <2>2 DEF WorkIsOpen, TypeOK, SlotTypeOK
  <2> QED
    BY <2>2, <2>3 DEF HandlerIsCurrent
<1> QED
  BY <1>1, Inductive, PTL
-----------------------------------------------------------------------------
(* All steps of a coordinator but the worker's verdict and _finish.         *)
OtherStep ==
  \/ Slot \/ Cancelling \/ Begin
  \/ ExecutorStops \/ ExecutorReturns \/ LeaveRun
  \/ UNCHANGED vars

(* They settle no mission with a summary, and none as completed.            *)
LEMMA OtherStepSettles ==
  ASSUME IInv, OtherStep \/ ReadVerdict, NEW n \in MissionId, IsSettled(n)'
  PROVE  \/ IsSettled(n) /\ missions'[n] = missions[n]
         \/ /\ missions'[n].body.summary = "none"
            /\ missions'[n].body.status # "completed"
<1>1. CASE Quiet
  BY <1>1 DEF Quiet
<1>2. CASE \E m \in MissionId : StartPublish(m)
  <2>1. PICK m \in MissionId : StartPublish(m)
    BY <1>2
  <2>2. Publishes(m, "queued")
    BY <2>1, StartPublishes
  <2>3. n # m
    BY <2>2 DEF Publishes, HasStatus, IsSettled, Settled
  <2>4. n \in DOMAIN missions /\ missions'[n] = missions[n]
    BY <2>2, <2>3 DEF Publishes, IsSettled
  <2> QED
    BY <2>4 DEF IsSettled
<1>3. CASE Begin
  <2>1. CASE n = Head(queue)
    <3>1. \/ missions'[n].body = [status |-> "running", summary |-> "none"]
          \/ missions'[n].body =
               [status |-> IF n \in cancelRequested THEN "cancelled" ELSE "degraded",
                summary |-> "none"]
      BY <1>3, <2>1, BeginEffect DEF IInv
    <3> QED
      BY <3>1
  <2>2. CASE n # Head(queue)
    <3>1. Head(queue) \in MissionId /\ ForgetsBut(Head(queue))
      BY <1>3, BeginEffect DEF IInv
    <3> QED
      BY <2>2, <3>1, ForgetsStatus
  <2> QED
    BY <2>1, <2>2
<1>4. CASE \/ Environment
           \/ \E t \in 1..MaxIssued : StartCheck(t)
           \/ StartConsume
           \/ CloseBegin \/ CloseDrain \/ CloseDone
           \/ Cancelling \/ ExecutorStops \/ ExecutorReturns \/ ReadVerdict \/ LeaveRun
           \/ UNCHANGED vars
  BY <1>1, <1>4, QuietStep DEF IInv, Cancelling
<1> QED
  BY <1>2, <1>3, <1>4 DEF OtherStep, Slot, Start

(* _finish settles one mission, and forgets others at most.                 *)
LEMMA ConcludeSettles ==
  ASSUME IInv, Conclude, NEW n \in MissionId \ {worker.mission}, IsSettled(n)'
  PROVE  IsSettled(n) /\ missions'[n] = missions[n]
BY ConcludeEffect, ForgetsStatus DEF IInv

(* Triage decides for "completed" only when the summary is clean: a batch   *)
(* that was stopped has its flag, recorded before ReadFlags got the lock.   *)
LEMMA WholeStep == IInv /\ WholeInv /\ [Next]_vars => WholeInv'
<1> SUFFICES ASSUME IInv, WholeInv, [Next]_vars PROVE WholeInv'
  OBVIOUS
<1> DEFINE WorkerPart ==
             /\ worker.pc = "returned" =>
                  worker.summary \in {"clean", "failures", "stopped"}
             /\ worker.pc = "deciding" /\ worker.status = "completed" =>
                  worker.summary = "clean"
<1>1. ASSUME OtherStep \/ ReadVerdict
      PROVE  CompletedIsWhole'
  BY <1>1, OtherStepSettles DEF WholeInv, CompletedIsWhole
<1>2. ASSUME OtherStep
      PROVE  WorkerPart'
  <2>1. CASE UNCHANGED worker
    BY <2>1 DEF WholeInv
  <2>2. CASE Begin
    BY <2>2, BeginEffect DEF IInv
  <2>3. CASE ExecutorStops \/ ExecutorReturns \/ LeaveRun
    <3>1. worker \in Worker
      BY DEF IInv, TypeOK
    <3>2. CASE ExecutorStops
      BY <3>1, <3>2 DEF ExecutorStops, Worker
    <3>3. CASE ExecutorReturns
      BY <3>1, <3>3 DEF ExecutorReturns, Worker
    <3>4. CASE LeaveRun
      BY <3>4 DEF LeaveRun, IdleWorker
    <3> QED
      BY <2>3, <3>2, <3>3, <3>4
  <2> QED
    BY <1>2, <2>1, <2>2, <2>3, EnvironmentStep
       DEF OtherStep, Slot, Start, StartCheck, StartConsume, StartPublish, CloseBegin,
           CloseDrain, CloseDone, Cancelling, Cancel, CancelUnknown, CancelSettled,
           CancelSignal, CancelRecord, vars, slotVars, workVars, IInv, TypeOK
<1>3. ASSUME ReadFlags
      PROVE  WorkerPart'
  <2>1. /\ worker'.pc = "deciding" /\ worker'.summary = worker.summary
        /\ worker'.status = "completed" =>
             /\ worker.mission \notin cancelRequested \cup cancelFailed
             /\ worker.pc = "returned" /\ worker.summary # "failures"
    BY <1>3 DEF ReadFlags, IInv, TypeOK, Worker
  <2>2. ~InCancel /\ Busy
    BY <1>3 DEF ReadFlags, LockFree, Free, InCancel, Busy
  <2>3. worker.summary = "stopped" =>
          worker.mission \in cancelRequested \cup cancelFailed
    BY <2>2 DEF IInv, CancelInv, StopIsFlagged, CancelInFlight
  <2> QED
    BY <2>1, <2>3 DEF WholeInv
<1>4. ASSUME Finish
      PROVE  WorkerPart' /\ CompletedIsWhole'
  <2>1. Conclude
    BY <1>4 DEF Conclude
  <2>2. worker'.pc = "leaving"
    BY <2>1, ConcludeEffect DEF IInv
  <2>3. ASSUME NEW n \in MissionId, IsSettled(n)',
               missions'[n].body.status = "completed"
        PROVE  missions'[n].body.summary = "clean"
    <3>1. CASE n = worker.mission
      <4>1. /\ missions'[n].body.status = FinalStatus(n, worker.status)
            /\ missions'[n].body.summary = worker.summary
            /\ worker.pc = "deciding"
        BY <1>4, <2>1, <3>1, ConcludeEffect DEF IInv
      <4>2. worker.status = "completed"
        BY <2>3, <4>1 DEF FinalStatus
      <4> QED
        BY <4>1, <4>2 DEF WholeInv
    <3>2. CASE n # worker.mission
      BY <2>1, <2>3, <3>2, ConcludeSettles DEF WholeInv, CompletedIsWhole
    <3> QED
      BY <3>1, <3>2
  <2> QED
    BY <2>2, <2>3 DEF CompletedIsWhole
<1> QED
  BY <1>1, <1>2, <1>3, <1>4
     DEF WholeInv, OtherStep, ReadVerdict, Next, Run

(* No batch that a marker cut short, and none with files that failed, is    *)
(* published as completed.                                                  *)
THEOREM NothingPartialCompletes == Spec => []CompletedIsWhole
<1>1. Init => WholeInv
  BY DEF Init, SlotInit, Store!Init, IdleWorker, WholeInv, CompletedIsWhole, IsSettled
<1>2. IInv /\ WholeInv /\ [Next]_vars => WholeInv'
  BY WholeStep
<1>3. WholeInv => CompletedIsWhole
  BY DEF WholeInv
<1> QED
  BY <1>1, <1>2, <1>3, Inductive, PTL DEF Spec

(* What a step of reconnaissance publishes covers the sample: the summary   *)
(* of one that was stopped goes with an accepted cancel, or is published as *)
(* degraded because the cancel was refused.                                 *)
LEMMA StatisticsStep == IInv /\ StatisticsAreWhole /\ [NextRecon]_vars => StatisticsAreWhole'
<1> SUFFICES ASSUME IInv, StatisticsAreWhole, [NextRecon]_vars,
                    NEW n \in MissionId, IsSettled(n)',
                    missions'[n].body.summary = "stopped"
             PROVE  missions'[n].body.status = "degraded"
  BY DEF StatisticsAreWhole
<1>1. CASE OtherStep \/ ReadVerdict
  BY <1>1, OtherStepSettles DEF StatisticsAreWhole
<1>2. CASE FinishRecon
  <2>1. Conclude
    BY <1>2 DEF Conclude
  <2>2. CASE n = worker.mission
    <3>1. /\ missions'[n].body.status = FinalStatus(n, worker.status)
          /\ missions'[n].body.summary = PublishedSummary(n)
          /\ worker.pc = "deciding" /\ LockFree
      BY <1>2, <2>1, <2>2, ConcludeEffect DEF IInv
    <3>2. n \notin cancelRequested /\ worker.summary = "stopped"
      BY <3>1 DEF PublishedSummary
    <3>3. n \in cancelFailed
      BY <2>2, <3>1, <3>2
         DEF IInv, CancelInv, StopIsFlagged, CancelInFlight, Busy, LockFree, Free, InCancel
    <3> QED
      BY <3>1, <3>2, <3>3 DEF FinalStatus
  <2>3. CASE n # worker.mission
    BY <2>1, <2>3, ConcludeSettles DEF StatisticsAreWhole
  <2> QED
    BY <2>2, <2>3
<1> QED
  BY <1>1, <1>2 DEF OtherStep, ReadVerdict, NextRecon, RunRecon

(* The statistics of a reconnaissance are those of the whole sample, except *)
(* where it is shown as degraded.                                           *)
THEOREM ReconStatisticsAreWhole == SpecRecon => []StatisticsAreWhole
<1>1. Init => StatisticsAreWhole
  BY DEF Init, SlotInit, Store!Init, StatisticsAreWhole, IsSettled
<1> QED
  BY <1>1, StatisticsStep, ReconInductive, PTL DEF SpecRecon
-----------------------------------------------------------------------------
(* No step of a coordinator changes an outcome.                             *)
LEMMA OutcomeKept ==
  ASSUME IInv, [EitherNext]_vars
  PROVE  \A m \in MissionId :
           IsSettled(m) /\ m \in DOMAIN missions' => missions'[m] = missions[m]
<1> DEFINE Kept == \A m \in MissionId :
                     IsSettled(m) /\ m \in DOMAIN missions' => missions'[m] = missions[m]
<1>1. CASE Quiet
  BY <1>1 DEF Quiet
<1>2. ASSUME NEW m, NEW s, Publishes(m, s), ~IsSettled(m)
      PROVE  Kept
  BY <1>2 DEF Publishes
<1>3. CASE \E m \in MissionId : StartPublish(m)
  BY <1>2, <1>3, StartPublishes DEF IsSettled
<1>4. CASE Begin
  BY <1>2, <1>4, BeginPublishes DEF IsSettled, HasStatus, Settled
<1>5. CASE Conclude
  BY <1>2, <1>5, ConcludePublishes DEF IsSettled, HasStatus, Settled
<1> QED
  BY <1>1, <1>3, <1>4, <1>5, StepKinds

(* Once an outcome is in the store it is never overwritten: not by the      *)
(* worker, not by a late cancel, not by close.                              *)
THEOREM PublishedOutcomeIsFinal == Spec => OutcomeIsFinal
<1>1. IInv /\ [Next]_vars =>
        [\A m \in MissionId :
           IsSettled(m) /\ m \in DOMAIN missions' => missions'[m] = missions[m]]_slotVars
  BY OutcomeKept DEF EitherNext
<1> QED
  BY <1>1, Inductive, PTL DEF Spec, OutcomeIsFinal

(* Nor by those of a reconnaissance.                                        *)
THEOREM ReconOutcomeIsFinal == SpecRecon => OutcomeIsFinal
<1>1. IInv /\ [NextRecon]_vars =>
        [\A m \in MissionId :
           IsSettled(m) /\ m \in DOMAIN missions' => missions'[m] = missions[m]]_slotVars
  BY OutcomeKept DEF EitherNext
<1> QED
  BY <1>1, ReconInductive, PTL DEF SpecRecon, OutcomeIsFinal
-----------------------------------------------------------------------------
(* The missions that a step forgets, and the abstract step they belong to.  *)
Gone == {n \in MissionId : IsSettled(n) /\ n \notin DOMAIN missions'}

(* A mission that a step does not publish stays in its phase or is gone.    *)
LEMMA PhaseOfOthers ==
  ASSUME IInv, NEW n \in MissionId, funded'[n] = funded[n],
         IsOpen(n)' <=> IsOpen(n),
         n \in DOMAIN missions' => n \in DOMAIN missions /\ missions'[n] = missions[n]
  PROVE  Phase(n)' = IF n \in Gone THEN "forgotten" ELSE Phase(n)
<1>1. n \in DOMAIN missions => IsOpen(n) \/ IsSettled(n)
  BY DEF IInv, TypeOK, SlotTypeOK, Store!StoreTypeOK, Store!Stored, Body, Status,
         IsOpen, IsSettled
<1>2. n \in DOMAIN missions => funded[n] # 0
  BY DEF IInv, SlotInv, FreshIsUnknown
<1>3. n \in Gone <=> IsSettled(n) /\ n \notin DOMAIN missions'
  BY DEF Gone
<1>4. CASE n \in DOMAIN missions'
  BY <1>3, <1>4 DEF Phase
<1>5. CASE n \notin DOMAIN missions' /\ n \in DOMAIN missions
  <2>1. IsSettled(n)
    BY <1>1, <1>5 DEF IsOpen
  <2> QED
    BY <1>2, <1>3, <1>5, <2>1 DEF Phase
<1>6. CASE n \notin DOMAIN missions' /\ n \notin DOMAIN missions
  BY <1>3, <1>6 DEF Phase, IsSettled
<1> QED
  BY <1>4, <1>5, <1>6

(* So do all missions in a quiet step.                                      *)
LEMMA PhaseAfterQuiet ==
  ASSUME IInv, Quiet, UNCHANGED funded
  PROVE  \A n \in MissionId : Phase(n)' = IF n \in Gone THEN "forgotten" ELSE Phase(n)
<1> SUFFICES ASSUME NEW n \in MissionId
             PROVE  Phase(n)' = IF n \in Gone THEN "forgotten" ELSE Phase(n)
  OBVIOUS
<1>1. /\ funded'[n] = funded[n]
      /\ IsOpen(n)' <=> IsOpen(n)
      /\ n \in DOMAIN missions' => n \in DOMAIN missions /\ missions'[n] = missions[n]
  BY DEF Quiet
<1> QED
  BY <1>1, PhaseOfOthers

(* A step that publishes moves one mission, as Move says.                   *)
LEMMA PhaseAfterPublish ==
  ASSUME IInv, NEW m, NEW s, Publishes(m, s),
         \A n \in MissionId \ {m} : funded'[n] = funded[n]
  PROVE  /\ m \notin Gone
         /\ \A n \in MissionId :
              Phase(n)' = IF n = m THEN s
                          ELSE IF n \in Gone THEN "forgotten" ELSE Phase(n)
<1>1. m \in MissionId /\ m \in DOMAIN missions' /\ missions'[m].body.status = s
  BY DEF Publishes, HasStatus
<1>2. m \notin Gone
  BY <1>1 DEF Gone
<1>3. Phase(m)' = s
  BY <1>1 DEF Phase
<1>4. ASSUME NEW n \in MissionId \ {m}
      PROVE  Phase(n)' = IF n \in Gone THEN "forgotten" ELSE Phase(n)
  <2>1. /\ funded'[n] = funded[n]
        /\ IsOpen(n)' <=> IsOpen(n)
        /\ n \in DOMAIN missions' => n \in DOMAIN missions /\ missions'[n] = missions[n]
    BY DEF Publishes
  <2> QED
    BY <2>1, PhaseOfOthers
<1> QED
  BY <1>2, <1>3, <1>4

(* Only settled missions are gone.                                          *)
LEMMA GoneIsForgettable ==
  ASSUME IInv
  PROVE  Gone \in SUBSET Lifecycle!Forgettable
BY DEF Gone, Lifecycle!Forgettable, Phase, IsSettled, Settled, Lifecycle!Settled

(* Every step of the coordinator is a step of the lifecycle, or none.       *)
LEMMA LifecycleStep ==
  ASSUME IInv, [EitherNext]_vars
  PROVE  [Lifecycle!Next]_(Lifecycle!lifecycleVars)
<1>1. ASSUME NEW m \in MissionId, NEW p, m \notin Gone,
             \A n \in MissionId :
               Phase(n)' = IF n = m THEN p
                           ELSE IF n \in Gone THEN "forgotten" ELSE Phase(n)
      PROVE  Lifecycle!Move(m, p, Gone)
  BY <1>1 DEF Lifecycle!Move
<1>2. Gone \in SUBSET Lifecycle!Forgettable
  BY GoneIsForgettable
<1>4. CASE Quiet /\ UNCHANGED <<funded, acknowledged>>
  <2>1. Lifecycle!ForgetSettled(Gone)
    BY <1>4, PhaseAfterQuiet DEF Lifecycle!ForgetSettled
  <2> QED
    BY <1>2, <2>1 DEF Lifecycle!Next
<1>5. CASE CancelRecord
  <2>1. PICK m \in MissionId : m = handler.mission /\ IsOpen(m)
    BY <1>5
       DEF CancelRecord, IInv, SlotInv, HandlerIsCurrent, InCancel, TypeOK,
           Handler, StartHandler
  <2>2. \A n \in MissionId : Phase(n)' = Phase(n)
    BY <1>5 DEF CancelRecord, Phase, storeVars
  <2>3. UNCHANGED [n \in MissionId |-> Phase(n)]
    BY <2>2
  <2>4. CASE acknowledged' = acknowledged
    BY <2>3, <2>4 DEF Lifecycle!lifecycleVars
  <2>5. CASE acknowledged' = acknowledged \cup {m}
    <3>1. Lifecycle!AcknowledgeCancel(m)
      BY <2>1, <2>3, <2>5
         DEF Lifecycle!AcknowledgeCancel, Lifecycle!Open, Phase, IsOpen, Open
    <3>2. Gone = {} /\ m \in MissionId \ Gone
      BY <1>5 DEF CancelRecord, storeVars, Gone, IsSettled
    <3> QED
      BY <1>2, <3>1, <3>2 DEF Lifecycle!Next
  <2> QED
    BY <1>5, <2>1, <2>4, <2>5 DEF CancelRecord
<1>6. CASE \E m \in MissionId : StartPublish(m)
  <2>1. PICK m \in MissionId : StartPublish(m)
    BY <1>6
  <2>2. /\ Publishes(m, "queued") /\ funded[m] = 0 /\ m \notin DOMAIN missions
        /\ \A n \in MissionId \ {m} : funded'[n] = funded[n]
        /\ active = {} /\ UNCHANGED acknowledged
    BY <2>1, StartPublishes
  <2>3. m \notin Gone /\ Lifecycle!Move(m, "queued", Gone)
    BY <1>1, <2>2, PhaseAfterPublish
  <2>4. Phase(m) = "absent"
    BY <2>2 DEF Phase
  <2>5. \A n \in MissionId : Phase(n) \notin {"queued", "running"}
    BY <2>2
       DEF Phase, IInv, SlotInv, SlotTracksMission, IsOpen, Open
  <2>6. Lifecycle!Accept(m, Gone)
    BY <2>2, <2>3, <2>4, <2>5 DEF Lifecycle!Accept, Lifecycle!Open
  <2> QED
    BY <1>2, <2>3, <2>6 DEF Lifecycle!Next
<1>7. CASE Begin
  <2>1. PICK m \in MissionId, s \in {"running", "cancelled", "degraded"} :
          /\ Publishes(m, s) /\ HasStatus(m, "queued")
          /\ s # "running" => (m \in acknowledged <=> s = "cancelled")
          /\ UNCHANGED historyVars
    BY <1>7, BeginPublishes
  <2>2. m \notin Gone /\ Lifecycle!Move(m, s, Gone) /\ UNCHANGED acknowledged
    BY <1>1, <2>1, PhaseAfterPublish DEF historyVars
  <2>3. Phase(m) = "queued"
    BY <2>1 DEF Phase, HasStatus
  <2>4. CASE s = "running"
    <3>1. Lifecycle!Begin(m, Gone)
      BY <2>2, <2>3, <2>4 DEF Lifecycle!Begin
    <3> QED
      BY <1>2, <2>2, <3>1 DEF Lifecycle!Next
  <2>5. CASE s \in {"cancelled", "degraded"}
    <3>1. Lifecycle!Settle(m, s, Gone) /\ s \in Lifecycle!Settled
      BY <2>1, <2>2, <2>3, <2>5
         DEF Lifecycle!Settle, Lifecycle!Open, Lifecycle!Settled
    <3> QED
      BY <1>2, <2>2, <3>1 DEF Lifecycle!Next
  <2> QED
    BY <2>4, <2>5
<1>8. CASE Conclude
  <2>1. PICK m \in MissionId, s \in Settled :
          /\ Publishes(m, s) /\ HasStatus(m, "running")
          /\ m \in acknowledged <=> s = "cancelled"
          /\ UNCHANGED historyVars
    BY <1>8, ConcludePublishes
  <2>2. m \notin Gone /\ Lifecycle!Move(m, s, Gone) /\ UNCHANGED acknowledged
    BY <1>1, <2>1, PhaseAfterPublish DEF historyVars
  <2>3. Phase(m) = "running"
    BY <2>1 DEF Phase, HasStatus
  <2>4. Lifecycle!Settle(m, s, Gone) /\ s \in Lifecycle!Settled
    BY <2>1, <2>2, <2>3
       DEF Lifecycle!Settle, Lifecycle!Open, Lifecycle!Settled, Settled
  <2> QED
    BY <1>2, <2>2, <2>4 DEF Lifecycle!Next
<1> QED
  BY <1>4, <1>5, <1>6, <1>7, <1>8, StepKinds

(* The lifecycle begins with nothing accepted.                              *)
LEMMA LifecycleInit == Init => Lifecycle!Init
BY DEF Init, SlotInit, Store!Init, Lifecycle!Init, Phase

(* The triage coordinator implements the lifecycle its API promises: one    *)
(* mission at a time, accepted once, settled once, cancelled exactly when a *)
(* cancel was acknowledged, forgotten only after it has settled.            *)
THEOREM TriageImplementsLifecycle == Spec => ImplementsLifecycle
<1>1. IInv /\ [Next]_vars => [Lifecycle!Next]_(Lifecycle!lifecycleVars)
  BY LifecycleStep DEF EitherNext
<1> QED
  BY <1>1, LifecycleInit, Inductive, PTL DEF Spec, ImplementsLifecycle, Lifecycle!Spec

(* So does the reconnaissance coordinator.                                  *)
THEOREM ReconImplementsLifecycle == SpecRecon => ImplementsLifecycle
<1>1. IInv /\ [NextRecon]_vars => [Lifecycle!Next]_(Lifecycle!lifecycleVars)
  BY LifecycleStep DEF EitherNext
<1> QED
  BY <1>1, LifecycleInit, ReconInductive, PTL
     DEF SpecRecon, ImplementsLifecycle, Lifecycle!Spec
=============================================================================
