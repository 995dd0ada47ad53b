--------------------------- MODULE PcapMissionSlot ---------------------------
(***************************************************************************)
(* What the PCAP mission coordinators of backend/app/superagent have in    *)
(* common: each serves one mission at a time (its slot), accepts it under  *)
(* its RLock in exchange for an authorization, publishes it in the mission *)
(* store and hands it to a ThreadPoolExecutor of one thread.  Both stores  *)
(* are shared with the other coordinators.                                 *)
(*                                                                         *)
(* Threads: any number of API handlers, the pool's one worker, and the     *)
(* lifespan thread that calls close.  The coordinator's lock orders them;  *)
(* a step is what a thread does between two points where another thread    *)
(* that does not need that lock can be observed.  Such threads issue       *)
(* authorizations, or put and read missions of the other coordinators.     *)
(*                                                                         *)
(* What cancel and the worker do differs between the coordinators: the     *)
(* modules that extend this one add it.  Trace events, the public report   *)
(* and the timestamps are functions of the status and the summary and are  *)
(* left out.                                                               *)
(***************************************************************************)
EXTENDS Integers, FiniteSets, Sequences

CONSTANTS MissionId,    \* ids of this coordinator's missions (each a uuid4)
          ForeignId,    \* ids of missions of the store's other clients
          NoMission,    \* not a mission id
          MaxForeignActive,  \* other coordinators: each runs one mission
          Purpose,      \* what an authorization may be issued for
          OwnPurpose,   \* the purpose this coordinator accepts
          \* the constants of the two stores
          AuthTTL, AuthCapacity, MaxIssued,
          StoreTTL, StoreCapacity, RingPerSlot,
          MaxPuts,      \* bound: puts by the store's other clients stop here
          MaxClock      \* bound: last instant of the monotonic clock

StoredId == MissionId \cup ForeignId

Open == {"queued", "running"}
Settled == {"completed", "degraded", "cancelled"}     \* _TERMINAL_STATUSES
Status == Open \cup Settled

(* The summary of the inspected files, by what tells outcomes apart: all    *)
(* the selected files were inspected, all were but some failed, some are    *)
(* left, or the executor saw a cancel and left some out.                    *)
Summary == {"none", "clean", "failures", "partial", "stopped"}

Body == [status : Status, summary : Summary]
ActiveBody == [status : Open, summary : Summary]

(* main.py builds one store for three coordinators and leaves its capacity  *)
(* at 32: there is room for all their missions at once.                     *)
ASSUME CoordinatorAssumption ==
  /\ OwnPurpose \in Purpose
  /\ NoMission \notin StoredId
  /\ MissionId \cap ForeignId = {}
  /\ AuthTTL \in Nat \ {0} /\ AuthCapacity \in Nat \ {0}
  /\ StoreTTL \in Nat \ {0} /\ StoreCapacity \in Nat \ {0}
  /\ RingPerSlot \in Nat \ {0}
  /\ MaxIssued \in Nat /\ MaxPuts \in Nat /\ MaxClock \in Nat
  /\ MaxForeignActive \in Nat
  /\ StoreCapacity > MaxForeignActive

VARIABLES authorizations, issued, grants,   \* PcapAuthorizationStore
          missions, expired, puts,          \* SuperAgentMissionStore
          clock,
          active,           \* ids that hold the slot
          cancelRequested,  \* ids whose cancel was accepted
          queue,            \* the pool's work queue
          worker,           \* the pool's thread: a record with field pc
          handler,          \* the handler that holds the lock across steps
          closer,           \* the thread in close(); _closed is closer # "open"
          closing,          \* close's snapshot of active, what is left of it
          funded,           \* history: mission -> token consumed for it, or 0
          acknowledged      \* history: missions whose cancel was accepted

Auth == INSTANCE PcapAuthorization
Store == INSTANCE SuperAgentMissionStore

authVars == <<authorizations, issued, grants>>
storeVars == <<missions, expired, puts>>
workVars == <<active, cancelRequested, queue, worker>>
closeVars == <<closer, closing>>
historyVars == <<funded, acknowledged>>
slotVars == <<authVars, storeVars, clock, workVars, handler, closeVars,
              historyVars>>

(* What a handler has done so far while it holds the lock.                  *)
Free == [op |-> "free"]
StartHandler ==
  [op : {"free"}] \cup [op : {"consume", "publish"}, token : 1..MaxIssued]

(* Beside some operators stand faulty variants, each named for the slip in  *)
(* the code that it stands for: here no lock at all, and a close that would *)
(* wait for the pool with the lock in its hands.                            *)
NoLock == TRUE
LockHeldByClose == handler = Free /\ closer # "draining"

LockFree == handler = Free

CloserPc == {"open", "cancelling", "draining", "stopped", "failed"}

SlotTypeOK ==
  /\ Auth!AuthTypeOK
  /\ Store!StoreTypeOK
  /\ active \subseteq MissionId
  /\ cancelRequested \subseteq MissionId
  /\ queue \in Seq(MissionId)
  /\ closer \in CloserPc
  /\ closing \subseteq MissionId
  /\ funded \in [MissionId -> 0..MaxIssued]
  /\ acknowledged \subseteq MissionId

(* The worker starts idle; how that looks is the extending module's.        *)
SlotInit ==
  /\ Auth!Init
  /\ Store!Init
  /\ active = {} /\ cancelRequested = {}
  /\ queue = <<>>
  /\ handler = Free
  /\ closer = "open" /\ closing = {}
  /\ funded = [m \in MissionId |-> 0]
  /\ acknowledged = {}

IsOpen(m) == m \in DOMAIN missions /\ missions[m].body.status \in Open
IsSettled(m) == m \in DOMAIN missions /\ missions[m].body.status \in Settled

(* What a client that knows m can be told about it.                         *)
Phase(m) ==
  CASE m \in DOMAIN missions -> missions[m].body.status
    [] m \notin DOMAIN missions /\ funded[m] = 0 -> "absent"
    [] OTHER -> "forgotten"
-----------------------------------------------------------------------------
(* Steps of threads that never take the coordinator's lock.                 *)

Issue(p) ==
  /\ Auth!Issue(p)
  /\ UNCHANGED <<storeVars, workVars, handler, closeVars, historyVars>>

Tick ==
  /\ Auth!Tick
  /\ UNCHANGED <<storeVars, workVars, handler, closeVars, historyVars>>

ForeignActive == {f \in ForeignId : IsOpen(f)}

(* Another coordinator accepts a mission (each has at most one), or any     *)
(* client of the store puts a finished one.                                 *)
ForeignPut(f) ==
  /\ puts < MaxPuts
  /\ \E status \in {"running", "completed"} :
       /\ status = "running" => /\ f \notin DOMAIN missions
                                /\ Cardinality(ForeignActive) < MaxForeignActive
       /\ status = "completed" => ~IsSettled(f)
       /\ Store!Put(f, [status |-> status, summary |-> "none"])
  /\ UNCHANGED <<authVars, clock, workVars, handler, closeVars, historyVars>>

(* A lab mission is refused when the store holds nothing but active ones.   *)
ForeignPutRefused(f) ==
  /\ Store!PutRefused(f)
  /\ UNCHANGED <<authVars, clock, workVars, handler, closeVars, historyVars>>

(* GET of any mission, snapshot for the metrics.                            *)
ReadStore ==
  /\ Store!Purge
  /\ UNCHANGED <<authVars, clock, workVars, handler, closeVars, historyVars>>

Environment ==
  \/ \E p \in Purpose : Issue(p)
  \/ Tick
  \/ \E f \in ForeignId : ForeignPut(f) \/ ForeignPutRefused(f)
  \/ ReadStore
-----------------------------------------------------------------------------
(* start(request), under the lock: assert_usable and the capacity check,    *)
(* then consume, then publish the queued mission and submit it.             *)

StartCheck(t) ==
  /\ LockFree
  /\ closer = "open"
  /\ Auth!Usable(t, OwnPurpose)
  /\ active = {}
  /\ handler' = [op |-> "consume", token |-> t]
  /\ UNCHANGED <<authVars, storeVars, clock, workVars, closeVars, historyVars>>

StartConsume ==
  /\ handler.op = "consume"
  /\ \/ /\ Auth!Consume(handler.token, OwnPurpose)
        /\ handler' = [handler EXCEPT !.op = "publish"]
     \/ /\ ~Auth!Usable(handler.token, OwnPurpose)     \* raises: now too late
        /\ handler' = Free
        /\ UNCHANGED <<authVars, clock>>
  /\ UNCHANGED <<storeVars, workVars, closeVars, historyVars>>


(* A fresh uuid.                                                            *)
Fresh(m) == funded[m] = 0

(* put cannot refuse the mission: see StoreAdmitsMission.                   *)
StartPublish(m) ==
  /\ handler.op = "publish"
  /\ Fresh(m)
  /\ Store!Put(m, [status |-> "queued", summary |-> "none"])
  /\ funded' = [funded EXCEPT ![m] = handler.token]
  /\ active' = active \cup {m}
  /\ queue' = Append(queue, m)
  /\ handler' = Free
  /\ UNCHANGED <<authVars, clock, cancelRequested, worker, closeVars,
                 acknowledged>>

Start ==
  \/ \E t \in 1..MaxIssued : StartCheck(t)
  \/ StartConsume
  \/ \E m \in MissionId : StartPublish(m)
-----------------------------------------------------------------------------
(* close(), called when the application shuts down: it cancels the missions *)
(* that hold the slot and waits for the pool.                               *)

CloseBegin ==
  /\ LockFree
  /\ closer = "open"
  /\ closer' = "cancelling"
  /\ closing' = active
  /\ UNCHANGED <<authVars, storeVars, clock, workVars, handler, historyVars>>

(* close calls cancel for every id of its snapshot, API handlers for any.   *)
CallsCancel(m, byClose) ==
  byClose => closer = "cancelling" /\ m \in closing

CloseDrain ==
  /\ closer = "cancelling"
  /\ closing = {}
  /\ closer' = "draining"
  /\ UNCHANGED <<authVars, storeVars, clock, workVars, handler, closing,
                 historyVars>>

PoolNotWaitedFor == TRUE
PoolIdle == queue = <<>> /\ worker.pc = "idle"

(* pool.shutdown(wait=True, cancel_futures=False) returns.                  *)
CloseDone ==
  /\ closer = "draining"
  /\ PoolIdle
  /\ closer' = "stopped"
  /\ UNCHANGED <<authVars, storeVars, clock, workVars, handler, closing,
                 historyVars>>
-----------------------------------------------------------------------------
(* A handler that took the lock goes on to release it.  Nothing makes       *)
(* clients call, or the application shut down.                              *)
SlotFairness ==
  /\ WF_slotVars(StartConsume)
  /\ WF_slotVars(\E m \in MissionId : StartPublish(m))
  /\ WF_slotVars(CloseDrain)
  /\ WF_slotVars(CloseDone)

(* Whatever the other coordinators and the lab put, the store has room for  *)
(* the mission whose token was just consumed, so the token is not wasted.   *)
StoreAdmitsMission ==
  handler.op = "publish" =>
    \A m \in MissionId : funded[m] = 0 => Store!PutAccepted(m)

(* One consumed token, one mission: a request refused because the slot is   *)
(* taken does not use its token up, and a token never pays twice.           *)
TokenFundsOneMission ==
  \A t \in 1..MaxIssued :
    LET paid == Cardinality({m \in MissionId : funded[m] = t})
        due  == IF handler.op = "publish" /\ handler.token = t THEN 1 ELSE 0
    IN  grants[t] = paid + due /\ grants[t] <= 1

(* A client that was told its cancel is under way sees "cancelled" in the   *)
(* end, and nobody else sees it.                                            *)
CancelHonoured ==
  \A m \in MissionId :
    IsSettled(m) => (m \in acknowledged <=> missions[m].body.status = "cancelled")

(* However close() ends, normally or by an exception out of cancel, no      *)
(* mission is left open in the store with nobody to settle it.              *)
ClosedMeansDone ==
  closer \in {"stopped", "failed"} => /\ \A m \in MissionId : ~IsOpen(m)
                                      /\ queue = <<>>
                                      /\ handler.op \notin {"consume", "publish"}

(* Detection and reconnaissance show statistics of the whole sample only:   *)
(* what is settled with the summary of a loop that was cut short was        *)
(* degraded by a refused cancel, and a cancelled mission shows none.        *)
StatisticsAreWhole ==
  \A m \in MissionId :
    IsSettled(m) /\ missions[m].body.summary = "stopped"
      => missions[m].body.status = "degraded"

(* What was published as the outcome is not changed afterwards: the mission *)
(* may only disappear.                                                      *)
OutcomeIsFinal ==
  [][\A m \in MissionId :
       IsSettled(m) /\ m \in DOMAIN missions' => missions'[m] = missions[m]]_slotVars

(* Every accepted mission is settled, cancelled or not, and frees the slot. *)
MissionSettles == \A m \in MissionId : IsOpen(m) ~> m \notin active

(* close() returns or raises: it does not wait for ever.                    *)
CloseReturns == closer = "cancelling" ~> closer \in {"stopped", "failed"}
=============================================================================
