------------------------------- MODULE LabRuns -------------------------------
(***************************************************************************)
(* The runs of the security lab: backend/app/lab/service.py with its run   *)
(* store (store.py), the simulated tools (tools.py), and the handlers of   *)
(* api/lab.py.                                                             *)
(*                                                                         *)
(* The run store is the mission store's design (store.py of superagent/)   *)
(* without active entries: an OrderedDict with a capacity and a time to    *)
(* live, and a ring of expired ids.  The service holds no lock of its own: *)
(* a simulated tool reads the run, computes, and puts the run back.        *)
(*                                                                         *)
(* A run is the decision of its analysis and the last result of each tool; *)
(* its case report repeats them.  Confirmed executions are kept elsewhere, *)
(* in SQLite (LabToolExecution): here as a set that only grows.            *)
(***************************************************************************)
EXTENDS Integers, FiniteSets

CONSTANTS Run,          \* ids of runs
          Client,       \* clients that ask for simulated tools
          NoRun,
          RunTTL,       \* ttl_seconds of the run store
          RunCapacity,  \* its capacity
          RingPerSlot,  \* ring length / capacity
          ClientTool,   \* bound: tools that clients ask for
          MaxRunPuts,   \* bound: puts of runs
          MaxClock      \* bound: last instant of the monotonic clock

VARIABLES runs,         \* id -> [at, rank, body]
          expiredRuns,  \* the ring of expired ids
          runPuts,      \* puts so far
          clock,        \* time.monotonic()
          created,      \* ids create_run has given out
          requests,     \* client -> its request for a simulated tool
          executions,   \* committed executions: by whom, in which run, what
          answered,     \* history: run -> tool -> result answered last
          overlapped    \* history: runs that two requests changed at a time

runVars == <<runs, expiredRuns, runPuts, created>>
labVars == <<runVars, requests, executions, answered, overlapped>>

Tool == {"gateway", "case", "bundle"}
Decision == {"allow", "review", "sanitize", "block"}
Status == {"succeeded", "failed"}

Results == [Tool -> Status \cup {"none"}]
NoResults == [t \in Tool |-> "none"]
RunBody == [decision : Decision, results : Results]

Store == INSTANCE SuperAgentMissionStore
           WITH StoredId <- Run, Body <- RunBody, ActiveBody <- {},
                StoreTTL <- RunTTL, StoreCapacity <- RunCapacity,
                MaxPuts <- MaxRunPuts, missions <- runs, expired <- expiredRuns,
                puts <- runPuts

Idle == [pc |-> "idle", run |-> NoRun, tool |-> "none", status |-> "none",
         held |-> [decision |-> "none", results |-> NoResults]]

LabInit ==
  /\ Store!Init
  /\ created = {}
  /\ requests = [c \in Client |-> Idle]
  /\ executions = {}
  /\ answered = [r \in Run |-> NoResults]
  /\ overlapped = {}
-----------------------------------------------------------------------------
(* LabRunStore.                                                             *)
PutRun(r, body) == runPuts < MaxRunPuts /\ Store!Put(r, body)
PurgeRuns == Store!Purge
HasRun(r) == Store!Found(r)

(* create_run: a fresh id; whatever raises before the put leaves nothing.   *)
CreateRun(r, decision) ==
  /\ r \in Run \ created
  /\ PutRun(r, [decision |-> decision, results |-> NoResults])
  /\ created' = created \cup {r}

(* POST /runs.  Nothing depends on the decision of a client's own run.      *)
PostRun ==
  /\ \E r \in Run : CreateRun(r, "review")
  /\ UNCHANGED <<clock, requests, executions, answered, overlapped>>

(* get_run, metrics and any other call that only reads.                     *)
ReadRuns ==
  /\ PurgeRuns
  /\ UNCHANGED <<clock, created, requests, executions, answered, overlapped>>

Tick ==
  /\ clock < MaxClock
  /\ clock' = clock + 1
  /\ UNCHANGED labVars
-----------------------------------------------------------------------------
(* run_tool.                                                                *)

(* A slip: the results of the other tools are not carried over.             *)
OnlyThisResult(results, tool, status) == [NoResults EXCEPT ![tool] = status]
WithResult(results, tool, status) == [results EXCEPT ![tool] = status]

Computing(r) == {c \in Client : requests[c].pc = "computing" /\ requests[c].run = r}

(* The run is read; it may be gone, which answers 410 or 404.               *)
ToolReads(c) ==
  /\ requests[c].pc = "idle"
  /\ PurgeRuns
  /\ \E r \in created, t \in ClientTool, s \in Status :
       IF HasRun(r)
         THEN /\ requests' = [requests EXCEPT
                   ![c] = [pc |-> "computing", run |-> r, tool |-> t,
                           status |-> s, held |-> runs[r].body]]
              /\ overlapped' = IF Computing(r) = {} THEN overlapped
                                                    ELSE overlapped \cup {r}
         ELSE UNCHANGED <<requests, overlapped>>
  /\ UNCHANGED <<clock, created, executions, answered>>

(* execute_dry_run succeeds or was asked to fail; the new result replaces   *)
(* that of the same tool, and the run is put back, whatever became of it.   *)
ToolPuts(c) ==
  LET q == requests[c] IN
  /\ q.pc = "computing"
  /\ PutRun(q.run, [q.held EXCEPT
                      !.results = WithResult(@, q.tool, q.status)])
  /\ requests' = [requests EXCEPT ![c] = Idle]
  /\ answered' = [answered EXCEPT ![q.run][q.tool] = q.status]
  /\ UNCHANGED <<clock, created, executions, overlapped>>
-----------------------------------------------------------------------------
(* execute_tool: the run must still be there.  The executor answers with an *)
(* execution it has committed, or a failure.  Here missions call it; for a  *)
(* client it is one more reader of the run store.                           *)
Execute(by, r, t, status) ==
  /\ HasRun(r)
  /\ executions' = IF status = "succeeded"
                     THEN executions \cup {[by |-> by, run |-> r, tool |-> t]}
                     ELSE executions

LabNext ==
  \/ PostRun
  \/ ReadRuns
  \/ \E c \in Client : ToolReads(c) \/ ToolPuts(c)
-----------------------------------------------------------------------------
(* A result that was answered is in the stored run, with those of the other *)
(* tools, unless requests for the same run overlapped.  That holds although *)
(* a run may expire or be evicted, and be put back by a request that still  *)
(* held it, in which case it comes back whole.                              *)
ResultsAreKept ==
  \A r \in DOMAIN runs \ overlapped : runs[r].body.results = answered[r]
=============================================================================
