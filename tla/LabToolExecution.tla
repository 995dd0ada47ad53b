-------------------------- MODULE LabToolExecution --------------------------
(***************************************************************************)
(* Executing response tools of one lab run: LabToolExecutor.execute and    *)
(* its SQLite store, backend/app/lab/executors.py and execution_store.py.  *)
(*                                                                         *)
(* Requests name a tool and an idempotency key, together a key here.  They *)
(* arrive at processes that share the database file, each with one         *)
(* connection under one lock.  A lookup, a listing and a whole transaction *)
(* are one step each: BEGIN IMMEDIATE keeps other writers out, and nobody  *)
(* sees what another connection has not committed.                         *)
(*                                                                         *)
(* COMMIT may fail, for example because a reader keeps the file locked     *)
(* longer than the busy timeout.  It is outside the try that rolls back:   *)
(* the transaction then stays open, the connection goes on reading what it *)
(* wrote, and no connection can begin another one.                         *)
(***************************************************************************)
EXTENDS FiniteSets

CONSTANTS Request,     \* requests; an execution is named after its builder
          Process,     \* processes with a connection to the database file
          Key,         \* (tool_id, idempotency_key) of one run
          BundleKey,   \* those whose tool is the evidence bundle
          NoExecution,
          NoKey,
          NoProcess

ASSUME LabAssumption ==
  /\ BundleKey \subseteq Key
  /\ NoExecution \notin Request
  /\ NoKey \notin Key
  /\ NoProcess \notin Process

VARIABLES pc,           \* where the request's thread is
          process,      \* the process that serves the request
          key,          \* the request's key
          prior,        \* executions named in the evidence bundle it built
          answer,       \* what execute returned: execution and newly_created
          rows,         \* committed executions, with their case or artifact
          uncommitted   \* what a connection wrote in a transaction left open

vars == <<pc, process, key, prior, answer, rows, uncommitted>>

Pc == {"idle", "looking", "listing", "committing", "committed", "returned",
       "lost"}

Failed == [execution |-> NoExecution, new |-> FALSE]

LabTypeOK ==
  /\ pc \in [Request -> Pc]
  /\ process \in [Request -> Process \cup {NoProcess}]
  /\ key \in [Request -> Key \cup {NoKey}]
  /\ prior \in [Request -> SUBSET Request]
  /\ answer \in [Request -> [execution : Request \cup {NoExecution},
                             new : BOOLEAN]]
  /\ rows \subseteq Request
  /\ uncommitted \in [Process -> SUBSET Request]

Init ==
  /\ pc = [r \in Request |-> "idle"]
  /\ process = [r \in Request |-> NoProcess]
  /\ key = [r \in Request |-> NoKey]
  /\ prior = [r \in Request |-> {}]
  /\ answer = [r \in Request |-> Failed]
  /\ rows = {}
  /\ uncommitted = [p \in Process |-> {}]
-----------------------------------------------------------------------------
(* A connection reads what is committed and what it wrote itself.           *)
Visible(p) == rows \cup uncommitted[p]

(* The executions a process finds under a key.                              *)
Existing(p, k) == {e \in Visible(p) : key[e] = k}

OthersOpen(p) == \E q \in Process \ {p} : uncommitted[q] # {}

(* Slips: joining a transaction that is open, and rolling it back first.    *)
JoinOpen(p) == IF OthersOpen(p) THEN {} ELSE {uncommitted[p]}
BeginAfresh(p) == IF OthersOpen(p) THEN {} ELSE {{}}

(* BEGIN IMMEDIATE: what the new transaction holds, if it can begin.  It    *)
(* fails while a transaction is open, be it this connection's own.          *)
Begun(p) == IF OthersOpen(p) \/ uncommitted[p] # {} THEN {} ELSE {{}}

Return(r, a) ==
  /\ pc' = [pc EXCEPT ![r] = "returned"]
  /\ answer' = [answer EXCEPT ![r] = a]
-----------------------------------------------------------------------------
(* The run is in the run store, and execute begins.                         *)
Receive(r, p, k) ==
  /\ pc[r] = "idle"
  /\ pc' = [pc EXCEPT ![r] = "looking"]
  /\ process' = [process EXCEPT ![r] = p]
  /\ key' = [key EXCEPT ![r] = k]
  /\ UNCHANGED <<prior, answer, rows, uncommitted>>

(* get_by_idempotency finds the key: the execution is replayed.             *)
Replay(r) ==
  /\ pc[r] = "looking"
  /\ \E e \in Existing(process[r], key[r]) :
       Return(r, [execution |-> e, new |-> FALSE])
  /\ UNCHANGED <<process, key, prior, rows, uncommitted>>

(* It does not, and the execution is built.                                 *)
Build(r) ==
  /\ pc[r] = "looking"
  /\ Existing(process[r], key[r]) = {}
  /\ pc' = [pc EXCEPT ![r] = IF key[r] \in BundleKey THEN "listing"
                                                     ELSE "committing"]
  /\ UNCHANGED <<process, key, prior, answer, rows, uncommitted>>

(* The evidence bundle names the executions of the run so far.              *)
ListPrior(r) ==
  /\ pc[r] = "listing"
  /\ prior' = [prior EXCEPT ![r] = Visible(process[r])]
  /\ pc' = [pc EXCEPT ![r] = "committing"]
  /\ UNCHANGED <<process, key, answer, rows, uncommitted>>

(* A slip: executions are told apart by their id, not by their key.         *)
ContestedById(r) == {e \in Visible(process[r]) : e = r}

(* Executions of the same key that were committed since the first lookup.   *)
(* The lookup inside the transaction finds them; the UNIQUE constraint,     *)
(* which leads to the same answer, stands behind it.                        *)
Contested(r) == Existing(process[r], key[r])

(* commit_result inserts the execution with its case or artifact.           *)
Commit(r) ==
  /\ pc[r] = "committing"
  /\ Contested(r) = {}
  /\ \E t \in Begun(process[r]) : rows' = rows \cup t \cup {r}
  /\ uncommitted' = [uncommitted EXCEPT ![process[r]] = {}]
  /\ pc' = [pc EXCEPT ![r] = "committed"]
  /\ UNCHANGED <<process, key, prior, answer>>

(* It finds the key taken: somebody else's execution is returned.           *)
ReplayContested(r) ==
  /\ pc[r] = "committing"
  /\ Begun(process[r]) # {}
  /\ \E e \in Contested(r) : Return(r, [execution |-> e, new |-> FALSE])
  /\ UNCHANGED <<process, key, prior, rows, uncommitted>>

(* COMMIT raises and leaves the transaction open.                           *)
CommitLeftOpen(r) ==
  /\ pc[r] = "committing"
  /\ Contested(r) = {}
  /\ \E t \in Begun(process[r]) :
       uncommitted' = [uncommitted EXCEPT ![process[r]] = t \cup {r}]
  /\ Return(r, Failed)
  /\ UNCHANGED <<process, key, prior, rows>>

(* A read raises, the transaction cannot begin, an insert raises and is     *)
(* rolled back, or COMMIT raises and SQLite has rolled back.                *)
PersistenceFails(r) ==
  /\ pc[r] \in {"looking", "listing", "committing"}
  /\ Return(r, Failed)
  /\ UNCHANGED <<process, key, prior, rows, uncommitted>>

(* What was committed is reported as new.                                   *)
RespondCreated(r) ==
  /\ pc[r] = "committed"
  /\ Return(r, [execution |-> r, new |-> TRUE])
  /\ UNCHANGED <<process, key, prior, rows, uncommitted>>

Execute(r) ==
  \/ Replay(r)
  \/ Build(r)
  \/ ListPrior(r)
  \/ Commit(r)
  \/ ReplayContested(r)
  \/ CommitLeftOpen(r)
  \/ PersistenceFails(r)
  \/ RespondCreated(r)

InProgress(r) == pc[r] \notin {"idle", "returned", "lost"}

(* A process stops, at any point, and is started again: its requests get no *)
(* answer, and SQLite drops what was not committed.                         *)
Restart(p) ==
  /\ \/ uncommitted[p] # {}
     \/ \E r \in Request : process[r] = p /\ InProgress(r)
  /\ pc' = [r \in Request |-> IF process[r] = p /\ InProgress(r) THEN "lost"
                                                                 ELSE pc[r]]
  /\ uncommitted' = [uncommitted EXCEPT ![p] = {}]
  /\ UNCHANGED <<process, key, prior, answer, rows>>

Next ==
  \/ \E r \in Request, p \in Process, k \in Key : Receive(r, p, k)
  \/ \E r \in Request : Execute(r)
  \/ \E p \in Process : Restart(p)

Spec == Init /\ [][Next]_vars
-----------------------------------------------------------------------------
(* However many requests carry a key, whatever process serves them and      *)
(* whatever failed before, at most one execution of it is ever persisted.   *)
OneExecutionPerKey ==
  \A d, e \in rows : key[d] = key[e] => d = e

(* Receipt and state succeed or fail together: a request that was answered  *)
(* as having created its execution has it persisted, and one that was       *)
(* answered otherwise has left nothing behind, not even later.              *)
PersistedIffCreated ==
  \A r \in Request : pc[r] = "returned" => (answer[r].new <=> r \in rows)

(* A persisted evidence bundle names persisted executions only, although    *)
(* it lists them before its own transaction, and from a connection that     *)
(* may be reading what it never committed.                                  *)
BundleNamesPersisted ==
  \A r \in rows : prior[r] \subseteq rows

(* A success that is answered is persisted: a database that cannot be       *)
(* written gives no receipts.                                               *)
ReceiptIsPersisted ==
  \A r \in Request : answer[r].execution # NoExecution
                       => answer[r].execution \in rows
=============================================================================
