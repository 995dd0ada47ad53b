------------------------ MODULE PcapDetectionExecutor ------------------------
(***************************************************************************)
(* One call of execute of the PCAP detection executor,                     *)
(* backend/app/pcap/detection_executor.py.                                 *)
(*                                                                         *)
(* The selected captures are submitted to a thread pool of their own and   *)
(* inspected by one subprocess each.  The caller's thread takes their      *)
(* results as they finish, in any order, reports after each of them a      *)
(* summary of what it has so far in the order of the captures, and looks   *)
(* before each of them whether a cancel was requested.  It leaves the      *)
(* pool's with block, which waits for the pool, and then summarises.       *)
(*                                                                         *)
(* A report is a set of evidence ids.  Ids are content hashes: captures    *)
(* may share them, and then only the first in order keeps them.            *)
(***************************************************************************)
EXTENDS Integers, FiniteSets, FiniteSetsExt

CONSTANTS MaxFiles,      \* bound: captures selected
          MaxWorkers,    \* _MAX_WORKERS
          EvidenceId,    \* evidence ids a report may have
          MaxEvidence,   \* most pieces of evidence a public summary holds
          Failed         \* nonzero exit, timeout or an invalid report

(* Whoever gives the constants their values assumes it.                     *)
ExecutorAssumption ==
  /\ MaxFiles \in Nat
  /\ MaxWorkers \in Nat \ {0}
  /\ MaxEvidence \in Nat

VARIABLES selected,         \* number of captures found: they are 1..selected
          started,          \* captures whose inspection was begun
          report,           \* finished capture -> its evidence, or Failed
          completed,        \* captures whose result the caller has taken
          pc,               \* where the caller's thread is
          cancelRequested,  \* this detection's id is in _cancel_requested
          progress,         \* the last summary given to on_progress
          result,           \* what execute returned
          startedLate       \* history: begun after the caller saw the cancel

vars == <<selected, started, report, completed, pc, cancelRequested, progress,
          result, startedLate>>

None == [succeeded |-> {}, failed |-> {}, evidence |-> {}]

Report == {ids \in SUBSET EvidenceId : Cardinality(ids) <= MaxEvidence}
            \cup {Failed}
Captures == 1..selected
Finished == DOMAIN report
Running == started \ Finished

(* A mission that was queued may be cancelled already.                      *)
Init ==
  /\ selected = 0
  /\ started = {}
  /\ report = [c \in {} |-> {}]
  /\ completed = {}
  /\ pc = "listing"
  /\ cancelRequested \in BOOLEAN
  /\ progress = None /\ result = None
  /\ startedLate = {}
-----------------------------------------------------------------------------
(* _summary_from_results on captures in a given order: a report that shares *)
(* evidence with one accepted before it counts as failed.                   *)
Accept(sum, c) ==
  IF report[c] = Failed \/ report[c] \cap sum.evidence # {}
    THEN [sum EXCEPT !.failed = @ \cup {c}]
    ELSE [sum EXCEPT !.succeeded = @ \cup {c},
                     !.evidence = @ \cup report[c]]

(* The results in the order of the captures: a capture is accepted after    *)
(* those before it.  A slip: the order in which the results were taken,     *)
(* here the reverse of the captures' order, instead of the sorted one.      *)
ReverseSummary(S) ==
  MapThenFoldSet(LAMBDA c, sum : Accept(sum, c), None, LAMBDA c : c, Min, S)

SummaryFromResults(S) ==
  MapThenFoldSet(LAMBDA c, sum : Accept(sum, c), None, LAMBDA c : c, Max, S)

(* PcapDetectionSummary refuses more evidence than a public result holds.   *)
Publishable(sum) == Cardinality(sum.evidence) <= MaxEvidence
-----------------------------------------------------------------------------
(* captures[start_index:start_index + max_files].                          *)
Selectable == 0..MaxFiles

(* The captures are listed and submitted.  A listing that fails raises, and *)
(* does so before the try that forgets the cancel.                          *)
ListCaptures ==
  /\ pc = "listing"
  /\ \/ pc' = "collecting" /\ selected' \in Selectable
     \/ pc' = "raised" /\ UNCHANGED selected
  /\ UNCHANGED <<started, report, completed, cancelRequested, progress, result,
                 startedLate>>

(* A thread of the pool takes the first capture in the queue.  The pool     *)
(* takes no notice of the cancel.                                           *)
StartCapture ==
  /\ Cardinality(Running) < MaxWorkers
  /\ started # Captures
  /\ LET c == Min(Captures \ started) IN
       /\ started' = started \cup {c}
       /\ startedLate' = IF pc = "stopping" THEN startedLate \cup {c}
                                            ELSE startedLate
  /\ UNCHANGED <<selected, report, completed, pc, cancelRequested, progress,
                 result>>

(* _inspect_capture returns or raises, at the latest by its timeout.        *)
FinishCapture ==
  /\ \E c \in Running, r \in Report :
       report' = [d \in Finished \cup {c} |-> IF d = c THEN r ELSE report[d]]
  /\ UNCHANGED <<selected, started, completed, pc, cancelRequested, progress,
                 result, startedLate>>

RequestCancel ==
  /\ pc \notin {"returned", "raised"}
  /\ cancelRequested' = TRUE
  /\ UNCHANGED <<selected, started, report, completed, pc, progress, result,
                 startedLate>>

(* The next future of as_completed, unless a cancel is seen first.          *)
Collect ==
  /\ pc = "collecting"
  /\ \E c \in Finished \ completed :
       IF cancelRequested
         THEN pc' = "stopping" /\ UNCHANGED completed
         ELSE pc' = "reporting" /\ completed' = completed \cup {c}
  /\ UNCHANGED <<selected, started, report, cancelRequested, progress, result,
                 startedLate>>

(* on_progress, or nothing if the summary would not be public.              *)
ReportProgress ==
  /\ pc = "reporting"
  /\ LET sum == SummaryFromResults(completed)
     IN  progress' = IF Publishable(sum) THEN sum ELSE progress
  /\ pc' = "collecting"
  /\ UNCHANGED <<selected, started, report, completed, cancelRequested, result,
                 startedLate>>

AllCollected ==
  /\ pc = "collecting"
  /\ completed = Captures
  /\ pc' = "leaving"
  /\ UNCHANGED <<selected, started, report, completed, cancelRequested,
                 progress, result, startedLate>>

(* A slip: waiting for results that nobody takes.                           *)
WaitsForResults == completed = Captures
PoolIdle == Finished = Captures

(* The with block is left when every capture is inspected, also after a     *)
(* cancel; then the cancel is forgotten, and the summary made.              *)
Leave ==
  /\ pc \in {"stopping", "leaving"}
  /\ PoolIdle
  /\ cancelRequested' = FALSE
  /\ LET sum == SummaryFromResults(completed)
     IN  /\ pc' = IF Publishable(sum) THEN "returned" ELSE "raised"
         /\ result' = IF Publishable(sum) THEN sum ELSE result
  /\ UNCHANGED <<selected, started, report, completed, progress, startedLate>>

Terminated == pc \in {"returned", "raised"} /\ UNCHANGED vars

Next ==
  \/ ListCaptures
  \/ StartCapture
  \/ FinishCapture
  \/ RequestCancel
  \/ Collect
  \/ ReportProgress
  \/ AllCollected
  \/ Leave
  \/ Terminated

Spec == Init /\ [][Next]_vars

(* Threads that can go on do, and every subprocess has a timeout.           *)
Fairness ==
  /\ WF_vars(StartCapture)
  /\ WF_vars(FinishCapture)
  /\ WF_vars(ListCaptures \/ Collect \/ ReportProgress \/ AllCollected \/ Leave)

FairSpec == Spec /\ Fairness
-----------------------------------------------------------------------------
(* Which capture is charged with shared evidence does not depend on which   *)
(* inspection was faster: the result of a mission that was not cut short is *)
(* the one of inspecting its captures one after the other.                  *)
Accepted[c \in 0..MaxFiles] ==
  IF c = 0 THEN {}
  ELSE IF /\ report[c] # Failed
          /\ \A d \in Accepted[c - 1] : report[d] \cap report[c] = {}
    THEN Accepted[c - 1] \cup {c}
    ELSE Accepted[c - 1]

ResultIgnoresTiming ==
  pc = "returned" /\ completed = Captures =>
    /\ result.succeeded = Accepted[selected]
    /\ result.failed = Captures \ Accepted[selected]
    /\ result.evidence = UNION {report[c] : c \in Accepted[selected]}

(* When execute is over no container of it is left running: the terminal    *)
(* status that the coordinator publishes then comes after the clean-up.     *)
NothingRunsAfterwards == pc \in {"returned", "raised"} => Running = {}

(* A cancel stops the scheduling of captures: once it was seen no further   *)
(* inspection begins.                                                       *)
CancelStopsScheduling == startedLate = {}

(* execute ends, cancelled or not.                                          *)
ExecuteEnds == <>(pc \in {"returned", "raised"})
=============================================================================
