------------------------------ MODULE TsharkRows ------------------------------
(***************************************************************************)
(* How the capture preflight reads TShark: _SystemTsharkRunner.iter_rows   *)
(* and its helpers in scripts/pcap_preflight.py, consumed by               *)
(* parse_tshark_rows.                                                      *)
(*                                                                         *)
(* TShark is a child process that writes rows to a pipe.  A reader thread  *)
(* hands them over in a bounded queue, a second thread drains the child's  *)
(* standard error, and the main thread takes rows out of the queue, counts *)
(* them and waits for the child.  Both ends poll and give up at one        *)
(* deadline.  Rows are told apart only by whether they parse.              *)
(***************************************************************************)
EXTENDS Integers

CONSTANTS MaxRows,      \* bound: rows TShark writes
          PipeSize,     \* rows the operating system's pipe holds
          QueueSize,    \* _STDOUT_QUEUE_MAXSIZE
          MaxStderr,    \* bound: chunks TShark writes to standard error
          StderrLimit   \* _STDERR_LIMIT_BYTES, in chunks

(* Assumed where they get their values.                                     *)
ReaderAssumption == MaxRows \in Nat /\ MaxStderr \in Nat /\ StderrLimit \in Nat

VARIABLES tshark,       \* the child: status, rows and chunks still to write
          pipe,         \* rows in its stdout pipe
          errPipe,      \* chunks in its stderr pipe
          queue,        \* rows in messages
          reader,       \* the reader thread: pc, and its events
          sink,         \* the thread of _BoundedStderrSink
          main,         \* the main thread: pc, rows counted, its outcome
          late,         \* the deadline has passed
          rows          \* rows TShark writes in all, and which is malformed

vars == <<tshark, pipe, errPipe, queue, reader, sink, main, late, rows>>

Running == tshark.status = "running"

(* Popen has returned, the sink's thread runs and the parent's own end of   *)
(* the stderr pipe is closed.  malformed = 0: no row is.                    *)
Init ==
  /\ rows \in {r \in [total : 0..MaxRows, malformed : 0..MaxRows] :
                 r.malformed <= r.total}
  /\ \E code \in {0, 1}, n \in 0..MaxStderr :
       tshark = [status |-> "running", left |-> rows.total, errLeft |-> n,
                 code |-> code]
  /\ pipe = 0 /\ errPipe = 0 /\ queue = 0
  /\ reader = [pc |-> "read", failed |-> FALSE, cancelled |-> FALSE]
  /\ sink = [pc |-> "drain", stored |-> 0]
  /\ main = [pc |-> "get", counted |-> 0, outcome |-> "none"]
  /\ late = FALSE
-----------------------------------------------------------------------------
(* The child.  It blocks on a full pipe, and may hang or fail at any time;  *)
(* once it is dead its pipes can still be read to their end.                *)
WriteRow ==
  /\ Running /\ tshark.left > 0 /\ pipe < PipeSize
  /\ tshark' = [tshark EXCEPT !.left = @ - 1]
  /\ pipe' = pipe + 1
  /\ UNCHANGED <<errPipe, queue, reader, sink, main, late, rows>>

WriteError ==
  /\ Running /\ tshark.errLeft > 0 /\ errPipe < 1
  /\ tshark' = [tshark EXCEPT !.errLeft = @ - 1]
  /\ errPipe' = errPipe + 1
  /\ UNCHANGED <<pipe, queue, reader, sink, main, late, rows>>

(* All rows are written if it exits with 0.                                 *)
Exit ==
  /\ Running
  /\ tshark.code = 0 => tshark.left = 0 /\ tshark.errLeft = 0
  /\ tshark' = [tshark EXCEPT !.status = "exited"]
  /\ UNCHANGED <<pipe, errPipe, queue, reader, sink, main, late, rows>>

Deadline ==
  /\ ~late
  /\ late' = TRUE
  /\ UNCHANGED <<tshark, pipe, errPipe, queue, reader, sink, main, rows>>
-----------------------------------------------------------------------------
(* _BoundedStderrSink._drain: what is over the limit is read and dropped.   *)
Drain ==
  /\ sink.pc = "drain"
  /\ \/ /\ errPipe > 0
        /\ errPipe' = errPipe - 1
        /\ sink' = [sink EXCEPT !.stored = IF @ < StderrLimit THEN @ + 1 ELSE @]
     \/ /\ errPipe = 0 /\ ~Running
        /\ sink' = [sink EXCEPT !.pc = "done"]
        /\ UNCHANGED errPipe
  /\ UNCHANGED <<tshark, pipe, queue, reader, main, late, rows>>

(* drain_stdout: the next line, the end of the stream, or an error.         *)
ReadLine ==
  /\ reader.pc = "read"
  /\ \/ /\ pipe > 0
        /\ pipe' = pipe - 1
        /\ reader' = [reader EXCEPT !.pc = "hand"]
     \/ /\ pipe = 0 /\ ~Running
        /\ reader' = [reader EXCEPT !.pc = "done"]
        /\ UNCHANGED pipe
     \/ /\ reader' = [reader EXCEPT !.pc = "done", !.failed = TRUE]
        /\ UNCHANGED pipe
  /\ UNCHANGED <<tshark, errPipe, queue, sink, main, late, rows>>

(* handoff: given up once cancelled or late, else put as soon as there is   *)
(* room.                                                                    *)
HandOff ==
  /\ reader.pc = "hand"
  /\ \/ /\ reader.cancelled \/ late
        /\ reader' = [reader EXCEPT !.pc = "done"]
        /\ UNCHANGED queue
     \/ /\ ~reader.cancelled /\ ~late /\ queue < QueueSize
        /\ queue' = queue + 1
        /\ reader' = [reader EXCEPT !.pc = "read"]
  /\ UNCHANGED <<tshark, pipe, errPipe, sink, main, late, rows>>
-----------------------------------------------------------------------------
(* The main thread.                                                         *)

(* Leaving _read_stdout_until_deadline in any way cancels the reader.       *)
Raise(code) ==
  /\ main' = [main EXCEPT !.pc = "terminate", !.outcome = code]
  /\ reader' = [reader EXCEPT !.cancelled = TRUE]

(* messages.get with a timeout: a row, or Empty.                            *)
Get ==
  /\ main.pc = "get"
  /\ \/ late /\ Raise("tshark_timeout") /\ UNCHANGED queue
     \/ /\ ~late /\ queue > 0
        /\ queue' = queue - 1
        /\ main' = [main EXCEPT !.pc = "parse"]
        /\ UNCHANGED reader
     \/ /\ ~late /\ queue = 0
        /\ main' = [main EXCEPT !.pc = "empty"]
        /\ UNCHANGED <<queue, reader>>
  /\ UNCHANGED <<tshark, pipe, errPipe, sink, late, rows>>

(* After Empty: the reader's events, as they are by then.                   *)
Empty ==
  /\ main.pc = "empty"
  /\ CASE reader.failed -> Raise("tshark_failed")
       [] ~reader.failed /\ reader.pc = "done" ->
            /\ main' = [main EXCEPT !.pc = "wait"]
            /\ reader' = [reader EXCEPT !.cancelled = TRUE]
       [] OTHER -> main' = [main EXCEPT !.pc = "get"] /\ UNCHANGED reader
  /\ UNCHANGED <<tshark, pipe, errPipe, queue, sink, late, rows>>

(* The body of parse_tshark_rows' loop; a malformed row closes the          *)
(* generator.                                                               *)
Parse ==
  /\ main.pc = "parse"
  /\ IF main.counted + 1 = rows.malformed
       THEN Raise("invalid_tshark_output")
       ELSE /\ main' = [main EXCEPT !.pc = "get", !.counted = @ + 1]
            /\ UNCHANGED reader
  /\ UNCHANGED <<tshark, pipe, errPipe, queue, sink, late, rows>>

(* process.wait(timeout = what is left until the deadline).  A slip: wait   *)
(* without the timeout.                                                     *)
WaitWithoutDeadline ==
  /\ main.pc = "wait"
  /\ ~Running
  /\ main' = [main EXCEPT !.pc = "terminate"]
  /\ UNCHANGED <<tshark, pipe, errPipe, queue, reader, sink, late, rows>>

Wait ==
  /\ main.pc = "wait"
  /\ \/ /\ late
        /\ main' = [main EXCEPT !.pc = "terminate", !.outcome = "tshark_timeout"]
     \/ /\ ~late /\ ~Running
        /\ main' = [main EXCEPT !.pc = "terminate"]
  /\ UNCHANGED <<tshark, pipe, errPipe, queue, reader, sink, late, rows>>

(* The finally clause: the child is killed and waited for if it is alive.   *)
(* A slip: it is left alone.                                                *)
KillNot == UNCHANGED tshark
Kill == tshark' = [tshark EXCEPT !.status = IF Running THEN "killed" ELSE @]

Terminate ==
  /\ main.pc = "terminate"
  /\ Kill
  /\ main' = [main EXCEPT !.pc = "join"]
  /\ UNCHANGED <<pipe, errPipe, queue, reader, sink, late, rows>>

(* The return code, then __exit__ of the sink, which joins its thread.      *)
Join ==
  /\ main.pc = "join"
  /\ sink.pc = "done"
  /\ main' = [main EXCEPT
       !.pc = "done",
       !.outcome = CASE @ # "none" -> @
                     [] @ = "none" /\ ~(tshark.status = "exited" /\ tshark.code = 0) ->
                          "tshark_failed"
                     [] OTHER -> "report"]
  /\ UNCHANGED <<tshark, pipe, errPipe, queue, reader, sink, late, rows>>

Tshark == WriteRow \/ WriteError \/ Exit
Reader == ReadLine \/ HandOff
Main == Get \/ Empty \/ Parse \/ Wait \/ Terminate \/ Join

Next == Tshark \/ Deadline \/ Drain \/ Reader \/ Main

Spec == Init /\ [][Next]_vars

(* Time passes and the threads run; TShark itself may hang.                 *)
Fairness ==
  WF_vars(Deadline) /\ WF_vars(Drain) /\ WF_vars(Reader) /\ WF_vars(Main)
-----------------------------------------------------------------------------
(* A report is only made from a child that exited with 0 before the         *)
(* deadline, whose stream was read without error; no row is malformed that  *)
(* was counted, and none got lost on the way but those still in the queue.  *)
(* Whatever the outcome, the child is dead, the reader was told to stop,    *)
(* and at most the limit of its errors was kept.                            *)
RunnerCleansUp ==
  main.pc = "done" =>
    /\ ~Running
    /\ reader.cancelled /\ sink.pc = "done" /\ sink.stored <= StderrLimit
    /\ main.outcome = "report" =>
         /\ tshark = [status |-> "exited", left |-> 0, errLeft |-> 0, code |-> 0]
         /\ reader.pc = "done" /\ ~reader.failed
         /\ main.counted + queue = rows.total
         /\ rows.malformed \notin 1..main.counted

(* The preflight ends, whatever TShark does, and so do its threads.         *)
PreflightEnds == <>(main.pc = "done" /\ reader.pc = "done" /\ sink.pc = "done")

(* The report counts every packet of the capture: every row that TShark     *)
(* wrote.                                                                   *)
EveryPacketIsCounted ==
  main.pc = "done" /\ main.outcome = "report" => main.counted = rows.total
=============================================================================
