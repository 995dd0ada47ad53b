--------------------------- MODULE PcapPartsProofs ---------------------------
(***************************************************************************)
(* The detection executor for any number of captures and of workers, and   *)
(* the preflight's reader of TShark for any number of rows and any size of *)
(* its pipes and its queue.                                                *)
(***************************************************************************)
EXTENDS MCParts, FiniteSetTheorems, TLAPS

-----------------------------------------------------------------------------
(* The reader of TShark.                                                    *)

LEMMA ReaderAssumed == MaxRows \in Nat /\ MaxStderr \in Nat /\ StderrLimit \in Nat
BY PartsAssumption DEF Preflight!ReaderAssumption

Failure == {"tshark_timeout", "tshark_failed", "invalid_tshark_output"}

ChildState ==
  [status : {"running", "exited", "killed"}, left : Nat, errLeft : Nat, code : {0, 1}]
ReaderState ==
  [pc : {"read", "hand", "done"}, failed : BOOLEAN, cancelled : BOOLEAN]
MainState ==
  [pc : {"get", "empty", "parse", "wait", "terminate", "join", "done"},
   counted : Nat, outcome : Failure \cup {"none", "report"}]

ReaderTypeOK ==
  /\ tshark \in ChildState /\ reader \in ReaderState /\ main \in MainState
  /\ pipe \in Nat /\ errPipe \in Nat /\ queue \in Nat /\ late \in BOOLEAN
  /\ sink \in [pc : {"drain", "done"}, stored : 0..StderrLimit]
  /\ rows \in [total : Nat, malformed : Nat]

(* Every row is still to be written, on its way or counted.                 *)
NoRowIsLost ==
  rows.total = tshark.left + pipe + (IF reader.pc = "hand" THEN 1 ELSE 0)
                 + queue + (IF main.pc = "parse" THEN 1 ELSE 0) + main.counted

(* The reader has seen the end of the stream.                               *)
StreamRead ==
  reader.pc = "done" /\ ~reader.failed /\ ~Preflight!Running /\ pipe = 0

(* While the deadline has not passed the reader only stops at the end of    *)
(* the stream or with an error, and is cancelled only as the main thread    *)
(* leaves its loop.                                                         *)
InLoop ==
  main.pc \in {"get", "empty", "parse"} =>
    /\ main.outcome = "none" /\ ~reader.cancelled
    /\ ~late => /\ NoRowIsLost
                /\ reader.pc = "done" /\ ~reader.failed => StreamRead

AfterLoop ==
  main.pc \in {"wait", "terminate", "join", "done"} =>
    /\ reader.cancelled
    /\ main.pc = "wait" =>
         /\ main.outcome = "none" /\ reader.pc = "done" /\ ~reader.failed
         /\ ~late => StreamRead /\ NoRowIsLost
    /\ main.pc # "wait" /\ main.outcome \in {"none", "report"} =>
         StreamRead /\ NoRowIsLost
    /\ main.outcome = "report" =>
         main.pc = "done" /\ tshark.status = "exited" /\ tshark.code = 0
    /\ main.pc \in {"join", "done"} => ~Preflight!Running
    /\ main.pc = "done" => sink.pc = "done" /\ main.outcome # "none"

ReaderInv ==
  /\ ReaderTypeOK /\ InLoop /\ AfterLoop
  /\ tshark.status = "exited" /\ tshark.code = 0 =>
       tshark.left = 0 /\ tshark.errLeft = 0
  /\ rows.malformed \notin 1..main.counted

LEMMA ReaderInit == Preflight!Init => ReaderInv
<1> SUFFICES ASSUME Preflight!Init PROVE ReaderInv
  OBVIOUS
<1> USE ReaderAssumed DEF Preflight!Init
<1>1. rows.total \in Nat /\ rows.malformed \in Nat /\ rows \in [total : Nat, malformed : Nat]
  OBVIOUS
<1>2. PICK code \in {0, 1}, n \in 0..MaxStderr :
        tshark = [status |-> "running", left |-> rows.total, errLeft |-> n,
                  code |-> code]
  OBVIOUS
<1>3. ReaderTypeOK
  <2>1. n \in Nat /\ 0 \in 0..StderrLimit
    OBVIOUS
  <2>2. tshark \in ChildState
    BY <1>1, <1>2, <2>1 DEF ChildState
  <2>3. reader \in ReaderState /\ main \in MainState
    BY DEF ReaderState, MainState
  <2> QED
    BY <1>1, <2>1, <2>2, <2>3 DEF ReaderTypeOK
<1>4. InLoop /\ AfterLoop
  BY <1>1, <1>2 DEF InLoop, AfterLoop, NoRowIsLost
<1>5. tshark.status # "exited" /\ main.counted = 0
  BY <1>2
<1> QED
  BY <1>1, <1>3, <1>4, <1>5 DEF ReaderInv

(* The types of what is counted.                                            *)
LEMMA ReaderNumbers ==
  ASSUME ReaderTypeOK
  PROVE  /\ tshark.left \in Nat /\ tshark.errLeft \in Nat /\ main.counted \in Nat
         /\ rows.total \in Nat /\ rows.malformed \in Nat
         /\ pipe \in Nat /\ errPipe \in Nat /\ queue \in Nat
BY DEF ReaderTypeOK, ChildState, MainState

(* While the child runs the stream is not over.                             *)
LEMMA TsharkStep ==
  ASSUME ReaderInv, Preflight!Tshark
  PROVE  ReaderInv'
<1>1. tshark.status = "running" /\ ~StreamRead
  BY DEF Preflight!Tshark, Preflight!WriteRow, Preflight!WriteError, Preflight!Exit,
         Preflight!Running, StreamRead
<1>2. ReaderTypeOK
  BY DEF ReaderInv
<1>3. CASE Preflight!WriteRow
  <2>1. /\ tshark.left > 0 /\ pipe' = pipe + 1
        /\ tshark' = [tshark EXCEPT !.left = tshark.left - 1]
        /\ UNCHANGED <<errPipe, queue, reader, sink, main, late, rows>>
    BY <1>3 DEF Preflight!WriteRow
  <2>2. tshark.left - 1 \in Nat /\ pipe + 1 \in Nat
    BY <1>2, <2>1, ReaderNumbers
  <2>3. /\ tshark' \in ChildState /\ tshark'.status = "running"
        /\ tshark'.left = tshark.left - 1
    BY <1>1, <1>2, <2>1, <2>2 DEF ReaderTypeOK, ChildState
  <2>4. ReaderTypeOK'
    BY <1>2, <2>1, <2>2, <2>3 DEF ReaderTypeOK
  <2>5. NoRowIsLost => NoRowIsLost'
    BY <1>2, <2>1, <2>3, ReaderNumbers DEF NoRowIsLost
  <2>6. InLoop' /\ AfterLoop'
    BY <1>1, <2>1, <2>3, <2>5 DEF ReaderInv, InLoop, AfterLoop, Preflight!Running
  <2> QED
    BY <2>1, <2>3, <2>4, <2>6 DEF ReaderInv
<1>4. CASE Preflight!WriteError
  <2>1. /\ tshark.errLeft > 0 /\ errPipe' = errPipe + 1
        /\ tshark' = [tshark EXCEPT !.errLeft = tshark.errLeft - 1]
        /\ UNCHANGED <<pipe, queue, reader, sink, main, late, rows>>
    BY <1>4 DEF Preflight!WriteError
  <2>2. tshark.errLeft - 1 \in Nat /\ errPipe + 1 \in Nat
    BY <1>2, <2>1, ReaderNumbers
  <2>3. /\ tshark' \in ChildState /\ tshark'.status = "running"
        /\ tshark'.left = tshark.left
    BY <1>1, <1>2, <2>1, <2>2 DEF ReaderTypeOK, ChildState
  <2>4. ReaderTypeOK'
    BY <1>2, <2>1, <2>2, <2>3 DEF ReaderTypeOK
  <2>5. NoRowIsLost => NoRowIsLost'
    BY <2>1, <2>3 DEF NoRowIsLost
  <2>6. InLoop' /\ AfterLoop'
    BY <1>1, <2>1, <2>3, <2>5 DEF ReaderInv, InLoop, AfterLoop, Preflight!Running
  <2> QED
    BY <2>1, <2>3, <2>4, <2>6 DEF ReaderInv
<1>5. CASE Preflight!Exit
  <2>1. /\ tshark.code = 0 => tshark.left = 0 /\ tshark.errLeft = 0
        /\ tshark' = [tshark EXCEPT !.status = "exited"]
        /\ UNCHANGED <<pipe, errPipe, queue, reader, sink, main, late, rows>>
    BY <1>5 DEF Preflight!Exit
  <2>2. /\ tshark' \in ChildState /\ tshark'.left = tshark.left
        /\ tshark'.errLeft = tshark.errLeft /\ tshark'.code = tshark.code
    BY <1>2, <2>1 DEF ReaderTypeOK, ChildState
  <2>3. NoRowIsLost => NoRowIsLost'
    BY <2>1, <2>2 DEF NoRowIsLost
  <2>4. InLoop' /\ AfterLoop'
    BY <1>1, <2>1, <2>2, <2>3 DEF ReaderInv, InLoop, AfterLoop, Preflight!Running
  <2> QED
    BY <1>2, <2>1, <2>2, <2>4 DEF ReaderInv, ReaderTypeOK
<1> QED
  BY <1>3, <1>4, <1>5 DEF Preflight!Tshark

LEMMA DeadlineStep ==
  ASSUME ReaderInv, Preflight!Deadline
  PROVE  ReaderInv'
BY DEF ReaderInv, ReaderTypeOK, InLoop, AfterLoop, NoRowIsLost, StreamRead,
       Preflight!Deadline, Preflight!Running

LEMMA DrainStep ==
  ASSUME ReaderInv, Preflight!Drain
  PROVE  ReaderInv'
<1> USE DEF Preflight!Drain
<1>1. errPipe' \in Nat
  BY DEF ReaderInv, ReaderTypeOK
<1>2. sink' \in [pc : {"drain", "done"}, stored : 0..StderrLimit]
  <2>1. sink.stored \in Nat /\ sink.stored <= StderrLimit /\ StderrLimit \in Nat
    BY ReaderAssumed DEF ReaderInv, ReaderTypeOK
  <2>2. (IF sink.stored < StderrLimit THEN sink.stored + 1 ELSE sink.stored)
          \in 0..StderrLimit
    BY <2>1
  <2> QED
    BY <2>2 DEF ReaderInv, ReaderTypeOK
<1>3. ReaderTypeOK'
  BY <1>1, <1>2 DEF ReaderInv, ReaderTypeOK
<1>4. InLoop' /\ AfterLoop'
  BY DEF ReaderInv, InLoop, AfterLoop, NoRowIsLost, StreamRead, Preflight!Running
<1> QED
  BY <1>3, <1>4 DEF ReaderInv

(* The reader loses what it holds only if it is late, or cancelled, which   *)
(* it is not before the main thread has left its loop.                      *)
LEMMA ReaderStep ==
  ASSUME ReaderInv, Preflight!Reader
  PROVE  ReaderInv'
<1> USE DEF Preflight!Reader, Preflight!ReadLine, Preflight!HandOff
<1>1. ReaderTypeOK
  BY DEF ReaderInv
<1>2. UNCHANGED <<tshark, errPipe, main, late, sink, rows>>
  OBVIOUS
<1>3. /\ reader' \in ReaderState
      /\ reader.pc # "done" /\ reader'.cancelled = reader.cancelled
  BY <1>1 DEF ReaderTypeOK, ReaderState
<1>4. pipe' \in Nat /\ queue' \in Nat
  BY <1>1, ReaderNumbers
<1>5. ReaderTypeOK'
  BY <1>1, <1>2, <1>3, <1>4 DEF ReaderTypeOK
<1>6. ~(reader.cancelled \/ late) /\ NoRowIsLost => NoRowIsLost'
  <2>1. CASE reader.pc = "read"
    <3>1. \/ pipe' = pipe - 1 /\ reader'.pc = "hand"
          \/ pipe' = pipe /\ reader'.pc = "done"
      BY <1>1, <2>1 DEF ReaderTypeOK, ReaderState
    <3>2. queue' = queue
      BY <2>1
    <3> QED
      BY <1>1, <1>2, <2>1, <3>1, <3>2, ReaderNumbers DEF NoRowIsLost
  <2>2. CASE reader.pc = "hand"
    <3>1. reader.cancelled \/ late \/ (queue' = queue + 1 /\ reader'.pc = "read")
      BY <1>1, <2>2 DEF ReaderTypeOK, ReaderState
    <3>2. pipe' = pipe
      BY <2>2
    <3> QED
      BY <1>1, <1>2, <2>2, <3>1, <3>2, ReaderNumbers DEF NoRowIsLost
  <2> QED
    BY <2>1, <2>2
<1>7. ~(reader.cancelled \/ late) /\ reader'.pc = "done" /\ ~reader'.failed => StreamRead'
  BY <1>1 DEF ReaderTypeOK, ReaderState, StreamRead, Preflight!Running
<1>8. InLoop'
  BY <1>2, <1>3, <1>6, <1>7 DEF ReaderInv, InLoop
<1>9. AfterLoop'
  BY <1>2, <1>3 DEF ReaderInv, AfterLoop, StreamRead, Preflight!Running
<1> QED
  BY <1>2, <1>5, <1>8, <1>9 DEF ReaderInv

(* The loop of the main thread.                                             *)
LEMMA GetStep ==
  ASSUME ReaderInv, Preflight!Get
  PROVE  ReaderInv'
<1>1. ReaderTypeOK
  BY DEF ReaderInv
<1>2. /\ main.pc = "get"
      /\ UNCHANGED <<tshark, pipe, errPipe, sink, late, rows>>
  BY DEF Preflight!Get
<1>3. /\ main' \in MainState /\ reader' \in ReaderState
      /\ main'.counted = main.counted
  BY <1>1 DEF ReaderTypeOK, MainState, ReaderState, Failure, Preflight!Get, Preflight!Raise
<1>4. \/ /\ late /\ queue' = queue
         /\ main'.pc = "terminate" /\ main'.outcome = "tshark_timeout"
         /\ reader'.cancelled
      \/ /\ ~late /\ queue > 0 /\ queue' = queue - 1 /\ reader' = reader
         /\ main'.pc = "parse" /\ main'.outcome = main.outcome
      \/ /\ ~late /\ queue' = queue /\ reader' = reader
         /\ main'.pc = "empty" /\ main'.outcome = main.outcome
  BY <1>1 DEF ReaderTypeOK, MainState, ReaderState, Preflight!Get, Preflight!Raise
<1>5. queue' \in Nat
  BY <1>1, <1>4, ReaderNumbers
<1>6. ReaderTypeOK'
  BY <1>1, <1>2, <1>3, <1>5 DEF ReaderTypeOK
<1>7. ~late /\ NoRowIsLost => NoRowIsLost'
  BY <1>1, <1>2, <1>3, <1>4, ReaderNumbers DEF NoRowIsLost
<1>8. InLoop' /\ AfterLoop'
  BY <1>2, <1>4, <1>7 DEF ReaderInv, InLoop, AfterLoop, StreamRead, Preflight!Running
<1> QED
  BY <1>2, <1>3, <1>6, <1>8 DEF ReaderInv

LEMMA EmptyStep ==
  ASSUME ReaderInv, Preflight!Empty
  PROVE  ReaderInv'
<1>1. ReaderTypeOK
  BY DEF ReaderInv
<1>2. /\ main.pc = "empty"
      /\ UNCHANGED <<tshark, pipe, errPipe, queue, sink, late, rows>>
  BY DEF Preflight!Empty
<1>3. /\ main' \in MainState /\ reader' \in ReaderState
      /\ main'.counted = main.counted
      /\ reader'.pc = reader.pc /\ reader'.failed = reader.failed
  BY <1>1 DEF ReaderTypeOK, MainState, ReaderState, Failure, Preflight!Empty,
              Preflight!Raise
<1>4. \/ /\ main'.pc = "terminate" /\ main'.outcome = "tshark_failed"
         /\ reader'.cancelled
      \/ /\ ~reader.failed /\ reader.pc = "done" /\ reader'.cancelled
         /\ main'.pc = "wait" /\ main'.outcome = main.outcome
      \/ /\ reader' = reader
         /\ main'.pc = "get" /\ main'.outcome = main.outcome
  BY <1>1 DEF ReaderTypeOK, MainState, ReaderState, Preflight!Empty, Preflight!Raise
<1>5. ReaderTypeOK'
  BY <1>1, <1>2, <1>3 DEF ReaderTypeOK
<1>6. NoRowIsLost => NoRowIsLost'
  BY <1>2, <1>3, <1>4 DEF NoRowIsLost
<1>7. StreamRead => StreamRead'
  BY <1>2, <1>3 DEF StreamRead, Preflight!Running
<1>8. InLoop' /\ AfterLoop'
  BY <1>2, <1>3, <1>4, <1>6, <1>7 DEF ReaderInv, InLoop, AfterLoop
<1> QED
  BY <1>2, <1>3, <1>5, <1>8 DEF ReaderInv

LEMMA ParseStep ==
  ASSUME ReaderInv, Preflight!Parse
  PROVE  ReaderInv'
<1>1. ReaderTypeOK
  BY DEF ReaderInv
<1>2. /\ main.pc = "parse"
      /\ UNCHANGED <<tshark, pipe, errPipe, queue, sink, late, rows>>
  BY DEF Preflight!Parse
<1>3. \/ /\ main' = [main EXCEPT !.pc = "terminate", !.outcome = "invalid_tshark_output"]
         /\ reader' = [reader EXCEPT !.cancelled = TRUE]
      \/ /\ main' = [main EXCEPT !.pc = "get", !.counted = main.counted + 1]
         /\ reader' = reader /\ main.counted + 1 # rows.malformed
  BY DEF Preflight!Parse, Preflight!Raise
<1>4. main.counted + 1 \in Nat
  BY <1>1, ReaderNumbers
<1>5. main' \in MainState /\ reader' \in ReaderState
  BY <1>1, <1>3, <1>4 DEF ReaderTypeOK, MainState, ReaderState, Failure
<1>6. \/ /\ main'.pc = "terminate" /\ main'.outcome = "invalid_tshark_output"
         /\ main'.counted = main.counted /\ reader'.cancelled
      \/ /\ main'.pc = "get" /\ main'.outcome = main.outcome
         /\ main'.counted = main.counted + 1 /\ reader' = reader
         /\ main.counted + 1 # rows.malformed
  BY <1>1, <1>3 DEF ReaderTypeOK, MainState, ReaderState
<1>7. ReaderTypeOK'
  BY <1>1, <1>2, <1>5 DEF ReaderTypeOK
<1>8. main'.pc = "get" /\ NoRowIsLost => NoRowIsLost'
  BY <1>1, <1>2, <1>6, ReaderNumbers DEF NoRowIsLost
<1>9. InLoop' /\ AfterLoop'
  BY <1>2, <1>6, <1>8 DEF ReaderInv, InLoop, AfterLoop, StreamRead, Preflight!Running
<1>10. rows'.malformed \notin 1..main'.counted
  BY <1>1, <1>2, <1>6, ReaderNumbers DEF ReaderInv
<1> QED
  BY <1>2, <1>7, <1>9, <1>10 DEF ReaderInv

(* After the loop: nothing is lost any more, as the reader is at the end.   *)
LEMMA WaitStep ==
  ASSUME ReaderInv, Preflight!Wait
  PROVE  ReaderInv'
<1>1. ReaderTypeOK
  BY DEF ReaderInv
<1>2. /\ main.pc = "wait"
      /\ UNCHANGED <<tshark, pipe, errPipe, queue, reader, sink, late, rows>>
  BY DEF Preflight!Wait
<1>3. main' \in MainState /\ main'.counted = main.counted /\ main'.pc = "terminate"
  BY <1>1 DEF ReaderTypeOK, MainState, Failure, Preflight!Wait
<1>4. main'.outcome = "tshark_timeout" \/ (~late /\ main'.outcome = main.outcome)
  BY <1>1 DEF ReaderTypeOK, MainState, Preflight!Wait
<1>5. (NoRowIsLost => NoRowIsLost') /\ (StreamRead => StreamRead')
  BY <1>2, <1>3 DEF NoRowIsLost, StreamRead, Preflight!Running
<1>6. InLoop' /\ AfterLoop'
  BY <1>2, <1>3, <1>4, <1>5 DEF ReaderInv, InLoop, AfterLoop
<1> QED
  BY <1>1, <1>2, <1>3, <1>6 DEF ReaderInv, ReaderTypeOK

LEMMA TerminateStep ==
  ASSUME ReaderInv, Preflight!Terminate
  PROVE  ReaderInv'
<1>1. ReaderTypeOK
  BY DEF ReaderInv
<1>2. /\ main.pc = "terminate" /\ main' = [main EXCEPT !.pc = "join"]
      /\ UNCHANGED <<pipe, errPipe, queue, reader, sink, late, rows>>
  BY DEF Preflight!Terminate
<1>3. /\ main' \in MainState /\ main'.counted = main.counted /\ main'.pc = "join"
      /\ main'.outcome = main.outcome
  BY <1>1, <1>2 DEF ReaderTypeOK, MainState
<1>4. /\ tshark' \in ChildState /\ tshark'.status # "running"
      /\ tshark'.left = tshark.left
      /\ tshark.status # "running" => tshark' = tshark
      /\ tshark.status = "running" => tshark'.status = "killed"
  BY <1>1 DEF ReaderTypeOK, ChildState, Preflight!Terminate, Preflight!Kill,
              Preflight!Running
<1>5. (NoRowIsLost => NoRowIsLost') /\ (StreamRead => StreamRead')
  BY <1>2, <1>3, <1>4 DEF NoRowIsLost, StreamRead, Preflight!Running
<1>6. InLoop' /\ AfterLoop'
  BY <1>2, <1>3, <1>4, <1>5 DEF ReaderInv, InLoop, AfterLoop, Preflight!Running
<1>7. tshark'.status = "exited" => tshark' = tshark
  BY <1>4
<1> QED
  BY <1>1, <1>2, <1>3, <1>4, <1>6, <1>7 DEF ReaderInv, ReaderTypeOK

LEMMA JoinStep ==
  ASSUME ReaderInv, Preflight!Join
  PROVE  ReaderInv'
<1>1. ReaderTypeOK
  BY DEF ReaderInv
<1>2. /\ main.pc = "join" /\ sink.pc = "done"
      /\ UNCHANGED <<tshark, pipe, errPipe, queue, reader, sink, late, rows>>
  BY DEF Preflight!Join
<1>3. \E o \in Failure \cup {"report"} :
        /\ main' = [main EXCEPT !.pc = "done", !.outcome = o]
        /\ o = "report" => main.outcome \in {"none", "report"}
        /\ o = "report" /\ main.outcome = "none" =>
             tshark.status = "exited" /\ tshark.code = 0
  <2> DEFINE exited == tshark.status = "exited" /\ tshark.code = 0
             o == CASE main.outcome # "none" -> main.outcome
                    [] main.outcome = "none" /\ ~exited -> "tshark_failed"
                    [] OTHER -> "report"
  <2>1. main' = [main EXCEPT !.pc = "done", !.outcome = o]
    BY DEF Preflight!Join
  <2>2. main.outcome \in Failure \cup {"none", "report"}
    BY <1>1 DEF ReaderTypeOK, MainState
  <2>3. /\ main.outcome # "none" => o = main.outcome
        /\ main.outcome = "none" /\ ~exited => o = "tshark_failed"
        /\ main.outcome = "none" /\ exited => o = "report"
    OBVIOUS
  <2> HIDE DEF o
  <2> QED
    BY <2>1, <2>2, <2>3 DEF Failure
<1>4. /\ main' \in MainState /\ main'.counted = main.counted /\ main'.pc = "done"
      /\ main'.outcome \in Failure \cup {"report"}
      /\ main'.outcome = "report" => main.outcome \in {"none", "report"}
      /\ main'.outcome = "report" /\ main.outcome = "none" =>
           tshark.status = "exited" /\ tshark.code = 0
  BY <1>1, <1>3 DEF ReaderTypeOK, MainState
<1>5. (NoRowIsLost => NoRowIsLost') /\ (StreamRead => StreamRead')
  BY <1>2, <1>4 DEF NoRowIsLost, StreamRead, Preflight!Running
<1>6. InLoop' /\ AfterLoop'
  BY <1>2, <1>4, <1>5 DEF ReaderInv, InLoop, AfterLoop, Failure, Preflight!Running
<1> QED
  BY <1>1, <1>2, <1>4, <1>6 DEF ReaderInv, ReaderTypeOK

(* However TShark behaves and whenever the deadline falls: the preflight    *)
(* leaves no child and no thread behind, keeps no more of the errors than   *)
(* its limit, and reports only on a stream that was read to its end         *)
(* (_SystemTsharkRunner.iter_rows and parse_tshark_rows).                   *)
THEOREM PreflightCleansUp == Preflight!Spec => []RunnerCleansUp
<1>1. ReaderInv /\ [Preflight!Next]_(Preflight!vars) => ReaderInv'
  <2>1. ASSUME ReaderInv, UNCHANGED Preflight!vars PROVE ReaderInv'
    BY <2>1 DEF ReaderInv, ReaderTypeOK, InLoop, AfterLoop, NoRowIsLost, StreamRead,
                Preflight!Running, Preflight!vars
  <2> QED
    BY <2>1, TsharkStep, DeadlineStep, DrainStep, ReaderStep, GetStep, EmptyStep,
       ParseStep, WaitStep, TerminateStep, JoinStep
       DEF Preflight!Next, Preflight!Main
<1>2. ASSUME ReaderInv PROVE RunnerCleansUp
  <2> SUFFICES ASSUME main.pc = "done"
               PROVE  Preflight!RunnerCleansUp
    BY DEF RunnerCleansUp, Preflight!RunnerCleansUp
  <2>1. /\ ~Preflight!Running /\ reader.cancelled /\ sink.pc = "done"
        /\ sink.stored <= StderrLimit
    BY <1>2, ReaderAssumed DEF ReaderInv, ReaderTypeOK, AfterLoop
  <2>2. CASE main.outcome = "report"
    <3>1. StreamRead /\ NoRowIsLost /\ tshark.status = "exited" /\ tshark.code = 0
      BY <1>2, <2>2 DEF ReaderInv, AfterLoop
    <3>2. tshark.left = 0 /\ tshark.errLeft = 0
      BY <1>2, <3>1 DEF ReaderInv
    <3>3. tshark = [status |-> "exited", left |-> 0, errLeft |-> 0, code |-> 0]
      BY <1>2, <3>1, <3>2 DEF ReaderInv, ReaderTypeOK, ChildState
    <3>4. main.counted + queue = rows.total
      BY <1>2, <3>1, <3>2, ReaderNumbers DEF ReaderInv, StreamRead, NoRowIsLost
    <3> QED
      BY <1>2, <2>1, <3>1, <3>3, <3>4 DEF ReaderInv, StreamRead, Preflight!RunnerCleansUp
  <2> QED
    BY <2>1, <2>2 DEF Preflight!RunnerCleansUp
<1> QED
  BY ReaderInit, <1>1, <1>2, PTL DEF Preflight!Spec
-----------------------------------------------------------------------------
(* The detection executor.                                                  *)

LEMMA ExecutorAssumed ==
  MaxFiles \in Nat /\ MaxWorkers \in Nat \ {0} /\ MaxEvidence \in Nat
BY PartsAssumption DEF Executor!ExecutorAssumption

(* The pool takes the captures in order, and the caller only takes what is  *)
(* finished.  execute is not over before everything it submitted is.        *)
PoolInv ==
  /\ selected \in 0..MaxFiles
  /\ \E k \in 0..selected : started = 1..k
  /\ Executor!Finished \subseteq started
  /\ completed \subseteq Executor!Finished
  /\ pc = "listing" => selected = 0
  /\ pc \in {"returned", "raised"} => Executor!Finished = Executor!Captures

(* Nothing is selected, started or finished at first.                       *)
LEMMA PoolInit == Executor!Init => PoolInv
<1> SUFFICES ASSUME Executor!Init PROVE PoolInv
  OBVIOUS
<1>1. selected = 0 /\ selected \in 0..MaxFiles
  BY ExecutorAssumed DEF Executor!Init
<1>2. 0 \in 0..selected /\ started = 1..0
  BY <1>1 DEF Executor!Init
<1> QED
  BY <1>1, <1>2 DEF Executor!Init, PoolInv, Executor!Finished

(* The queue is first in, first out: the capture that is started is the one *)
(* after those that were.                                                   *)
LEMMA NextInLine ==
  ASSUME NEW k \in 0..selected, selected \in 0..MaxFiles,
         started = 1..k, started # Executor!Captures
  PROVE  k < selected /\ Executor!Min(Executor!Captures \ started) = k + 1
<1> USE ExecutorAssumed
<1>1. k < selected
  BY DEF Executor!Captures
<1>2. /\ k + 1 \in Executor!Captures \ started
      /\ \A d \in Executor!Captures \ started : k + 1 <= d /\ d \in Int
  BY <1>1 DEF Executor!Captures
<1> QED
  BY <1>1, <1>2 DEF Executor!Min

(* Starting a capture extends the prefix of those that were started.        *)
LEMMA StartKeepsPool ==
  ASSUME PoolInv, Executor!StartCapture
  PROVE  PoolInv'
<1>1. PICK k \in 0..selected : started = 1..k
  BY DEF PoolInv
<1>2. k < selected /\ Executor!Min(Executor!Captures \ started) = k + 1
  BY <1>1, NextInLine DEF Executor!StartCapture, PoolInv
<1>3. started' = started \cup {k + 1}
  BY <1>2 DEF Executor!StartCapture
<1>4. started' = 1..(k + 1) /\ k + 1 \in 0..selected
  BY <1>1, <1>2, <1>3, ExecutorAssumed DEF PoolInv
<1>5. \E j \in 0..selected : started' = 1..j
  BY <1>4
<1>6. pc \notin {"returned", "raised"}
  BY <1>1, <1>2, ExecutorAssumed DEF PoolInv, Executor!Captures, Executor!StartCapture, Executor!Finished
<1> QED
  BY <1>3, <1>5, <1>6 DEF Executor!StartCapture, PoolInv, Executor!Finished, Executor!Captures

(* No step ends execute before its captures are inspected.                  *)
LEMMA PoolStep ==
  ASSUME PoolInv, [Executor!Next]_(Executor!vars)
  PROVE  PoolInv'
<1>1. CASE Executor!ListCaptures
  <2>1. selected = 0 /\ started = 1..0 /\ Executor!Finished = {}
    BY <1>1 DEF Executor!ListCaptures, PoolInv
  <2>2. selected' \in 0..MaxFiles /\ (pc' = "raised" => selected' = 0)
    BY <1>1, <2>1 DEF Executor!ListCaptures, Executor!Selectable, PoolInv
  <2>3. 0 \in 0..selected' /\ started' = 1..0
    BY <1>1, <2>1, <2>2, ExecutorAssumed DEF Executor!ListCaptures
  <2> QED
    BY <1>1, <2>1, <2>2, <2>3 DEF Executor!ListCaptures, PoolInv, Executor!Finished, Executor!Captures
<1>2. CASE Executor!StartCapture
  BY <1>2, StartKeepsPool
<1>3. CASE Executor!FinishCapture
  <2>1. PICK c \in Executor!Running : Executor!Finished' = Executor!Finished \cup {c}
    BY <1>3 DEF Executor!FinishCapture, Executor!Finished
  <2>2. c \in started /\ c \notin Executor!Finished
    BY DEF Executor!Running
  <2>3. pc \notin {"returned", "raised"}
    BY <2>2 DEF PoolInv, Executor!Captures
  <2> QED
    BY <1>3, <2>1, <2>2, <2>3 DEF Executor!FinishCapture, PoolInv, Executor!Captures
<1>4. CASE Executor!RequestCancel
  BY <1>4 DEF Executor!RequestCancel, PoolInv, Executor!Finished, Executor!Captures
<1>5. CASE Executor!Collect
  BY <1>5 DEF Executor!Collect, PoolInv, Executor!Finished, Executor!Captures
<1>6. CASE Executor!ReportProgress
  BY <1>6 DEF Executor!ReportProgress, PoolInv, Executor!Finished, Executor!Captures
<1>7. CASE Executor!AllCollected
  BY <1>7 DEF Executor!AllCollected, PoolInv, Executor!Finished, Executor!Captures
<1>8. CASE Executor!Leave
  BY <1>8 DEF Executor!Leave, Executor!PoolIdle, PoolInv, Executor!Finished, Executor!Captures
<1>9. CASE Executor!Terminated \/ UNCHANGED Executor!vars
  BY <1>9 DEF Executor!Terminated, Executor!vars, PoolInv, Executor!Finished, Executor!Captures
<1> QED
  BY <1>1, <1>2, <1>3, <1>4, <1>5, <1>6, <1>7, <1>8, <1>9 DEF Executor!Next

(* Whatever was cancelled, failed or raised, execute never returns while an *)
(* inspection it started is running, so a terminal status that is published *)
(* after it comes after the clean-up.                                       *)
THEOREM NothingIsLeftRunning ==
  Executor!Spec => []Executor!NothingRunsAfterwards
<1>1. PoolInv => Executor!NothingRunsAfterwards
  <2> SUFFICES ASSUME PoolInv, pc \in {"returned", "raised"} PROVE Executor!Running = {}
    BY DEF Executor!NothingRunsAfterwards
  <2>1. started \subseteq Executor!Captures
    BY ExecutorAssumed DEF PoolInv, Executor!Captures
  <2> QED
    BY <2>1 DEF PoolInv, Executor!Running
<1> QED
  BY PoolInit, PoolStep, <1>1, PTL DEF Executor!Spec
-----------------------------------------------------------------------------
(* What execute returns.  The summary takes the captures one by one, the    *)
(* last one at the end, and so does the order in which a single worker      *)
(* would have inspected them.  There is no induction over naturals here:    *)
(* least counterexamples stand for it.                                      *)
LEMMA LeastNumber ==
  ASSUME NEW T \in SUBSET Nat, T # {}
  PROVE  \E x \in T : \A y \in T : x <= y
<1> DEFINE R == {ss \in Nat \X Nat : ss[1] < ss[2]}
<1>1. IsWellFoundedOn(OpToRel(<, Nat), Nat)
  BY NatLessThanWellFounded
<1>2. OpToRel(<, Nat) = R
  BY DEF OpToRel
<1>3. IsWellFoundedOn(R, Nat)
  BY <1>1, <1>2
<1> HIDE DEF R
<1>4. PICK x \in T : \A y \in T : ~(<<y, x>> \in R)
  BY <1>3, WFMin
<1>5. \A y \in T : y < x => <<y, x>> \in R
  BY DEF R
<1>6. \A y \in T : ~(y < x)
  BY <1>4, <1>5
<1> QED
  BY <1>6

LEMMA UpTo ==
  ASSUME NEW n \in Nat, NEW G, 0 \in G,
         \A i \in 1..n : i - 1 \in G => i \in G
  PROVE  0..n \subseteq G
<1> SUFFICES ASSUME (0..n) \ G # {} PROVE FALSE
  OBVIOUS
<1>1. (0..n) \ G \in SUBSET Nat
  OBVIOUS
<1>2. PICK x \in (0..n) \ G : \A y \in (0..n) \ G : x <= y
  BY <1>1, LeastNumber
<1>3. x \in 1..n /\ x - 1 \in 0..n
  BY <1>2
<1>4. x - 1 \in G
  BY <1>2, <1>3
<1> QED
  BY <1>2, <1>3, <1>4

LEMMA LastIs ==
  ASSUME NEW n \in Nat, NEW s \in SUBSET (1..n), s # {}
  PROVE  Executor!Max(s) \in s /\ \A x \in s : x <= Executor!Max(s)
<1> DEFINE gap == {n - x : x \in s}
<1>1. gap \in SUBSET Nat /\ gap # {}
  <2>1. \A x \in s : n - x \in Nat
    OBVIOUS
  <2> QED
    BY <2>1
<1>2. PICK least \in gap : \A x \in gap : least <= x
  BY <1>1, LeastNumber
<1>3. PICK x \in s : least = n - x
  BY <1>2
<1>4. \A y \in s : x >= y
  <2> TAKE y \in s
  <2>1. n - x <= n - y
    BY <1>2, <1>3
  <2> QED
    BY <2>1
<1>5. Executor!Max(s) \in s /\ \A y \in s : Executor!Max(s) >= y
  BY <1>4 DEF Executor!Max
<1> QED
  BY <1>5

(* Reports of captures, and summaries, for any reports.                     *)
Reports == (SUBSET EvidenceId) \cup {Failed}
Summaries ==
  [succeeded : SUBSET Nat, failed : SUBSET Nat, evidence : SUBSET EvidenceId]

Takes(rep, sum, c) == rep[c] # Failed /\ rep[c] \cap sum.evidence = {}
AcceptOf(rep, sum, c) ==
  [succeeded |-> IF Takes(rep, sum, c) THEN sum.succeeded \cup {c} ELSE sum.succeeded,
   failed    |-> IF Takes(rep, sum, c) THEN sum.failed ELSE sum.failed \cup {c},
   evidence  |-> IF Takes(rep, sum, c) THEN sum.evidence \cup rep[c] ELSE sum.evidence]

LEMMA AcceptIs ==
  ASSUME NEW sum \in Summaries, NEW c
  PROVE  Executor!Accept(sum, c) = AcceptOf(report, sum, c)
BY DEF Executor!Accept, AcceptOf, Takes, Summaries

LEMMA AcceptTyped ==
  ASSUME NEW rep, NEW sum \in Summaries, NEW c \in Nat, rep[c] \in Reports
  PROVE  AcceptOf(rep, sum, c) \in Summaries
<1>1. CASE Takes(rep, sum, c)
  <2>1. rep[c] \in SUBSET EvidenceId
    BY <1>1 DEF Takes, Reports
  <2> QED
    BY <1>1, <2>1 DEF AcceptOf, Summaries
<1>2. CASE ~Takes(rep, sum, c)
  BY <1>2 DEF AcceptOf, Summaries
<1> QED
  BY <1>1, <1>2

FoldStep(g, s) == IF s = {} THEN Executor!None
                  ELSE Executor!Accept(g[s \ {Executor!Max(s)}], Executor!Max(s))
IsFold(g, S) == g = [s \in SUBSET S |-> FoldStep(g, s)]

LEMMA SummaryIs ==
  ASSUME NEW S
  PROVE  Executor!SummaryFromResults(S) = (CHOOSE g : IsFold(g, S))[S]
BY DEF Executor!SummaryFromResults, Executor!MapThenFoldSet, IsFold, FoldStep

AcceptedStep(g, c) ==
  IF c = 0 THEN {}
  ELSE IF /\ report[c] # Failed
          /\ \A d \in g[c - 1] : report[d] \cap report[c] = {}
    THEN g[c - 1] \cup {c}
    ELSE g[c - 1]

LEMMA AcceptedIs ==
  Executor!Accepted = CHOOSE g : g = [c \in 0..MaxFiles |-> AcceptedStep(g, c)]
BY DEF Executor!Accepted, AcceptedStep

(* The fold over every part of the captures, from its smaller parts.        *)
Small(n, k) == {s \in SUBSET (1..n) : Cardinality(s) <= k}
Fits(g, n, k) == /\ g \in [Small(n, k) -> Summaries]
                 /\ \A s \in Small(n, k) : g[s] = FoldStep(g, s)

LEMMA PartIsFinite ==
  ASSUME NEW n \in Nat, NEW s \in SUBSET (1..n)
  PROVE  IsFiniteSet(s) /\ Cardinality(s) \in 0..n
<1>1. IsFiniteSet(1..n) /\ Cardinality(1..n) = n
  BY FS_Interval
<1>2. IsFiniteSet(s) /\ Cardinality(s) <= n
  BY <1>1, FS_Subset
<1>3. Cardinality(s) \in Nat
  BY <1>2, FS_CardinalityType
<1> QED
  BY <1>2, <1>3

LEMMA SmallerPart ==
  ASSUME NEW n \in Nat, NEW k \in 1..n, NEW s \in Small(n, k), s # {}
  PROVE  /\ Executor!Max(s) \in 1..n
         /\ s \ {Executor!Max(s)} \in Small(n, k - 1)
<1> DEFINE m == Executor!Max(s)
<1>1. s \in SUBSET (1..n) /\ Cardinality(s) <= k
  BY DEF Small
<1>2. m \in s
  BY <1>1, LastIs
<1> HIDE DEF m
<1>3. IsFiniteSet(s) /\ Cardinality(s) \in Nat
  BY <1>1, PartIsFinite
<1>4. Cardinality(s \ {m}) = Cardinality(s) - 1
  BY <1>2, <1>3, FS_RemoveElement
<1>5. Cardinality(s \ {m}) <= k - 1
  <2> DEFINE x == Cardinality(s) y == Cardinality(s \ {m})
  <2>1. x \in Nat /\ x <= k /\ y = x - 1
    BY <1>1, <1>3, <1>4
  <2> HIDE DEF x, y
  <2>2. y <= k - 1
    BY <2>1
  <2> QED
    BY <2>2 DEF y
<1> QED
  BY <1>1, <1>2, <1>5 DEF m, Small

LEMMA StepTyped ==
  ASSUME NEW n \in Nat, NEW k \in 1..n, \A c \in 1..n : report[c] \in Reports,
         NEW g \in [Small(n, k - 1) -> Summaries], NEW s \in Small(n, k)
  PROVE  FoldStep(g, s) \in Summaries
<1>1. CASE s = {}
  BY <1>1 DEF FoldStep, Executor!None, Summaries
<1>2. CASE s # {}
  <2> DEFINE m == Executor!Max(s)
             before == g[s \ {m}]
  <2>1. m \in 1..n /\ s \ {m} \in Small(n, k - 1)
    BY <1>2, SmallerPart
  <2>2. FoldStep(g, s) = Executor!Accept(before, m)
    BY <1>2 DEF FoldStep
  <2> HIDE DEF m
  <2>3. before \in Summaries
    BY <2>1
  <2> HIDE DEF before
  <2>4. m \in Nat /\ report[m] \in Reports
    BY <2>1
  <2> QED
    BY <2>2, <2>3, <2>4, AcceptIs, AcceptTyped
<1> QED
  BY <1>1, <1>2

LEMMA FoldExists ==
  ASSUME NEW n \in Nat, \A c \in 1..n : report[c] \in Reports
  PROVE  \E g \in [SUBSET (1..n) -> Summaries] : IsFold(g, 1..n)
<1> DEFINE G == {k \in 0..n : \E g : Fits(g, n, k)}
<1>1. 0 \in G
  <2> DEFINE g == [s \in Small(n, 0) |-> Executor!None]
  <2>1. \A s \in Small(n, 0) : s = {}
    <3> TAKE s \in Small(n, 0)
    <3>1. s \in SUBSET (1..n) /\ Cardinality(s) <= 0
      BY DEF Small
    <3>2. IsFiniteSet(s) /\ Cardinality(s) \in Nat
      BY <3>1, PartIsFinite
    <3>3. Cardinality(s) = 0
      BY <3>1, <3>2
    <3> QED
      BY <3>2, <3>3, FS_EmptySet
  <2>2. Executor!None \in Summaries
    BY DEF Executor!None, Summaries
  <2>3. \A s \in Small(n, 0) : g[s] = FoldStep(g, s)
    BY <2>1 DEF FoldStep
  <2>4. g \in [Small(n, 0) -> Summaries]
    BY <2>2
  <2> HIDE DEF g
  <2> QED
    BY <2>3, <2>4 DEF Fits
<1>2. ASSUME NEW k \in 1..n, k - 1 \in G PROVE k \in G
  <2>1. PICK g : Fits(g, n, k - 1)
    BY <1>2
  <2>2. /\ g \in [Small(n, k - 1) -> Summaries]
        /\ \A s \in Small(n, k - 1) : g[s] = FoldStep(g, s)
    BY <2>1 DEF Fits
  <2> DEFINE f == [s \in Small(n, k) |-> FoldStep(g, s)]
  <2>3. f \in [Small(n, k) -> Summaries]
    BY <1>2, <2>2, StepTyped
  <2>4. \A s \in Small(n, k - 1) : s \in Small(n, k) /\ f[s] = g[s]
    <3> TAKE s \in Small(n, k - 1)
    <3>1. s \in SUBSET (1..n) /\ Cardinality(s) <= k - 1
      BY DEF Small
    <3>2. Cardinality(s) \in Nat
      BY <3>1, PartIsFinite
    <3>3. s \in Small(n, k)
      BY <3>1, <3>2 DEF Small
    <3> QED
      BY <2>2, <3>3
  <2>5. ASSUME NEW s \in Small(n, k) PROVE f[s] = FoldStep(f, s)
    <3>1. f[s] = FoldStep(g, s)
      OBVIOUS
    <3> HIDE DEF f
    <3>2. CASE s = {}
      BY <3>1, <3>2 DEF FoldStep
    <3>3. CASE s # {}
      <4>1. s \ {Executor!Max(s)} \in Small(n, k - 1)
        BY <3>3, SmallerPart
      <4>2. f[s \ {Executor!Max(s)}] = g[s \ {Executor!Max(s)}]
        BY <2>4, <4>1
      <4> QED
        BY <3>1, <4>2 DEF FoldStep
    <3> QED
      BY <3>2, <3>3
  <2> HIDE DEF f
  <2>6. Fits(f, n, k)
    BY <2>3, <2>5 DEF Fits
  <2> QED
    BY <2>6
<1> HIDE DEF G
<1>3. n \in G
  <2>1. 0..n \subseteq G
    BY <1>1, <1>2, UpTo
  <2> QED
    BY <2>1
<1>4. PICK g : Fits(g, n, n)
  BY <1>3 DEF G
<1>5. Small(n, n) = SUBSET (1..n)
  <2>1. \A s \in SUBSET (1..n) : Cardinality(s) <= n
    BY PartIsFinite
  <2> QED
    BY <2>1 DEF Small
<1>6. /\ g \in [SUBSET (1..n) -> Summaries]
      /\ \A s \in SUBSET (1..n) : g[s] = FoldStep(g, s)
  BY <1>4, <1>5 DEF Fits
<1>7. IsFold(g, 1..n)
  BY <1>6 DEF IsFold
<1> QED
  BY <1>6, <1>7

(* The recursion of Accepted has a solution, so that it is one.             *)
AcceptedFits(g, m) == /\ g \in [0..m -> SUBSET Nat]
                      /\ \A c \in 0..m : g[c] = AcceptedStep(g, c)

LEMMA AcceptedExists ==
  \E g : AcceptedFits(g, MaxFiles)
<1> DEFINE G == {m \in 0..MaxFiles : \E g : AcceptedFits(g, m)}
<1>1. 0 \in G
  <2> DEFINE g == [c \in 0..0 |-> {}]
  <2>1. g \in [0..0 -> SUBSET Nat] /\ \A c \in 0..0 : g[c] = AcceptedStep(g, c)
    BY DEF AcceptedStep
  <2> HIDE DEF g
  <2>2. AcceptedFits(g, 0)
    BY <2>1 DEF AcceptedFits
  <2> QED
    BY <2>2, ExecutorAssumed
<1>2. ASSUME NEW m \in 1..MaxFiles, m - 1 \in G PROVE m \in G
  <2>1. PICK g : AcceptedFits(g, m - 1)
    BY <1>2
  <2>2. /\ g \in [0..(m - 1) -> SUBSET Nat]
        /\ \A c \in 0..(m - 1) : g[c] = AcceptedStep(g, c)
    BY <2>1 DEF AcceptedFits
  <2> DEFINE f == [c \in 0..m |-> AcceptedStep(g, c)]
  <2>3. m \in Nat /\ m - 1 \in 0..(m - 1) /\ 0..(m - 1) \subseteq 0..m
    BY ExecutorAssumed
  <2>4. \A c \in 0..(m - 1) : f[c] = g[c]
    BY <2>2, <2>3
  <2>5. \A c \in 0..m : AcceptedStep(g, c) \in SUBSET Nat
    <3> TAKE c \in 0..m
    <3>1. CASE c = 0
      BY <3>1 DEF AcceptedStep
    <3>2. CASE c # 0
      <4>1. c - 1 \in 0..(m - 1) /\ c \in Nat
        BY <2>3, <3>2
      <4>2. g[c - 1] \in SUBSET Nat
        BY <2>2, <4>1
      <4> QED
        BY <3>2, <4>1, <4>2 DEF AcceptedStep
    <3> QED
      BY <3>1, <3>2
  <2>6. f \in [0..m -> SUBSET Nat]
    BY <2>5
  <2>7. ASSUME NEW c \in 0..m PROVE f[c] = AcceptedStep(f, c)
    <3>1. f[c] = AcceptedStep(g, c)
      OBVIOUS
    <3> HIDE DEF f
    <3>2. CASE c = 0
      BY <3>1, <3>2 DEF AcceptedStep
    <3>3. CASE c # 0
      <4>1. c - 1 \in 0..(m - 1)
        BY <2>3, <3>3
      <4>2. f[c - 1] = g[c - 1]
        BY <2>4, <4>1
      <4> QED
        BY <3>1, <4>2 DEF AcceptedStep
    <3> QED
      BY <3>2, <3>3
  <2> HIDE DEF f
  <2>8. AcceptedFits(f, m)
    BY <2>6, <2>7 DEF AcceptedFits
  <2> QED
    BY <2>8
<1> HIDE DEF G
<1>3. 0..MaxFiles \subseteq G
  BY <1>1, <1>2, UpTo, ExecutorAssumed
<1>4. MaxFiles \in G
  BY <1>3, ExecutorAssumed
<1> QED
  BY <1>4 DEF G

LEMMA AcceptedUnfolds ==
  \A c \in 0..MaxFiles : Executor!Accepted[c] = AcceptedStep(Executor!Accepted, c)
<1> DEFINE Is(g) == g = [c \in 0..MaxFiles |-> AcceptedStep(g, c)]
<1>1. PICK g : AcceptedFits(g, MaxFiles)
  BY AcceptedExists
<1>2. Is(g)
  BY <1>1 DEF AcceptedFits
<1>3. Executor!Accepted = CHOOSE f : Is(f)
  BY AcceptedIs
<1>4. Is(Executor!Accepted)
  <2> HIDE DEF Is
  <2> QED
    BY <1>2, <1>3
<1> DEFINE a == Executor!Accepted
<1>5. a = [c \in 0..MaxFiles |-> AcceptedStep(a, c)]
  BY <1>4
<1> HIDE DEF a, Is
<1>6. \A c \in 0..MaxFiles : a[c] = AcceptedStep(a, c)
  BY <1>5
<1> QED
  BY <1>6 DEF a

(* The first k captures: what the fold makes of them is what inspecting     *)
(* them one after the other accepts.                                        *)
Whole(sum, k) ==
  /\ sum \in Summaries
  /\ Executor!Accepted[k] \subseteq 1..k
  /\ sum.succeeded = Executor!Accepted[k]
  /\ sum.failed = (1..k) \ Executor!Accepted[k]
  /\ sum.evidence = UNION {report[c] : c \in Executor!Accepted[k]}

LEMMA WholeStep ==
  ASSUME NEW k \in Nat, k + 1 \in 0..MaxFiles, NEW sum, Whole(sum, k),
         report[k + 1] \in Reports
  PROVE  Whole(Executor!Accept(sum, k + 1), k + 1)
<1> DEFINE c == k + 1
           A == Executor!Accepted[k]
           B == Executor!Accepted[c]
           new == AcceptOf(report, sum, c)
           fits == \A d \in A : report[d] \cap report[c] = {}
<1>1. /\ sum \in Summaries /\ A \subseteq 1..k
      /\ sum.succeeded = A /\ sum.failed = (1..k) \ A
      /\ sum.evidence = UNION {report[d] : d \in A}
  BY DEF Whole
<1>2. B = IF report[c] # Failed /\ fits THEN A \cup {c} ELSE A
  <2>1. c \in 0..MaxFiles /\ c # 0 /\ c - 1 = k
    OBVIOUS
  <2>2. B = AcceptedStep(Executor!Accepted, c)
    BY <2>1, AcceptedUnfolds
  <2> QED
    BY <2>1, <2>2 DEF AcceptedStep
<1>3. fits <=> report[c] \cap sum.evidence = {}
  BY <1>1
<1>4. Executor!Accept(sum, c) = new
  BY <1>1, AcceptIs
<1>5. new \in Summaries
  <2>1. c \in Nat
    OBVIOUS
  <2> QED
    BY <1>1, <2>1, AcceptTyped
<1>6. 1..c = (1..k) \cup {c} /\ c \notin 1..k
  OBVIOUS
<1> HIDE DEF A, B, c, fits
<1>7. CASE Takes(report, sum, c)
  <2>1. /\ new.succeeded = A \cup {c} /\ new.failed = (1..k) \ A
        /\ new.evidence = sum.evidence \cup report[c]
    BY <1>1, <1>7 DEF AcceptOf
  <2>2. B = A \cup {c}
    BY <1>2, <1>3, <1>7 DEF Takes
  <2> HIDE DEF new
  <2>3. new.failed = (1..c) \ B
    BY <1>1, <1>6, <2>1, <2>2
  <2>4. new.evidence = UNION {report[d] : d \in B}
    <3>1. UNION {report[d] : d \in A \cup {c}}
            = (UNION {report[d] : d \in A}) \cup report[c]
      OBVIOUS
    <3> QED
      BY <1>1, <2>1, <2>2, <3>1
  <2>5. B \subseteq 1..c
    BY <1>1, <1>6, <2>2
  <2> QED
    BY <1>4, <1>5, <2>1, <2>2, <2>3, <2>4, <2>5 DEF Whole, B, c
<1>8. CASE ~Takes(report, sum, c)
  <2>1. /\ new.succeeded = A /\ new.failed = ((1..k) \ A) \cup {c}
        /\ new.evidence = sum.evidence
    BY <1>1, <1>8 DEF AcceptOf
  <2>2. B = A
    BY <1>2, <1>3, <1>8 DEF Takes
  <2> HIDE DEF new
  <2>3. new.failed = (1..c) \ B
    BY <1>1, <1>6, <2>1, <2>2
  <2>4. new.evidence = UNION {report[d] : d \in B} /\ B \subseteq 1..c
    BY <1>1, <1>6, <2>1, <2>2
  <2> QED
    BY <1>4, <1>5, <2>1, <2>2, <2>3, <2>4 DEF Whole, B, c
<1> QED
  BY <1>7, <1>8

LEMMA SummaryOfAll ==
  ASSUME NEW n \in 0..MaxFiles, \A c \in 1..n : report[c] \in Reports
  PROVE  Whole(Executor!SummaryFromResults(1..n), n)
<1> DEFINE g == CHOOSE f : IsFold(f, 1..n)
           G == {k \in 0..n : Whole(g[1..k], k)}
<1>1. n \in Nat
  BY ExecutorAssumed
<1>2. IsFold(g, 1..n)
  BY <1>1, FoldExists, Zenon
<1>3. Executor!SummaryFromResults(1..n) = g[1..n]
  BY SummaryIs
<1> HIDE DEF g
<1>4. \A s \in SUBSET (1..n) : g[s] = FoldStep(g, s)
  BY <1>2 DEF IsFold
<1>5. 0 \in G
  <2>1. 1..0 = {}
    OBVIOUS
  <2>2. g[1..0] = Executor!None
    BY <1>4, <2>1 DEF FoldStep
  <2>3. Executor!Accepted[0] = {}
    <3>1. 0 \in 0..MaxFiles
      BY ExecutorAssumed
    <3>2. Executor!Accepted[0] = AcceptedStep(Executor!Accepted, 0)
      BY <3>1, AcceptedUnfolds
    <3> QED
      BY <3>2 DEF AcceptedStep
  <2>4. Whole(g[1..0], 0)
    BY <2>1, <2>2, <2>3 DEF Whole, Executor!None, Summaries
  <2> QED
    BY <1>1, <2>4
<1>6. ASSUME NEW k \in 1..n, k - 1 \in G PROVE k \in G
  <2>1. k - 1 \in Nat /\ (k - 1) + 1 = k /\ k \in 0..MaxFiles
    BY <1>1, ExecutorAssumed
  <2>2. Whole(g[1..(k - 1)], k - 1)
    BY <1>6
  <2>3. 1..k \in SUBSET (1..n) /\ 1..k # {} /\ (1..k) \ {k} = 1..(k - 1)
    BY <1>1
  <2>4. Executor!Max(1..k) = k
    <3>1. k \in Nat /\ 1..k \in SUBSET (1..k)
      BY <2>1
    <3>2. Executor!Max(1..k) \in 1..k /\ \A x \in 1..k : x <= Executor!Max(1..k)
      BY <2>3, <3>1, LastIs
    <3>3. k \in 1..k
      BY <3>1
    <3> DEFINE m == Executor!Max(1..k)
    <3>4. m \in 1..k /\ k <= m
      BY <3>2, <3>3
    <3> HIDE DEF m
    <3>5. m = k
      BY <3>1, <3>4
    <3> QED
      BY <3>5 DEF m
  <2>5. g[1..k] = Executor!Accept(g[1..(k - 1)], k)
    BY <1>4, <2>3, <2>4 DEF FoldStep
  <2>6. Whole(g[1..k], k)
    BY <2>1, <2>2, <2>5, WholeStep
  <2> QED
    BY <1>1, <2>6
<1> HIDE DEF G
<1>7. n \in G
  <2>1. 0..n \subseteq G
    BY <1>1, <1>5, <1>6, UpTo
  <2> QED
    BY <1>1, <2>1
<1> QED
  BY <1>3, <1>7 DEF G

(* Once all is inspected the reports do not change, so the result keeps     *)
(* meaning them.                                                            *)
ResultInv ==
  /\ PoolInv
  /\ \A c \in Executor!Finished : report[c] \in Reports
  /\ pc = "returned" /\ completed = Executor!Captures =>
       Whole(result, selected)

LEMMA ResultInit == Executor!Init => ResultInv
BY PoolInit DEF Executor!Init, ResultInv, Executor!Finished

LEMMA ResultStep ==
  ASSUME ResultInv, [Executor!Next]_(Executor!vars)
  PROVE  ResultInv'
<1>1. PoolInv /\ PoolInv'
  BY PoolStep DEF ResultInv
<1>2. CASE Executor!FinishCapture
  <2>1. PICK c \in Executor!Running, r \in Executor!Report :
          report' = [d \in Executor!Finished \cup {c} |-> IF d = c THEN r ELSE report[d]]
    BY <1>2 DEF Executor!FinishCapture
  <2>2. r \in Reports
    BY DEF Executor!Report, Reports
  <2>3. \A d \in Executor!Finished' : report'[d] \in Reports
    BY <2>1, <2>2 DEF Executor!Finished, ResultInv
  <2>4. c \in started /\ c \notin Executor!Finished /\ started \subseteq Executor!Captures
    BY <1>1, ExecutorAssumed DEF Executor!Running, PoolInv, Executor!Captures
  <2>5. pc' # "returned"
    BY <1>1, <1>2, <2>4 DEF Executor!FinishCapture, PoolInv
  <2> QED
    BY <1>1, <2>3, <2>5 DEF ResultInv, Reports
<1>3. CASE Executor!Leave
  <2>1. /\ Executor!Finished = Executor!Captures /\ completed' = completed
        /\ report' = report /\ selected' = selected
        /\ pc' = "returned" => result' = Executor!SummaryFromResults(completed)
    BY <1>3 DEF Executor!Leave, Executor!PoolIdle
  <2>2. selected \in 0..MaxFiles /\ Executor!Captures = 1..selected
    BY <1>1 DEF PoolInv, Executor!Captures
  <2>3. \A c \in 1..selected : report[c] \in Reports
    BY <2>1, <2>2 DEF ResultInv
  <2>4. Whole(Executor!SummaryFromResults(1..selected), selected)
    BY <2>2, <2>3, SummaryOfAll
  <2>5. pc' = "returned" /\ completed' = Executor!Captures' => Whole(result', selected)
    BY <2>1, <2>2, <2>4 DEF Executor!Captures
  <2>6. Whole(result', selected) => Whole(result, selected)'
    BY <2>1 DEF Whole, Executor!Accepted, Summaries
  <2> QED
    BY <1>1, <2>1, <2>5, <2>6 DEF ResultInv, Executor!Finished, Reports
<1>4. CASE ~Executor!FinishCapture /\ ~Executor!Leave
  <2>1. \/ report' = report /\ pc' # "returned"
        \/ UNCHANGED <<report, pc, completed, selected, result>>
    BY <1>4 DEF Executor!Next, Executor!ListCaptures, Executor!StartCapture,
                Executor!RequestCancel, Executor!Collect, Executor!ReportProgress,
                Executor!AllCollected, Executor!Terminated, Executor!vars
  <2>2. report' = report
    BY <2>1
  <2>3. \A c \in Executor!Finished' : report'[c] \in Reports
    BY <2>2 DEF ResultInv, Executor!Finished
  <2>4. UNCHANGED <<report, selected, result>> /\ Whole(result, selected) =>
          Whole(result, selected)'
    BY DEF Whole, Executor!Accepted, Summaries
  <2> QED
    BY <1>1, <2>1, <2>3, <2>4 DEF ResultInv, Executor!Captures, Reports
<1> QED
  BY <1>2, <1>3, <1>4

(* Whatever the order in which the captures are inspected and taken, with   *)
(* any number of workers: an execute that takes them all returns what       *)
(* inspecting them one after the other gives, shared evidence included.     *)
THEOREM TimingIsIgnored == Executor!Spec => []ResultIgnoresTiming
<1>1. ResultInv => ResultIgnoresTiming
  BY DEF ResultInv, Whole, ResultIgnoresTiming, Executor!ResultIgnoresTiming,
         Executor!Captures
<1> QED
  BY ResultInit, ResultStep, <1>1, PTL DEF Executor!Spec
=============================================================================
