--------------------------- MODULE PcapBatchScripts ---------------------------
(***************************************************************************)
(* The scripts below the triage and reconnaissance executors:              *)
(* scripts/inspect_pcap_batch.ps1 and inspect_pcap_recon_batch.ps1, each   *)
(* with a checkpoint file of its own, and inspect_pcap.ps1, which both     *)
(* start once per capture.  A triage and a reconnaissance mission run at   *)
(* the same time on one quarantine: they share its input directory, whose  *)
(* captures may be replaced meanwhile, and its output directory, where the *)
(* inspection leaves its report under the hash of the capture, and where   *)
(* reconnaissance removes every such report.                               *)
(*                                                                         *)
(* A batch may be killed at any point: by the executor's timeout           *)
(* (executor.py, recon_executor.py) or a restart.  Only the script dies:   *)
(* the inspection it started goes on and may leave its report later.       *)
(*                                                                         *)
(* A capture's content is a number that stands for its bytes and its hash. *)
(* It may be replaced by any other content, and by one that was there      *)
(* before.  A report is named after the content that was hashed; what it   *)
(* says was read by another pass over the capture.                         *)
(***************************************************************************)
EXTENDS Integers, Sequences, FiniteSetsExt, SequencesExt

CONSTANTS File,         \* captures: numbers, in the order of their paths
          MaxContent,   \* bound: last content of a capture
          Size,         \* content -> its size in bytes
          MaxFiles,     \* -MaxFiles of a triage batch
          MaxBatches,   \* bound: script -> batches
          MaxReplaced   \* bound: replacements of captures

ScriptsAssumption ==
  /\ IsFiniteSet(File) /\ File \subseteq Nat
  /\ MaxContent \in Nat \ {0} /\ MaxFiles \in Nat
  /\ Size \in [0..MaxContent -> Nat]

VARIABLES content,      \* capture -> its content now
          reports,      \* output directory: content named -> its evidence
          state,        \* script -> its checkpoint file
          batch,        \* script -> its batch
          inspector,    \* its inspection, and one that outlived its batch
          marker,       \* the .cancel file of the batch is there
          batches,      \* script -> batches started
          replaced,     \* replacements so far
          public,       \* script -> the summary last published
          recorded      \* history: script -> results saved since it was lost

vars == <<content, reports, state, batch, inspector, marker, batches, replaced,
          public, recorded>>

Script == {"triage", "recon"}

(* What a report says: the content whose packets were read, and, as         *)
(* history, how often the capture was replaced while it was inspected.      *)
Evidence == [read : {-1} \cup 0..MaxContent, swaps : Nat]
NoReport == [read |-> -1, swaps |-> 0]

(* An entry of a checkpoint, and what a summary counts of a capture.        *)
Entry == [sha : 0..MaxContent, result : {"succeeded", "failed"},
          evidence : Evidence]

NoEntries == [f \in {} |-> 0]

(* The checkpoint file: not there, not parsing (invalid_state), or whole.   *)
Missing == [file |-> "missing", entries |-> NoEntries]
Torn == [file |-> "torn", entries |-> NoEntries]
Whole(entries) == [file |-> "whole", entries |-> entries]
Quiet == [pc |-> "off", file |-> 0, pre |-> 0, sha |-> 0, read |-> 0, swaps |-> 0]
Exited(code) == [Quiet EXCEPT !.pc = code]
NoBatch == [pc |-> "off", todo |-> <<>>, entries |-> NoEntries,
            results |-> <<>>]

Init ==
  /\ content \in [File -> 0..MaxContent]
  /\ reports = NoEntries
  /\ state = [s \in Script |-> Missing]
  /\ batch = [s \in Script |-> NoBatch]
  /\ inspector = [s \in Script \cup {"orphan"} |-> Quiet]
  /\ marker = [s \in Script |-> FALSE]
  /\ batches = [s \in Script |-> 0]
  /\ replaced = 0
  /\ public = [s \in Script |-> <<>>]
  /\ recorded = [s \in Script |-> NoEntries]
-----------------------------------------------------------------------------
(* The environment: a capture is replaced, by a new content or by an old    *)
(* one; a cancel leaves its marker.                                         *)
Replace ==
  /\ replaced < MaxReplaced
  /\ \E f \in File, c \in 0..MaxContent :
       /\ c # content[f]
       /\ content' = [content EXCEPT ![f] = c]
       /\ inspector' = [i \in DOMAIN inspector |->
            IF inspector[i].file = f /\ inspector[i].pc \in {"rows", "save"}
              THEN [inspector[i] EXCEPT !.swaps = @ + 1] ELSE inspector[i]]
  /\ replaced' = replaced + 1
  /\ UNCHANGED <<reports, state, batch, marker, batches, public, recorded>>

RequestCancel(s) ==
  /\ batch[s].pc # "off" /\ ~marker[s]
  /\ marker' = [marker EXCEPT ![s] = TRUE]
  /\ UNCHANGED <<content, reports, state, batch, inspector, batches, replaced,
                 public, recorded>>
-----------------------------------------------------------------------------
(* inspect_pcap.ps1, with the container's two passes over the capture.      *)

Without(dir, names) == [c \in DOMAIN dir \ names |-> dir[c]]
With(dir, name, value) ==
  [c \in DOMAIN dir \cup {name} |-> IF c = name THEN value ELSE dir[c]]

(* The hash in the container, after the one on the host.                    *)
Digest(i) ==
  /\ inspector[i].pc = "digest"
  /\ inspector' = [inspector EXCEPT ![i].sha = content[inspector[i].file], ![i].pc = "rows"]
  /\ UNCHANGED <<content, reports, state, batch, marker, batches, replaced, public,
                 recorded>>

(* TShark reads the capture again; Docker or TShark may fail or time out.   *)
Rows(i) ==
  /\ inspector[i].pc = "rows"
  /\ inspector' = [inspector EXCEPT
       ![i].read = content[inspector[i].file], ![i].pc = "save"]
  /\ UNCHANGED <<content, reports, state, batch, marker, batches, replaced, public,
                 recorded>>

(* The capture must hash as before, on the host and in the container.  A    *)
(* slip: it is not compared.                                                *)
ChangedNever(q, now) == FALSE
Changed(q, now) == now # q.pre \/ now # q.sha

(* The report is written under the hash, over one of that name.             *)
SaveReport(i) ==
  LET q == inspector[i] IN
  /\ q.pc \in {"digest", "rows", "save"}
  /\ IF q.pc = "save" /\ ~Changed(q, content[q.file])
       THEN /\ reports' = With(reports, q.sha, [read |-> q.read, swaps |-> q.swaps])
            /\ inspector' = [inspector EXCEPT ![i] = Exited("exit 0")]
       ELSE /\ inspector' = [inspector EXCEPT ![i] = Exited("exit 2")]
            /\ UNCHANGED reports
  /\ UNCHANGED <<content, state, batch, marker, batches, replaced, public, recorded>>

OrphanEnds ==
  /\ inspector["orphan"].pc \in {"exit 0", "exit 2"}
  /\ inspector' = [inspector EXCEPT !["orphan"] = Quiet]
  /\ UNCHANGED <<content, reports, state, batch, marker, batches, replaced, public,
                 recorded>>

Inspect == \E i \in DOMAIN inspector : Digest(i) \/ Rows(i) \/ SaveReport(i)
-----------------------------------------------------------------------------
(* Both batch scripts.                                                      *)

(* Get-OrderedCaptureFiles: by size, then by path.                          *)
SizeOf(f) == Size[content[f]]
Before(f, g) == SizeOf(f) < SizeOf(g) \/ (SizeOf(f) = SizeOf(g) /\ f < g)

InOrder(files) ==
  CHOOSE q \in [1..Cardinality(files) -> files] :
    \A i, j \in DOMAIN q : i < j => Before(q[i], q[j])

Place(f) == Cardinality({g \in File : Before(g, f)}) + 1

Saved(s) == state[s].entries

(* A slip: an entry of any result is skipped, whatever its hash.            *)
IsRecorded(entries, f) == f \in DOMAIN entries
IsDone(entries, f) ==
  /\ f \in DOMAIN entries
  /\ entries[f].result = "succeeded" /\ entries[f].sha = content[f]

(* Select-Samples: up to five of every quartile, evenly spread.             *)
Sampled(n) ==
  LET quartile(q) == {i \in 0..(n - 1) : (4 * i) \div n = q}
      size(q)     == Cardinality(quartile(q))
      samples(q)  == Min({5, size(q)})
  IN  UNION {{1 + Min(quartile(q)) + ((2 * k + 1) * size(q)) \div (2 * samples(q)) :
                k \in 0..(samples(q) - 1)} : q \in {(4 * i) \div n : i \in 0..(n - 1)}}

(* Triage selects the first captures that are not done; reconnaissance      *)
(* samples them, done or not, and removes all reports.                      *)
Selected(s) ==
  LET todo    == {f \in File : ~IsDone(Saved(s), f)}
      sampled == {f \in File : Place(f) \in Sampled(Cardinality(File))}
      chosen  == IF s = "triage"
                   THEN SubSeq(InOrder(todo), 1, Min({MaxFiles, Cardinality(todo)}))
                   ELSE InOrder(sampled)
  IN  [i \in DOMAIN chosen |-> [file |-> chosen[i], sha |-> content[chosen[i]]]]

(* A checkpoint that does not parse ends the script before it begins.       *)
Start(s) ==
  /\ batch[s].pc = "off" /\ inspector[s].pc = "off"
  /\ batches[s] < MaxBatches[s]
  /\ state[s] # Torn
  /\ batches' = [batches EXCEPT ![s] = @ + 1]
  /\ batch' = [batch EXCEPT ![s] = [pc |-> "next", todo |-> Selected(s),
                                    entries |-> Saved(s), results |-> <<>>]]
  /\ reports' = IF s = "recon" THEN NoEntries ELSE reports
  /\ UNCHANGED <<content, state, inspector, marker, replaced, public, recorded>>

(* The next capture: the marker is looked at and taken away, or the         *)
(* inspection starts.  Reconnaissance hashes only now, takes the result of  *)
(* a capture that is done from its checkpoint, and removes the reports.     *)
Take(s) ==
  LET b == batch[s]
      f == b.todo[1].file
  IN
  /\ b.pc = "next" /\ b.todo # <<>>
  /\ CASE marker[s] ->
            /\ batch' = [batch EXCEPT ![s].todo = <<>>]
            /\ marker' = [marker EXCEPT ![s] = FALSE]
            /\ UNCHANGED <<reports, inspector>>
       [] ~marker[s] /\ s = "recon" /\ IsDone(b.entries, f) ->
            /\ batch' = [batch EXCEPT ![s].todo = Tail(@),
                                      ![s].results = Append(@, <<f, b.entries[f]>>)]
            /\ UNCHANGED <<reports, inspector, marker>>
       [] OTHER ->
            /\ inspector' = [inspector EXCEPT
                 ![s] = [pc |-> "digest", file |-> f, pre |-> content[f],
                         sha |-> 0, read |-> 0, swaps |-> 0]]
            /\ batch' = [batch EXCEPT
                 ![s].pc = "inspecting",
                 ![s].todo[1].sha = IF s = "recon" THEN content[f] ELSE @]
            /\ reports' = IF s = "recon" THEN NoEntries ELSE reports
            /\ UNCHANGED marker
  /\ UNCHANGED <<content, state, batches, replaced, public, recorded>>

(* Convert-ChildReport: the report must be of the capture that was hashed.  *)
(* Triage finds it by that name, reconnaissance takes the only one there    *)
(* is.                                                                      *)
ReportOf(s, sha) ==
  IF s = "triage" THEN {sha} \cap DOMAIN reports
  ELSE {c \in DOMAIN reports : Cardinality(DOMAIN reports) = 1 /\ c = sha}

Result(s, sha) ==
  IF inspector[s].pc = "exit 0" /\ ReportOf(s, sha) # {}
    THEN [sha |-> sha, result |-> "succeeded",
          evidence |-> reports[CHOOSE c \in ReportOf(s, sha) : TRUE]]
    ELSE [sha |-> sha, result |-> "failed", evidence |-> NoReport]

(* The result goes into the summary and, by Save-AtomicJson, the            *)
(* checkpoint.  A slip: the checkpoint has this batch's entries only.       *)
ThisEntryOnly(entries, f, entry) == With(NoEntries, f, entry)
Updated(entries, f, entry) == With(entries, f, entry)

Collect(s) ==
  LET b == batch[s]
      f == b.todo[1].file
      entry == Result(s, b.todo[1].sha)
      entries == Updated(b.entries, f, entry)
  IN
  /\ b.pc = "inspecting" /\ inspector[s].pc \in {"exit 0", "exit 2"}
  /\ inspector' = [inspector EXCEPT ![s] = Quiet]
  /\ reports' = IF s = "recon" THEN NoEntries ELSE Without(reports, {b.todo[1].sha})
  /\ batch' = [batch EXCEPT ![s] = [pc |-> "next", todo |-> Tail(b.todo),
                                    entries |-> entries,
                                    results |-> Append(b.results, <<f, entry>>)]]
  /\ state' = [state EXCEPT ![s] = Whole(entries)]
  /\ recorded' = [recorded EXCEPT ![s] = With(@, f, entry)]
  /\ UNCHANGED <<content, marker, batches, replaced, public>>

(* Nothing left: the checkpoint is saved once more and the summary          *)
(* published; the executor returns it.                                      *)
Publish(s) ==
  /\ batch[s].pc = "next" /\ batch[s].todo = <<>>
  /\ state' = [state EXCEPT ![s] = Whole(batch[s].entries)]
  /\ public' = [public EXCEPT ![s] = batch[s].results]
  /\ batch' = [batch EXCEPT ![s] = NoBatch]
  /\ marker' = [marker EXCEPT ![s] = FALSE]
  /\ UNCHANGED <<content, reports, inspector, batches, replaced, recorded>>

(* What is there after the script died in Save-AtomicJson: Move-Item -Force *)
(* deletes the old file before it moves the new one.                        *)
LeftByMove(old, new) == {old, new, Missing}

Killed(s) ==
  /\ batch[s].pc # "off"
  /\ batch' = [batch EXCEPT ![s] = NoBatch]
  /\ marker' = [marker EXCEPT ![s] = FALSE]
  /\ UNCHANGED <<content, reports, batches, replaced, public>>

(* The executor's timeout, or a restart, while an inspection runs.          *)
KilledInspecting(s) ==
  /\ batch[s].pc = "inspecting"
  /\ inspector["orphan"].pc = "off"
  /\ Killed(s)
  /\ inspector' = [inspector EXCEPT !["orphan"] = inspector[s], ![s] = Quiet]
  /\ UNCHANGED <<state, recorded>>

KilledSaving(s) ==
  /\ batch[s].pc = "next"
  /\ Killed(s)
  /\ state' \in {[state EXCEPT ![s] = left] :
                   left \in LeftByMove(state[s], Whole(batch[s].entries))}
  /\ recorded' = IF state'[s] = Missing THEN [recorded EXCEPT ![s] = NoEntries]
                                        ELSE recorded
  /\ UNCHANGED inspector

Run(s) == \/ Start(s) \/ Take(s) \/ Collect(s) \/ Publish(s)
          \/ KilledInspecting(s) \/ KilledSaving(s)

Next == \/ Replace
        \/ Inspect \/ OrphanEnds
        \/ \E s \in Script : Run(s) \/ RequestCancel(s)

Spec == Init /\ [][Next]_vars
-----------------------------------------------------------------------------
(* What a hash before and one after are worth, whatever reports lie around: *)
(* what a checkpoint or a summary calls succeeded was read from the content *)
(* it names, unless the capture was replaced at least twice between the     *)
(* container's hash and the host's last one: taken away, and put back.  A   *)
(* single replacement never gets through, whenever it comes.                *)
IsOfItsContent(entry) ==
  \/ entry.evidence.read = entry.sha
  \/ entry.evidence.swaps >= 2

EvidenceMatchesContent ==
  \A s \in Script :
    /\ \A f \in DOMAIN Saved(s) :
         Saved(s)[f].result = "succeeded" => IsOfItsContent(Saved(s)[f])
    /\ \A r \in ToSet(public[s]) :
         r[2].result = "succeeded" => IsOfItsContent(r[2])

(* A batch may be killed anywhere and the next one goes on: the checkpoint  *)
(* always parses, and holds the last result of every capture since it was   *)
(* last lost.  A triage batch inspects nothing again that is recorded as    *)
(* succeeded, and passes over nothing smaller that is not.                  *)
ResumeIsExact ==
  /\ \A s \in Script :
       /\ state[s] # Torn
       /\ Saved(s) = recorded[s]
  /\ \A i \in 1..Len(batch["triage"].todo) :
       LET c == batch["triage"].todo[i] IN
       ~(/\ c.file \in DOMAIN recorded["triage"]
         /\ recorded["triage"][c.file].result = "succeeded"
         /\ recorded["triage"][c.file].sha = c.sha)

(* Selecting passes over a capture only if its last recorded result is a    *)
(* success on the content that is there.                                    *)
NothingIsPassedOver ==
  [][batch["triage"].pc = "off" /\ batch'["triage"].pc = "next" =>
       LET todo == {c.file : c \in ToSet(batch'["triage"].todo)} IN
       \A f \in File \ todo :
         \/ /\ f \in DOMAIN recorded["triage"]
            /\ recorded["triage"][f].result = "succeeded"
            /\ recorded["triage"][f].sha = content[f]
         \/ /\ Cardinality(todo) = MaxFiles
            /\ \A g \in todo : SizeOf(g) <= SizeOf(f)]_vars
=============================================================================
