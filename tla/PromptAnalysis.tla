---------------------------- MODULE PromptAnalysis ----------------------------
(***************************************************************************)
(* One analysis of a prompt, from the request to the stored event:         *)
(* BasicSecurityWorkflow.analyze (backend/app/agent/workflow.py) with the  *)
(* semantic guard, the model runtime, the detector, the fusion table and   *)
(* the knowledge service it calls; api/analyze.py, which audits it; and    *)
(* lab/counterfactual.py, which analyses the part before the onset again.  *)
(*                                                                         *)
(* A prompt is the z-scores of its tokens, and a position in it counts     *)
(* tokens; how many characters each has is left out.  A chat template may  *)
(* merge the first token with one of its own, which then straddles the     *)
(* start of the prompt and is not observed.  The part before the onset is  *)
(* a text of its own, which is tokenised and scored anew: it may be the    *)
(* same tokens again, and may be others.                                   *)
(***************************************************************************)
EXTENDS CusumDetector, FusionPolicy, SequencesExt

CONSTANTS ZScore,       \* z-scores of the tokens
          MaxLength,    \* bound: tokens of a prompt
          Unit,         \* z-scores, K, H and scores are given in 1/Unit
          Resolution,   \* a difference counts above 1/Resolution: a million
          Card,         \* ids of knowledge cards, ordered: integers
          MaxResults    \* max_results of the knowledge service, at most 3

VARIABLES pc,           \* the step analyze has reached, or how it ended
          request,      \* who asks, in which mode, with what prompt
          semantic,     \* what the guard said
          trace,        \* of run_cpd
          result,       \* decision and knowledge, as the client gets them
          events,       \* decisions in the audit table
          recheck       \* the counterfactual of a lab run

vars == <<pc, request, semantic, trace, result, events, recheck>>

(* Assumed of the constants where they get their values.                    *)
PromptAssumption ==
  /\ CusumAssumption
  /\ ZScore \subseteq Int /\ MaxLength \in Nat
  /\ Unit \in Nat \ {0} /\ Resolution \in Nat \ {0}
  /\ IsFiniteSet(Card) /\ MaxResults \in Nat

Prompt == [z : BoundedSeq(ZScore, MaxLength) \ {<<>>},
           straddles : BOOLEAN, blanks : 0..1]

Request == [entry : {"api", "lab"}, mode : {"analysis", "gateway"},
            knowledge : {"off", "evidence", "report"}, prompt : Prompt]

(* DemoSampleService and LabService ask for a report.                       *)
Requests == {r \in Request : r.entry = "lab" => r.knowledge = "report"}

NoTrace == RunCpd(<<>>, H, FALSE)
NoResult == [decision |-> "none", status |-> "off", report |-> "off",
             evidence |-> <<>>, cited |-> {}, audited |-> FALSE]
NoRecheck == [reason |-> "none", interpretation |-> "none",
              score |-> 0, same |-> FALSE]

Init ==
  /\ pc = "received"
  /\ request \in Requests
  /\ semantic = "none" /\ trace = NoTrace
  /\ result = NoResult /\ recheck = NoRecheck
  /\ events = {}
-----------------------------------------------------------------------------
(* The semantic guard (semantic/runtime.py, parser.py).                     *)

(* The generated text: its safety label, and its categories.                *)
GuardOutput == [label : {"Safe", "Controversial", "Unsafe", "malformed"},
                categories : {"None", "known", "unknown"}]

(* A text that breaks the contract raises, which assess turns into          *)
(* unavailable.                                                             *)
ParseGuardOutput(raw) ==
  IF \/ raw.label = "malformed"
     \/ raw.label = "Safe" /\ raw.categories # "None"
     \/ raw.label # "Safe" /\ raw.categories # "known"
    THEN "unavailable"
    ELSE raw.label

(* Not loaded, or failing, the guard is unavailable; an input over its      *)
(* limit raises out of analyze.                                             *)
Assess ==
  /\ pc = "received"
  /\ \/ \E raw \in GuardOutput : semantic' = ParseGuardOutput(raw) /\ pc' = "score"
     \/ semantic' = "unavailable" /\ pc' = "score"
     \/ pc' = "failed" /\ UNCHANGED semantic
  /\ UNCHANGED <<request, trace, result, events, recheck>>
-----------------------------------------------------------------------------
(* The model runtime (model/runtime.py, token_stats.py) and the detector.   *)

(* Where the tokens lie in the formatted prompt: the prompt starts at 1.    *)
Tokens(p) ==
  [i \in 1..Len(p.z) |-> [start |-> IF i = 1 /\ p.straddles THEN 0 ELSE i,
                          end   |-> i + 1, z |-> p.z[i]]]

(* Tokens that lie in the span of the prompt.  Those that do not come first.*)
InSpan(token, lo, hi) == token.start >= lo /\ token.end <= hi

UserTokens(p) ==
  LET all     == Tokens(p)
      outside == Cardinality({i \in DOMAIN all : ~InSpan(all[i], 1, Len(p.z) + 1)})
  IN  [i \in 1..(Len(all) - outside) |-> all[i + outside]]

(* score_prompt raises if no token is observed; the onset is where its      *)
(* token starts, relative to the prompt.                                    *)
Observed(p) == UserTokens(p) # <<>>

UserScores(p) ==
  LET user == UserTokens(p) IN [i \in 1..Len(user) |-> user[i].z]

Detect(p) == RunCpd(UserScores(p), H, FALSE)

CharStart(p, cpd) == UserTokens(p)[cpd.onset].start - 1

(* Not loaded, too long, misaligned, or another model than was calibrated:  *)
(* each raises out of analyze.                                              *)
ScorePrompt ==
  /\ pc = "score"
  /\ \/ /\ Observed(request.prompt)
        /\ trace' = Detect(request.prompt)
        /\ pc' = "fuse"
     \/ pc' = "failed" /\ UNCHANGED trace
  /\ UNCHANGED <<request, semantic, result, events, recheck>>
-----------------------------------------------------------------------------
(* The fusion of the two (agent/workflow.py).                               *)
Decide ==
  /\ pc = "fuse"
  /\ result' = [result EXCEPT !.decision = Fuse(request.mode, semantic,
                                                trace.alarms # {})]
  /\ pc' = "enhance"
  /\ UNCHANGED <<request, semantic, trace, events, recheck>>
-----------------------------------------------------------------------------
(* The knowledge service (knowledge/service.py, retriever.py, reporting.py).*)

(* search: cards that match at all, best first, at most three.              *)
Search(score) ==
  LET matching == {c \in Card : score[c] > 0}
      better(c)   == {d \in matching : \/ score[d] > score[c]
                                       \/ score[d] = score[c] /\ d < c}
  IN  [k \in 1..Min({Cardinality(matching), MaxResults, 3}) |->
         CHOOSE c \in matching : Cardinality(better(c)) = k - 1]

(* What the model writes, or that it does not: the JSON, and what it cites. *)
RawReport ==
  [shape : {"timeout", "error", "invalid"}, ids : {{}}]
    \cup [shape : {"report"}, ids : SUBSET Card]

(* A slip: citations are not compared with what was retrieved.              *)
ParseAnyCitation(raw, allowed) == raw.shape = "report" /\ raw.ids # {}
ParseGroundedReport(raw, allowed) ==
  raw.shape = "report" /\ raw.ids # {} /\ raw.ids \subseteq allowed

(* generate: the model's report if it is valid, or the deterministic one.   *)
Generate(raw, evidence) ==
  IF ParseGroundedReport(raw, ToSet(evidence))
    THEN [report |-> "generated", cited |-> raw.ids]
    ELSE [report |-> "fallback", cited |-> ToSet(evidence)]

Enhancement(status, evidence, report) ==
  [status |-> status, evidence |-> evidence,
   report |-> report.report, cited |-> report.cited]

NoReport(why) == [report |-> why, cited |-> {}]

Unavailable == Enhancement("unavailable", <<>>, NoReport("unavailable"))

(* enhance, once the search has returned.                                   *)
Enhanced(mode, evidence, raw) ==
  LET report == Generate(raw, evidence) IN
  CASE evidence = <<>> ->
         Enhancement("degraded", <<>>,
                     NoReport(IF mode = "report" THEN "unavailable" ELSE "off"))
    [] evidence # <<>> /\ mode = "evidence" ->
         Enhancement("ready", evidence, NoReport("off"))
    [] OTHER ->
         Enhancement(IF report.report = "generated" THEN "ready" ELSE "degraded",
                     evidence, report)

(* merge_knowledge_enhancement writes the fields of the enhancement over    *)
(* those of the result.  Any exception in enhance makes it unavailable, as  *)
(* does a service that is not configured.                                   *)
Merge(basic, enhancement) ==
  [field \in DOMAIN basic |->
     IF field \in DOMAIN enhancement THEN enhancement[field] ELSE basic[field]]

Enhance ==
  /\ pc = "enhance"
  /\ \/ request.knowledge = "off" /\ UNCHANGED result
     \/ request.knowledge # "off" /\ result' = Merge(result, Unavailable)
     \/ /\ request.knowledge # "off"
        /\ \E score \in [Card -> 0..1], raw \in RawReport :
             result' = Merge(result, Enhanced(request.knowledge, Search(score), raw))
  /\ pc' = IF request.entry = "api" THEN "audit" ELSE "recheck"
  /\ UNCHANGED <<request, semantic, trace, events, recheck>>
-----------------------------------------------------------------------------
(* api/analyze.py: the event is appended in a transaction of its own.  A    *)
(* failure of it is logged, and the result returned without the mark.       *)
Audit ==
  /\ pc = "audit"
  /\ \/ /\ events' = events \cup {result.decision}
        /\ result' = [result EXCEPT !.audited = TRUE]
     \/ UNCHANGED <<events, result>>
  /\ pc' = "done"
  /\ UNCHANGED <<request, semantic, trace, recheck>>

(* CounterfactualRunner.run: the prompt before the onset, analysed again.   *)
(* Its tokens, where it is tokenised as before.  A slip: the prefix takes   *)
(* the token of the onset along.                                            *)
PrefixWithOnset(p, length) == [p EXCEPT !.z = SubSeq(p.z, 1, length + 1)]
Prefix(p, length) == [p EXCEPT !.z = SubSeq(p.z, 1, length)]

(* The scores of a text that is tokenised otherwise, or that the template   *)
(* holds a second time, where rfind finds that one: any there are.          *)
Rescored ==
  {RunCpd(z, H, FALSE).score : z \in BoundedSeq(ZScore, MaxLength) \ {<<>>}}

Inconclusive(reason) ==
  [reason |-> reason, interpretation |-> "inconclusive",
   score |-> 0, same |-> FALSE]

(* The detector's score, and the risk: its share of the threshold, up to 1. *)
Compared(original, score, same) ==
  [reason |-> "completed",
   interpretation |->
     IF \/ (original.score - score) * Resolution > Unit
        \/ (Min({original.score, H}) - Min({score, H})) * Resolution > H
       THEN "risk_reduced" ELSE "unchanged",
   score |-> score, same |-> same]

(* Any exception of the second analysis, and another model or calibration   *)
(* than in the first, leave the outcome open.                               *)
Counterfactuals(p, cpd) ==
  LET length == CharStart(p, cpd)
      prefix == Prefix(p, length)
  IN  CASE cpd.onset = 0 -> {Inconclusive("no_predicted_onset")}
        [] cpd.onset # 0 /\ length <= p.blanks ->
             {Inconclusive("invalid_predicted_onset")}
        [] OTHER ->
             {Inconclusive("recheck_failed"), Inconclusive("provenance_mismatch")}
               \cup {Compared(cpd, score, FALSE) : score \in Rescored}
               \cup (IF Observed(prefix)
                       THEN {Compared(cpd, Detect(prefix).score, TRUE)} ELSE {})

Recheck ==
  /\ pc = "recheck"
  /\ recheck' \in Counterfactuals(request.prompt, trace)
  /\ pc' = "done"
  /\ UNCHANGED <<request, semantic, trace, result, events>>

Done == pc \in {"done", "failed"} /\ UNCHANGED vars

Next ==
  Assess \/ ScorePrompt \/ Decide \/ Enhance \/ Audit \/ Recheck \/ Done

Spec == Init /\ [][Next]_vars
-----------------------------------------------------------------------------
(* Page's identity: the recursion of run_cpd computes, at every token, the  *)
(* largest excess over the drift of any run of tokens that ends there; the  *)
(* alarm is the first token where that reaches the threshold, and from the  *)
(* reported onset to the alarm the tokens themselves reach it.  So the      *)
(* score that calibrator.py thresholds agrees with the alarm at run time.   *)
Totals(z) ==
  LET total[i \in 0..Len(z)] == IF i = 0 THEN 0 ELSE total[i - 1] + z[i] IN total

Excess(z, from, to) ==
  Totals(z)[to] - Totals(z)[from - 1] - K * (to - from + 1)

PagesIdentity(z) ==
  LET reached == {i \in 1..Len(z) : \E j \in 1..i : Excess(z, j, i) >= H}
      runs    == {v \in (1..Len(z)) \X (1..Len(z)) : v[1] <= v[2]}
      cpd     == RunCpd(z, H, FALSE)
  IN  /\ cpd.score = Max({0} \cup {Excess(z, w[1], w[2]) : w \in runs})
      /\ cpd.alarms = reached
      /\ (cpd.score >= H) = (cpd.alarm # 0)
      /\ cpd.alarm # 0 => /\ cpd.alarm = Min(reached)
                          /\ Excess(z, cpd.onset, cpd.alarm) >= H

CusumIsMaximalExcess == PagesIdentity(UserScores(request.prompt))

(* A prompt is allowed only if neither detector had anything against it,    *)
(* and only the analysis mode lets one pass that the guard could not judge. *)
(* Knowledge explains the decision and never changes it, whatever failed on *)
(* the way; a report only cites what was retrieved for this prompt, and the *)
(* answer says audited exactly if an event with its decision is stored.     *)
AnswerIsGrounded ==
  pc = "done" =>
    /\ result.decision = "allow" <=>
         /\ trace.alarms = {}
         /\ \/ semantic = "Safe"
            \/ semantic = "unavailable" /\ request.mode = "analysis"
    /\ result.cited \subseteq ToSet(result.evidence)
    /\ result.report \in {"generated", "fallback"} <=> result.cited # {}
    /\ events = IF result.audited THEN {result.decision} ELSE {}

(* A counterfactual that is completed is of a prompt with an alarm, and     *)
(* says unchanged only if the part before the onset reaches the threshold   *)
(* by itself, up to the resolution.  It never does where it is tokenised as *)
(* before: an alarm there is the new tokens', not one that was overlooked.  *)
PrefixIsQuiet ==
  recheck.reason = "completed" =>
    /\ trace.alarms # {}
    /\ recheck.interpretation = "risk_reduced" => recheck.score < trace.score
    /\ recheck.interpretation = "unchanged" =>
         (H - recheck.score) * Resolution <= H
    /\ recheck.same => recheck.score < H
=============================================================================
