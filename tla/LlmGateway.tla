----------------------------- MODULE LlmGateway -----------------------------
(***************************************************************************)
(* The LLM gateway and the enhancement pipeline (app/llm/openrouter.py,    *)
(* app/llm/enhancement.py, app/domain/grounding.py).  One provider serves  *)
(* a list of findings one after the other: it posts, waits, posts again    *)
(* while that may help, reads the reply, and the pipeline makes of it one  *)
(* recommendation and one llm_calls row.                                   *)
(*                                                                         *)
(* What comes back of a post is one of                                     *)
(*   timeout, transport: the post fails before there is a status,          *)
(*   busy:       a status that is worth a retry,                           *)
(*   refused:    another status of 400 or more,                            *)
(*   malformed:  a body that is not a completion of a chat,                *)
(*   unparsed:   a completion whose content is not the object asked for,   *)
(*   odd:        references that cannot be looked up (not hashable),       *)
(*   foreign:    prose about another finding, or with an unknown code,     *)
(*   grounded:   what was asked for.                                       *)
(***************************************************************************)
EXTENDS Naturals, Sequences

CONSTANTS
    Finding,     \* the findings
    MaxRetries,  \* llm_max_retries
    NoCall       \* last_call before the first call

VARIABLES
    findings,  \* the list that enhance_findings goes through
    pc,        \* "idle", "asking", "done", "failed"
    attempt,   \* the loop variable of enhance()
    lastExc,   \* the last exception that its loop has caught
    lastCall,  \* provider.last_call
    recs,      \* the recommendations made so far
    sink,      \* the pipeline has a telemetry sink
    calls,     \* the llm_calls rows of the transaction
    said       \* said[i]: history, what came back of the posts for finding i

gateway == <<findings, pc, attempt, lastExc, lastCall, recs, sink, calls, said>>

Outcome == {"timeout", "transport", "busy", "refused", "malformed", "unparsed", "odd",
            "foreign", "grounded"}

Transient == {"timeout", "transport", "busy"}

\* about is history: the position of the finding that the call was made for.
Call == [about : Nat, status : {"success", "timeout", "error"}, tokens : BOOLEAN]

ASSUME GatewayAssumption == MaxRetries \in Nat /\ NoCall \notin Call

Source == {"llm", "fallback"}

\* grounding_passed: True, False, None.
Grounding == {"passed", "rejected", "unchecked"}

Recommendation == [finding : Finding, source : Source, grounding : Grounding]

\* The columns that come from last_call are those of the call it describes.
CallRow == [status : {"success", "rejected", "error"}, last : Call \cup {NoCall}]

Hearing == [before : SUBSET Outcome, last : Outcome \cup {"nothing"}]

Silence == [before |-> {}, last |-> "nothing"]

GatewayTypeOK ==
    /\ findings \in Seq(Finding)
    /\ pc \in {"idle", "asking", "done", "failed"}
    /\ attempt \in 0 .. MaxRetries + 1
    /\ lastExc \in {"none", "timeout", "transport"}
    /\ lastCall \in Call \cup {NoCall}
    /\ recs \in Seq(Recommendation)
    /\ sink \in BOOLEAN
    /\ calls \in Seq(CallRow)
    /\ said \in Seq(Hearing)

GatewayInit ==
    /\ findings = <<>> /\ recs = <<>> /\ calls = <<>> /\ said = <<>>
    /\ pc = "idle"
    /\ attempt = 0 /\ lastExc = "none"
    /\ lastCall = NoCall
    /\ sink = FALSE

-----------------------------------------------------------------------------
\* The finding in hand, by its position.
Current == Len(recs) + 1

\* enhance_findings.  The provider of a completion is new, and has a sink; the
\* one of an evaluation serves the next item with the last_call it has.
Begin(fs, telemetry) ==
    /\ \/ pc = "idle"
       \/ pc = "done" /\ ~sink /\ ~telemetry
    /\ findings' = fs /\ recs' = <<>> /\ calls' = <<>>
    /\ said' = [i \in 1 .. Len(fs) |-> Silence]
    /\ sink' = telemetry
    /\ pc' = IF fs = <<>> THEN "done" ELSE "asking"
    /\ attempt' = 0 /\ lastExc' = "none"
    /\ UNCHANGED lastCall

\* A post, made while the loop has attempts left, and what comes back of it.
Post(outcome) ==
    /\ pc = "asking" /\ attempt <= MaxRetries
    /\ said' = [said EXCEPT ![Current] =
          [before |-> (@.before \cup {@.last}) \ {"nothing"}, last |-> outcome]]

\* _record of the gateway.
Recorded(status, tokens) == [about |-> Current, status |-> status, tokens |-> tokens]

RowStatus == [passed |-> "success", rejected |-> "rejected", unchecked |-> "error"]

\* Mutant of Row: the status is the one of the call.
RowOfCall(grounding, last) ==
    [status |-> IF last = NoCall THEN "error" ELSE last.status, last |-> last]

\* _record_call: last_call is read after the call.
Row(grounding, last) == [status |-> RowStatus[grounding], last |-> last]

\* The finding in hand gets its recommendation; last is last_call by now.
Settle(source, grounding, last) ==
    /\ recs' = Append(recs, [finding |-> findings[Current], source |-> source,
                             grounding |-> grounding])
    /\ calls' = IF sink THEN Append(calls, Row(grounding, last)) ELSE calls
    /\ lastCall' = last
    /\ attempt' = 0 /\ lastExc' = "none"
    /\ pc' = IF Current = Len(findings) THEN "done" ELSE "asking"
    /\ UNCHANGED <<findings, sink>>

\* An LLMError: the deterministic narrative.
FallBack(last) == Settle("fallback", "unchecked", last)

\* After a backoff.
AskAgain(exc) ==
    /\ attempt' = attempt + 1
    /\ lastExc' = exc
    /\ UNCHANGED <<findings, pc, lastCall, recs, sink, calls>>

NoAnswer ==
    \E exc \in {"timeout", "transport"} : Post(exc) /\ AskAgain(exc)

\* Mutant of MayRetry: <= for <, so that the last attempt is retried too.
MayRetryLast == attempt <= MaxRetries

MayRetry == attempt < MaxRetries

Busy ==
    \/ MayRetry /\ Post("busy") /\ AskAgain(lastExc)
    \/ ~MayRetry /\ Post("busy") /\ FallBack(Recorded("error", FALSE))

\* Mutant of Refused: every status of 400 or more is retried.
RefusedRetries ==
    \/ MayRetry /\ Post("refused") /\ AskAgain(lastExc)
    \/ ~MayRetry /\ Post("refused") /\ FallBack(Recorded("error", FALSE))

Refused == Post("refused") /\ FallBack(Recorded("error", FALSE))

\* Mutant of Exhausted: only a timeout is turned into an LLMError.
ExhaustedTimeoutsOnly ==
    /\ pc = "asking" /\ attempt > MaxRetries /\ lastExc = "timeout"
    /\ FallBack(Recorded("timeout", FALSE))
    /\ UNCHANGED said

\* The loop ends by itself only after an exception on its last attempt.
Exhausted ==
    /\ pc = "asking" /\ attempt > MaxRetries
    /\ FallBack(Recorded(IF lastExc = "timeout" THEN "timeout" ELSE "error", FALSE))
    /\ UNCHANGED said

\* parse_enhancement raises LLMError before the call is recorded: last_call is
\* still the one of an earlier finding.
Unparsed == Post("unparsed") /\ FallBack(lastCall)

\* Mutant of Malformed: the finding is skipped.
MalformedSkips ==
    /\ Post("malformed")
    /\ findings' = SubSeq(findings, 1, Current - 1) \o SubSeq(findings, Current + 1, Len(findings))
    /\ pc' = IF Current = Len(findings) THEN "done" ELSE "asking"
    /\ UNCHANGED <<attempt, lastExc, lastCall, recs, sink, calls>>

\* KeyError, ValueError, AttributeError, TypeError: nobody catches them.
Malformed ==
    /\ Post("malformed")
    /\ pc' = "failed"
    /\ UNCHANGED <<findings, attempt, lastExc, lastCall, recs, sink, calls>>

\* check_grounding raises TypeError, after the call has been recorded.
OddReferences ==
    /\ Post("odd")
    /\ pc' = "failed"
    /\ lastCall' = Recorded("success", TRUE)
    /\ UNCHANGED <<findings, attempt, lastExc, recs, sink, calls>>

\* Mutant of Answered: what the check has rejected is kept all the same.
AnsweredUngated ==
    \/ Post("grounded") /\ Settle("llm", "passed", Recorded("success", TRUE))
    \/ Post("foreign") /\ Settle("llm", "rejected", Recorded("success", TRUE))

\* check_grounding passes exactly what refers to the finding asked about, and
\* cites no code but its own.
Answered ==
    \/ Post("grounded") /\ Settle("llm", "passed", Recorded("success", TRUE))
    \/ Post("foreign") /\ Settle("fallback", "rejected", Recorded("success", TRUE))

GatewayStep ==
    NoAnswer \/ Busy \/ Refused \/ Exhausted \/ Unparsed \/ Malformed \/ OddReferences \/ Answered

GatewayNext == GatewayStep \/ \E fs \in Seq(Finding), telemetry \in BOOLEAN : Begin(fs, telemetry)

GatewaySpec == GatewayInit /\ [][GatewayNext]_gateway

-----------------------------------------------------------------------------
(* Properties *)

\* "the LLM never gets to change a finding; it only gets to attach prose that
\* survives grounding": the recommendations are those of the first findings, in
\* their order, and each is what the last reply about its own finding deserves,
\* whatever the earlier attempts were and what was said of its neighbours.
RecommendationsAreVetted ==
    /\ Len(recs) <= Len(findings)
    /\ \A i \in 1 .. Len(recs) :
          /\ recs[i].finding = findings[i]
          /\ said[i].last # "nothing"
          /\ recs[i].source = "llm" <=> said[i].last = "grounded"
          /\ recs[i].grounding = "passed" <=> said[i].last = "grounded"
          /\ recs[i].grounding = "rejected" <=> said[i].last = "foreign"

\* "an llm_calls telemetry row per call": there is one for each recommendation;
\* it describes the call of its own finding and ends the way that one did, unless
\* its content did not parse - then it repeats an earlier one, tokens included.
TelemetryIsOwn ==
    /\ sink => Len(calls) = Len(recs)
    /\ \A i \in 1 .. Len(calls) :
          LET call == calls[i].last IN
          IF said[i].last = "unparsed" THEN call # NoCall => call.about < i
          ELSE /\ call # NoCall /\ call.about = i
               /\ call.tokens <=> said[i].last \in {"grounded", "foreign"}
               /\ call.status = "timeout" <=> said[i].last = "timeout"

\* "4xx (except 429) are caller errors and are not retried": nothing is posted
\* again after a definite answer, and nothing is asked out of turn.
AsksAgainOnlyIfTransient ==
    \A i \in 1 .. Len(said) :
        /\ said[i].before \subseteq Transient
        /\ i > Current => said[i] = Silence

\* "an LLM that is down, slow, or hallucinating": the loop over the findings
\* ends, whatever the provider does.
EnhancementEnds == pc = "asking" ~> pc \in {"done", "failed"}

Promise ==
    INSTANCE Advice WITH
        open <- IF pc \in {"idle", "failed"} THEN {} ELSE (Len(recs) + 1) .. Len(findings),
        heard <- {i \in 1 .. Len(said) : said[i].last = "grounded"},
        advised <- IF pc = "failed" THEN {} ELSE {<<i, recs[i].source>> : i \in 1 .. Len(recs)},
        phase <- CASE pc = "asking" -> "working" [] OTHER -> pc

\* The retries, the parsing and the check together give exactly one
\* recommendation for each finding, with prose only from a grounded reply about
\* it, or an exception and no recommendation at all.
ImplementsAdvice == Promise!Fallible

-----------------------------------------------------------------------------
(* A statement of the source that the code does not satisfy.               *)

\* "an LLM that is down, slow, or hallucinating degrades polish, never
\* correctness - every finding still produces a complete recommendation".
KeepsThePromise == Promise!Spec
=============================================================================
