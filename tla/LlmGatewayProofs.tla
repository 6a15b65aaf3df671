-------------------------- MODULE LlmGatewayProofs --------------------------
(***************************************************************************)
(* Theorems about LlmGateway, for every list of findings, every number of  *)
(* retries and every sequence of replies.                                  *)
(***************************************************************************)
EXTENDS LlmGateway, SequenceTheorems, TLAPS

-----------------------------------------------------------------------------
(* The inductive invariant *)

\* The lists keep step: one recommendation for each finding done, one row for
\* each recommendation when there is a sink, one hearing for each finding.
InStep ==
    /\ Len(said) = Len(findings)
    /\ Len(recs) <= Len(findings)
    /\ Len(calls) = IF sink THEN Len(recs) ELSE 0
    /\ pc = "asking" => Len(recs) < Len(findings)

\* What last_call may be about: with a sink, the provider is new.
LastCallIsPast ==
    /\ pc = "idle" => lastCall = NoCall
    /\ pc = "asking" /\ sink => lastCall = NoCall \/ lastCall.about <= Len(recs)

\* The finding in hand was answered transiently or not at all; when its attempts
\* are used up, by the exception that the loop remembers.
StillOpen ==
    pc = "asking" =>
        /\ said[Current].last \in Transient \cup {"nothing"}
        /\ attempt > MaxRetries => lastExc # "none" /\ lastExc = said[Current].last

RecFits(rec, heard) ==
    /\ heard # "nothing"
    /\ rec.source = "llm" <=> heard = "grounded"
    /\ rec.grounding = "passed" <=> heard = "grounded"
    /\ rec.grounding = "rejected" <=> heard = "foreign"

CallFits(i, call, heard) ==
    IF heard = "unparsed" THEN call # NoCall => call.about < i
    ELSE /\ call # NoCall /\ call.about = i
         /\ call.tokens <=> heard \in {"grounded", "foreign"}
         /\ call.status = "timeout" <=> heard = "timeout"

RecsFit ==
    \A i \in 1 .. Len(recs) : recs[i].finding = findings[i] /\ RecFits(recs[i], said[i].last)

CallsFit == \A i \in 1 .. Len(calls) : CallFits(i, calls[i].last, said[i].last)

IInv ==
    /\ GatewayTypeOK
    /\ InStep
    /\ LastCallIsPast
    /\ AsksAgainOnlyIfTransient
    /\ StillOpen
    /\ RecsFit
    /\ CallsFit

-----------------------------------------------------------------------------
(* Lemmas about single steps *)

\* A hearing of a post is a hearing, and moves no other one.
LEMMA PostEffect ==
    ASSUME IInv, NEW outcome \in Outcome, Post(outcome)
    PROVE  /\ pc = "asking" /\ attempt <= MaxRetries
           /\ Current \in 1 .. Len(said)
           /\ said' \in Seq(Hearing) /\ Len(said') = Len(said)
           /\ \A i \in 1 .. Len(said) : i # Current => said'[i] = said[i]
           /\ said'[Current].last = outcome
           /\ said'[Current].before \subseteq Transient
<1> DEFINE heard == [before |-> (said[Current].before \cup {said[Current].last}) \ {"nothing"},
                     last |-> outcome]
<1>1. pc = "asking" /\ attempt <= MaxRetries /\ said' = [said EXCEPT ![Current] = heard]
  BY DEF Post
<1>2. said \in Seq(Hearing) /\ Len(said) \in Nat /\ Len(recs) \in Nat
  BY LenProperties DEF IInv, GatewayTypeOK
<1>3. Current \in 1 .. Len(said)
  BY <1>1, <1>2 DEF IInv, InStep, Current
<1>4. said[Current] \in Hearing
  BY <1>2, <1>3, ElementOfSeq
<1>5. heard \in Hearing
  BY <1>4 DEF Hearing
<1>6. heard.before \subseteq Transient
  BY <1>1, <1>3, <1>4 DEF IInv, AsksAgainOnlyIfTransient, StillOpen
<1>7. heard.last = outcome
  OBVIOUS
<1> HIDE DEF heard
<1>8. /\ said' \in Seq(Hearing) /\ Len(said') = Len(said)
      /\ \A i \in 1 .. Len(said) : said'[i] = IF i = Current THEN heard ELSE said[i]
  BY <1>1, <1>2, <1>3, <1>5, ExceptSeq
<1>9. QED
  BY <1>1, <1>3, <1>6, <1>7, <1>8

\* Asking again keeps the invariant, if what was heard is transient.
LEMMA AskAgainKeeps ==
    ASSUME IInv, NEW outcome \in Transient, Post(outcome),
           NEW exc \in {"none", "timeout", "transport"}, AskAgain(exc),
           attempt = MaxRetries => exc # "none" /\ exc = outcome
    PROVE  IInv'
<1>1. outcome \in Outcome
  BY DEF Transient, Outcome
<1>2. /\ pc = "asking" /\ attempt <= MaxRetries
      /\ Current \in 1 .. Len(said)
      /\ said' \in Seq(Hearing) /\ Len(said') = Len(said)
      /\ \A i \in 1 .. Len(said) : i # Current => said'[i] = said[i]
      /\ said'[Current].last = outcome
      /\ said'[Current].before \subseteq Transient
  BY <1>1, PostEffect
<1>3. /\ attempt' = attempt + 1 /\ lastExc' = exc
      /\ UNCHANGED <<findings, pc, lastCall, recs, sink, calls>> /\ Current' = Current
  BY DEF AskAgain, Current
<1>4. /\ Len(recs) \in Nat /\ Len(calls) \in Nat /\ Len(said) \in Nat
      /\ Len(calls) <= Len(recs) /\ Current = Len(recs) + 1
  BY LenProperties DEF IInv, GatewayTypeOK, InStep, Current
<1>5. GatewayTypeOK'
  BY <1>2, <1>3, GatewayAssumption DEF IInv, GatewayTypeOK
<1>6. InStep' /\ LastCallIsPast'
  BY <1>2, <1>3 DEF IInv, InStep, LastCallIsPast
<1>7. AsksAgainOnlyIfTransient'
  BY <1>2, <1>3, <1>4 DEF IInv, AsksAgainOnlyIfTransient
<1>8. StillOpen'
  BY <1>2, <1>3, GatewayAssumption DEF IInv, StillOpen, GatewayTypeOK
<1>9. RecsFit'
  BY <1>2, <1>3, <1>4 DEF IInv, RecsFit
<1>10. CallsFit'
  BY <1>2, <1>3, <1>4 DEF IInv, CallsFit
<1>11. QED
  BY <1>5, <1>6, <1>7, <1>8, <1>9, <1>10 DEF IInv

\* A recommendation that fits what was heard of its finding, with a row that
\* fits as well, keeps the invariant.
LEMMA SettleKeeps ==
    ASSUME IInv, pc = "asking", Current \in 1 .. Len(said),
           said' \in Seq(Hearing), Len(said') = Len(said),
           \A i \in 1 .. Len(said) : i # Current => said'[i] = said[i],
           said'[Current].before \subseteq Transient,
           NEW source \in Source, NEW grounding \in Grounding, NEW last \in Call \cup {NoCall},
           Settle(source, grounding, last),
           sink => last = NoCall \/ last.about <= Current,
           RecFits([finding |-> findings[Current], source |-> source, grounding |-> grounding],
                   said'[Current].last),
           sink => CallFits(Current, last, said'[Current].last)
    PROVE  IInv'
<1> DEFINE rec == [finding |-> findings[Current], source |-> source, grounding |-> grounding]
           row == [status |-> RowStatus[grounding], last |-> last]
<1>1. /\ findings \in Seq(Finding) /\ recs \in Seq(Recommendation) /\ calls \in Seq(CallRow)
      /\ Len(recs) \in Nat /\ Len(calls) \in Nat /\ Len(said) \in Nat /\ Len(findings) \in Nat
      /\ Len(said) = Len(findings) /\ Current = Len(recs) + 1
  BY LenProperties DEF IInv, GatewayTypeOK, InStep, Current
<1>2. rec \in Recommendation
  BY <1>1, ElementOfSeq DEF Recommendation
<1>3. row \in CallRow
  BY DEF CallRow, RowStatus, Grounding
<1>4. /\ recs' = Append(recs, rec)
      /\ calls' = IF sink THEN Append(calls, row) ELSE calls
      /\ lastCall' = last /\ attempt' = 0 /\ lastExc' = "none"
      /\ pc' = IF Current = Len(findings) THEN "done" ELSE "asking"
      /\ findings' = findings /\ sink' = sink
  BY DEF Settle, Row
<1>5. rec.finding = findings[Current] /\ row.last = last /\ RecFits(rec, said'[Current].last)
  OBVIOUS
<1> HIDE DEF rec, row
<1>6. /\ recs' \in Seq(Recommendation) /\ Len(recs') = Current
      /\ \A i \in 1 .. Len(recs) : recs'[i] = recs[i]
      /\ recs'[Current] = rec
  BY <1>1, <1>2, <1>4, AppendProperties
<1>7. sink => /\ calls' \in Seq(CallRow) /\ Len(calls') = Len(calls) + 1
              /\ \A i \in 1 .. Len(calls) : calls'[i] = calls[i]
              /\ calls'[Len(calls) + 1] = row
  BY <1>1, <1>3, <1>4, AppendProperties
<1>8. ~sink => calls' = calls
  BY <1>4
<1>9. Len(calls) = IF sink THEN Len(recs) ELSE 0
  BY DEF IInv, InStep
<1>10. Current' = Current + 1
  BY <1>6 DEF Current
<1>11. GatewayTypeOK'
  BY <1>1, <1>4, <1>6, <1>7, <1>8, GatewayAssumption DEF IInv, GatewayTypeOK
<1>12. InStep'
  BY <1>1, <1>4, <1>6, <1>7, <1>8, <1>9 DEF InStep
<1>13. LastCallIsPast'
  BY <1>4, <1>6 DEF LastCallIsPast
<1>14. AsksAgainOnlyIfTransient'
  BY <1>1, <1>10 DEF IInv, AsksAgainOnlyIfTransient
<1>15. StillOpen'
  <2>1. ASSUME pc' = "asking" PROVE said'[Current'] = Silence
    <3>1. Current # Len(findings)
      BY <1>4, <2>1
    <3>2. Current + 1 \in 1 .. Len(said) /\ Current + 1 > Current /\ Current + 1 # Current
      BY <1>1, <3>1
    <3>3. said[Current + 1] = Silence
      BY <3>2 DEF IInv, AsksAgainOnlyIfTransient
    <3>4. QED
      BY <1>10, <3>2, <3>3
  <2>2. QED
    BY <1>4, <2>1, GatewayAssumption DEF StillOpen, Silence
<1>16. RecsFit'
  BY <1>1, <1>4, <1>5, <1>6 DEF IInv, RecsFit
<1>17. CallsFit'
  <2>1. CASE ~sink
    BY <1>4, <1>9, <2>1 DEF CallsFit
  <2>2. CASE sink
    <3>1. Len(calls') = Current /\ Len(calls) = Len(recs) /\ calls'[Current].last = last
      BY <1>1, <1>5, <1>7, <1>9, <2>2
    <3>2. CallFits(Current, calls'[Current].last, said'[Current].last)
      BY <2>2, <3>1
    <3>3. ASSUME NEW i \in 1 .. Len(recs)
          PROVE  calls'[i] = calls[i] /\ said'[i] = said[i] /\ CallFits(i, calls[i].last, said[i].last)
      BY <1>1, <1>7, <2>2, <3>1, <3>3 DEF IInv, CallsFit
    <3>4. \A i \in 1 .. Current : i \in 1 .. Len(recs) \/ i = Current
      BY <1>1
    <3>5. QED
      BY <3>1, <3>2, <3>3, <3>4 DEF CallsFit
  <2>3. QED
    BY <2>1, <2>2
<1>18. QED
  BY <1>11, <1>12, <1>13, <1>14, <1>15, <1>16, <1>17 DEF IInv

\* What the gateway records is a call, about the finding in hand.
LEMMA RecordedCall ==
    ASSUME IInv, NEW status \in {"success", "timeout", "error"}, NEW tokens \in BOOLEAN
    PROVE  /\ Recorded(status, tokens) \in Call
           /\ Recorded(status, tokens) # NoCall
           /\ Recorded(status, tokens).about = Current
           /\ Recorded(status, tokens).status = status
           /\ Recorded(status, tokens).tokens = tokens
<1>1. Current \in Nat
  BY LenProperties DEF IInv, GatewayTypeOK, Current
<1>2. Recorded(status, tokens) \in Call
  BY <1>1 DEF Recorded, Call
<1>3. QED
  BY <1>2, GatewayAssumption DEF Recorded

\* An exception that nobody catches leaves everything as it was, and ends.
LEMMA FailureKeeps ==
    ASSUME IInv, NEW outcome \in Outcome, Post(outcome), pc' = "failed",
           UNCHANGED <<findings, attempt, lastExc, recs, sink, calls>>,
           lastCall' \in Call \cup {NoCall}
    PROVE  IInv'
<1>1. /\ Current \in 1 .. Len(said)
      /\ said' \in Seq(Hearing) /\ Len(said') = Len(said)
      /\ \A i \in 1 .. Len(said) : i # Current => said'[i] = said[i]
      /\ said'[Current].before \subseteq Transient
  BY PostEffect
<1>2. /\ Len(recs) \in Nat /\ Len(calls) \in Nat /\ Len(said) \in Nat
      /\ Len(calls) <= Len(recs) /\ Current = Len(recs) + 1 /\ Current' = Current
  BY LenProperties DEF IInv, GatewayTypeOK, InStep, Current
<1>3. GatewayTypeOK'
  BY <1>1 DEF IInv, GatewayTypeOK
<1>4. InStep' /\ LastCallIsPast' /\ StillOpen'
  BY <1>1 DEF IInv, InStep, LastCallIsPast, StillOpen
<1>5. AsksAgainOnlyIfTransient'
  BY <1>1, <1>2 DEF IInv, AsksAgainOnlyIfTransient
<1>6. RecsFit'
  BY <1>1, <1>2 DEF IInv, RecsFit
<1>7. CallsFit'
  BY <1>1, <1>2 DEF IInv, CallsFit
<1>8. QED
  BY <1>3, <1>4, <1>5, <1>6, <1>7 DEF IInv

-----------------------------------------------------------------------------
(* One lemma per action *)

\* A new list of findings keeps the invariant.
LEMMA BeginKeeps ==
    ASSUME IInv, NEW fs \in Seq(Finding), NEW telemetry \in BOOLEAN, Begin(fs, telemetry)
    PROVE  IInv'
<1>1. /\ findings' = fs /\ recs' = <<>> /\ calls' = <<>>
      /\ said' = [i \in 1 .. Len(fs) |-> Silence]
      /\ sink' = telemetry /\ attempt' = 0 /\ lastExc' = "none" /\ lastCall' = lastCall
      /\ pc' = IF fs = <<>> THEN "done" ELSE "asking"
      /\ telemetry => pc = "idle"
  BY DEF Begin
<1>2. Len(fs) \in Nat /\ (fs # <<>> => Len(fs) > 0)
  BY LenProperties, EmptySeq
<1>3. Silence \in Hearing
  BY DEF Silence, Hearing
<1>4. said' \in Seq(Hearing) /\ Len(said') = Len(fs) /\ \A i \in 1 .. Len(fs) : said'[i] = Silence
  <2>1. said' \in [1 .. Len(fs) -> Hearing]
    BY <1>1, <1>3
  <2>2. said' \in Seq(Hearing)
    BY <1>2, <2>1, SeqDef
  <2>3. DOMAIN said' = 1 .. Len(fs)
    BY <1>1
  <2>4. Len(said') = Len(fs)
    BY <1>2, <2>2, <2>3, LenProperties
  <2>5. QED
    BY <1>1, <2>2, <2>4
<1>5. Len(recs') = 0 /\ Len(calls') = 0 /\ recs' \in Seq(Recommendation) /\ calls' \in Seq(CallRow)
  BY <1>1, EmptySeq
<1>6. Current' = 1
  BY <1>5 DEF Current
<1>7. GatewayTypeOK'
  BY <1>1, <1>4, <1>5, GatewayAssumption DEF IInv, GatewayTypeOK
<1>8. InStep'
  BY <1>1, <1>2, <1>4, <1>5 DEF InStep
<1>9. LastCallIsPast'
  BY <1>1 DEF IInv, LastCallIsPast
<1>10. AsksAgainOnlyIfTransient'
  BY <1>4 DEF AsksAgainOnlyIfTransient, Silence
<1>11. StillOpen'
  BY <1>1, <1>2, <1>4, <1>6, GatewayAssumption DEF StillOpen, Silence
<1>12. RecsFit' /\ CallsFit'
  BY <1>5 DEF RecsFit, CallsFit
<1>13. QED
  BY <1>7, <1>8, <1>9, <1>10, <1>11, <1>12 DEF IInv

\* The post of an answer that settles the finding in hand keeps the invariant.
LEMMA HeardAndSettled ==
    ASSUME IInv, NEW outcome \in Outcome, Post(outcome),
           NEW source \in Source, NEW grounding \in Grounding, NEW last \in Call \cup {NoCall},
           Settle(source, grounding, last),
           sink => last = NoCall \/ last.about <= Current,
           source = "llm" <=> outcome = "grounded",
           grounding = "passed" <=> outcome = "grounded",
           grounding = "rejected" <=> outcome = "foreign",
           sink => CallFits(Current, last, outcome)
    PROVE  IInv'
<1>1. /\ pc = "asking" /\ Current \in 1 .. Len(said)
      /\ said' \in Seq(Hearing) /\ Len(said') = Len(said)
      /\ \A i \in 1 .. Len(said) : i # Current => said'[i] = said[i]
      /\ said'[Current].last = outcome
      /\ said'[Current].before \subseteq Transient
  BY PostEffect
<1>2. RecFits([finding |-> findings[Current], source |-> source, grounding |-> grounding], outcome)
  BY DEF RecFits, Outcome
<1>3. QED
  BY <1>1, <1>2, SettleKeeps

\* A definite error is recorded for the finding in hand.
LEMMA ErrorKeeps ==
    ASSUME IInv, NEW outcome \in {"busy", "refused"}, Post(outcome),
           FallBack(Recorded("error", FALSE))
    PROVE  IInv'
<1> DEFINE last == Recorded("error", FALSE)
<1>1. last \in Call /\ last # NoCall /\ last.about = Current /\ last.status = "error" /\ last.tokens = FALSE
  BY RecordedCall
<1>2. Settle("fallback", "unchecked", last)
  BY DEF FallBack
<1> HIDE DEF last
<1>3. Current \in Nat
  BY LenProperties DEF IInv, GatewayTypeOK, Current
<1>4. outcome \in Outcome /\ "fallback" \in Source /\ "unchecked" \in Grounding
  BY DEF Outcome, Source, Grounding
<1>5. CallFits(Current, last, outcome)
  BY <1>1 DEF CallFits
<1>6. QED
  BY <1>1, <1>2, <1>3, <1>4, <1>5, HeardAndSettled

\* The end of the loop, after an exception on its last attempt.
LEMMA ExhaustedKeeps ==
    ASSUME IInv, Exhausted
    PROVE  IInv'
<1> DEFINE status == IF lastExc = "timeout" THEN "timeout" ELSE "error"
           last == Recorded(status, FALSE)
           heard == said[Current].last
<1>1. /\ pc = "asking" /\ attempt > MaxRetries /\ said' = said
      /\ Settle("fallback", "unchecked", last)
  BY DEF Exhausted, FallBack
<1>2. /\ last \in Call /\ last # NoCall /\ last.about = Current /\ last.status = status
      /\ last.tokens = FALSE
  BY RecordedCall
<1>3. said \in Seq(Hearing) /\ Len(said) \in Nat /\ Len(recs) \in Nat /\ Current = Len(recs) + 1
  BY LenProperties DEF IInv, GatewayTypeOK, Current
<1>4. Current \in 1 .. Len(said)
  BY <1>1, <1>3 DEF IInv, InStep
<1>5. heard \in {"timeout", "transport"} /\ heard = lastExc
  BY <1>1 DEF IInv, StillOpen, GatewayTypeOK
<1>6. CallFits(Current, last, heard)
  BY <1>2, <1>5 DEF CallFits
<1>7. said[Current].before \subseteq Transient
  BY <1>4 DEF IInv, AsksAgainOnlyIfTransient
<1>8. RecFits([finding |-> findings[Current], source |-> "fallback", grounding |-> "unchecked"], heard)
  BY <1>5 DEF RecFits
<1>9. "fallback" \in Source /\ "unchecked" \in Grounding
  BY DEF Source, Grounding
<1>10. said' \in Seq(Hearing) /\ said'[Current].before \subseteq Transient /\ said'[Current].last = heard
  BY <1>1, <1>3, <1>7
<1> HIDE DEF last, heard
<1>11. QED
  BY <1>1, <1>2, <1>3, <1>4, <1>6, <1>8, <1>9, <1>10, SettleKeeps

\* A reply that does not parse: the row repeats what was recorded before.
LEMMA UnparsedKeeps ==
    ASSUME IInv, Unparsed
    PROVE  IInv'
<1>1. Post("unparsed") /\ Settle("fallback", "unchecked", lastCall)
  BY DEF Unparsed, FallBack
<1>2. lastCall \in Call \cup {NoCall} /\ Len(recs) \in Nat /\ Current = Len(recs) + 1
  BY LenProperties DEF IInv, GatewayTypeOK, Current
<1>3. pc = "asking"
  BY <1>1 DEF Post
<1>4. sink => lastCall = NoCall \/ lastCall.about <= Len(recs)
  BY <1>3 DEF IInv, LastCallIsPast
<1>5. lastCall # NoCall => lastCall.about \in Nat
  BY <1>2 DEF Call
<1>6. sink => CallFits(Current, lastCall, "unparsed")
  BY <1>2, <1>4, <1>5 DEF CallFits
<1>7. "unparsed" \in Outcome /\ "fallback" \in Source /\ "unchecked" \in Grounding
  BY DEF Outcome, Source, Grounding
<1>8. sink => lastCall = NoCall \/ lastCall.about <= Current
  BY <1>2, <1>4, <1>5
<1>9. QED
  BY <1>1, <1>2, <1>6, <1>7, <1>8, HeardAndSettled

\* A reply that parses is passed or rejected, and recorded either way.
LEMMA AnsweredKeeps ==
    ASSUME IInv, Answered
    PROVE  IInv'
<1> DEFINE last == Recorded("success", TRUE)
<1>1. last \in Call /\ last # NoCall /\ last.about = Current /\ last.status = "success" /\ last.tokens = TRUE
  BY RecordedCall
<1>2. \/ Post("grounded") /\ Settle("llm", "passed", last)
      \/ Post("foreign") /\ Settle("fallback", "rejected", last)
  BY DEF Answered
<1> HIDE DEF last
<1>3. Current \in Nat
  BY LenProperties DEF IInv, GatewayTypeOK, Current
<1>4. {"grounded", "foreign"} \subseteq Outcome /\ {"llm", "fallback"} = Source /\ {"passed", "rejected"} \subseteq Grounding
  BY DEF Outcome, Source, Grounding
<1>5. CallFits(Current, last, "grounded") /\ CallFits(Current, last, "foreign")
  BY <1>1 DEF CallFits
<1>6. CASE Post("grounded") /\ Settle("llm", "passed", last)
  BY <1>1, <1>3, <1>4, <1>5, <1>6, HeardAndSettled
<1>7. CASE Post("foreign") /\ Settle("fallback", "rejected", last)
  BY <1>1, <1>3, <1>4, <1>5, <1>7, HeardAndSettled
<1>8. QED
  BY <1>2, <1>6, <1>7

-----------------------------------------------------------------------------
(* The invariant *)

\* The invariant holds before the first call.
LEMMA InitGood == ASSUME GatewayInit PROVE IInv
<1>1. findings = <<>> /\ recs = <<>> /\ calls = <<>> /\ said = <<>>
  BY DEF GatewayInit
<1>2. /\ Len(findings) = 0 /\ Len(recs) = 0 /\ Len(calls) = 0 /\ Len(said) = 0
      /\ findings \in Seq(Finding) /\ recs \in Seq(Recommendation)
      /\ calls \in Seq(CallRow) /\ said \in Seq(Hearing)
  BY <1>1, EmptySeq
<1>3. GatewayTypeOK
  <2>1. pc = "idle" /\ attempt = 0 /\ lastExc = "none" /\ lastCall = NoCall /\ sink = FALSE
    BY DEF GatewayInit
  <2>2. attempt \in 0 .. MaxRetries + 1
    BY <2>1, GatewayAssumption
  <2>3. QED
    BY <1>2, <2>1, <2>2 DEF GatewayTypeOK
<1>4. InStep /\ LastCallIsPast /\ AsksAgainOnlyIfTransient /\ StillOpen /\ RecsFit /\ CallsFit
  BY <1>2 DEF GatewayInit, InStep, LastCallIsPast, AsksAgainOnlyIfTransient, StillOpen, RecsFit, CallsFit
<1>5. QED
  BY <1>3, <1>4 DEF IInv

\* Every step of the gateway keeps the invariant.
LEMMA NextKeeps == ASSUME IInv, [GatewayNext]_gateway PROVE IInv'
<1>1. CASE NoAnswer
  <2>1. PICK exc \in {"timeout", "transport"} : Post(exc) /\ AskAgain(exc)
    BY <1>1 DEF NoAnswer
  <2>2. exc \in Transient /\ exc \in {"none", "timeout", "transport"} /\ exc # "none"
    BY DEF Transient
  <2>3. QED
    BY <2>1, <2>2, AskAgainKeeps
<1>2. CASE Busy
  <2>1. CASE MayRetry /\ Post("busy") /\ AskAgain(lastExc)
    <3>1. "busy" \in Transient /\ lastExc \in {"none", "timeout", "transport"}
      BY DEF IInv, GatewayTypeOK, Transient
    <3>2. attempt # MaxRetries
      BY <2>1, GatewayAssumption DEF MayRetry, IInv, GatewayTypeOK
    <3>3. QED
      BY <2>1, <3>1, <3>2, AskAgainKeeps
  <2>2. CASE ~MayRetry /\ Post("busy") /\ FallBack(Recorded("error", FALSE))
    BY <2>2, ErrorKeeps
  <2>3. QED
    BY <1>2, <2>1, <2>2 DEF Busy
<1>3. CASE Refused
  BY <1>3, ErrorKeeps DEF Refused
<1>4. CASE Exhausted
  BY <1>4, ExhaustedKeeps
<1>5. CASE Unparsed
  BY <1>5, UnparsedKeeps
<1>6. CASE Malformed
  <2>1. /\ Post("malformed") /\ pc' = "failed"
        /\ UNCHANGED <<findings, attempt, lastExc, recs, sink, calls>> /\ lastCall' = lastCall
    BY <1>6 DEF Malformed
  <2>2. "malformed" \in Outcome /\ lastCall' \in Call \cup {NoCall}
    BY <2>1 DEF Outcome, IInv, GatewayTypeOK
  <2>3. QED
    BY <2>1, <2>2, FailureKeeps
<1>7. CASE OddReferences
  <2>1. /\ Post("odd") /\ pc' = "failed"
        /\ UNCHANGED <<findings, attempt, lastExc, recs, sink, calls>>
        /\ lastCall' = Recorded("success", TRUE)
    BY <1>7 DEF OddReferences
  <2>2. "odd" \in Outcome /\ Recorded("success", TRUE) \in Call
    BY RecordedCall DEF Outcome
  <2>3. QED
    BY <2>1, <2>2, FailureKeeps
<1>8. CASE Answered
  BY <1>8, AnsweredKeeps
<1>9. CASE \E fs \in Seq(Finding), telemetry \in BOOLEAN : Begin(fs, telemetry)
  BY <1>9, BeginKeeps
<1>10. CASE UNCHANGED gateway
  BY <1>10 DEF gateway, IInv, GatewayTypeOK, InStep, LastCallIsPast, AsksAgainOnlyIfTransient,
               StillOpen, RecsFit, CallsFit, RecFits, CallFits, Current
<1>11. QED
  BY <1>1, <1>2, <1>3, <1>4, <1>5, <1>6, <1>7, <1>8, <1>9, <1>10 DEF GatewayNext, GatewayStep

\* The invariant holds throughout.
LEMMA GatewayIsGood == GatewaySpec => []IInv
<1>1. GatewayInit => IInv
  BY InitGood
<1>2. IInv /\ [GatewayNext]_gateway => IInv'
  BY NextKeeps
<1>3. QED
  BY <1>1, <1>2, PTL DEF GatewaySpec

-----------------------------------------------------------------------------
(* Theorems *)

\* Type correctness, for every number of retries.
THEOREM GatewayTypes == GatewaySpec => []GatewayTypeOK
<1>1. IInv => GatewayTypeOK
  BY DEF IInv
<1>2. QED
  BY <1>1, GatewayIsGood, PTL

\* Each finding gets the recommendation that the last reply about it deserves.
THEOREM Vetted == GatewaySpec => []RecommendationsAreVetted
<1>1. IInv => RecommendationsAreVetted
  BY DEF IInv, InStep, RecsFit, RecFits, RecommendationsAreVetted
<1>2. QED
  BY <1>1, GatewayIsGood, PTL

\* Each telemetry row is about the call of its own finding, or repeats an
\* earlier one when the content of the reply did not parse.
THEOREM Telemetry == GatewaySpec => []TelemetryIsOwn
<1>1. IInv => TelemetryIsOwn
  BY DEF IInv, InStep, CallsFit, CallFits, TelemetryIsOwn
<1>2. QED
  BY <1>1, GatewayIsGood, PTL

\* Nothing is posted again after a definite answer, and nothing out of turn.
THEOREM Retries == GatewaySpec => []AsksAgainOnlyIfTransient
<1>1. IInv => AsksAgainOnlyIfTransient
  BY DEF IInv
<1>2. QED
  BY <1>1, GatewayIsGood, PTL

-----------------------------------------------------------------------------
(* The refinement *)

Open == IF pc \in {"idle", "failed"} THEN {} ELSE (Len(recs) + 1) .. Len(findings)

Heard == {i \in 1 .. Len(said) : said[i].last = "grounded"}

Advised == IF pc = "failed" THEN {} ELSE {<<i, recs[i].source>> : i \in 1 .. Len(recs)}

Phase == CASE pc = "asking" -> "working" [] OTHER -> pc

\* The finding in hand gets its recommendation.
Advises(i, source) ==
    /\ Phase = "working" /\ i \in Open
    /\ Open' = Open \ {i}
    /\ Advised' = Advised \cup {<<i, source>>}
    /\ Phase' = IF Open' = {} THEN "done" ELSE "working"

\* What the abstract actions are, in terms of the gateway's variables.
LEMMA AbstractSteps ==
    /\ Promise!Init <=> Open = {} /\ Heard = {} /\ Advised = {} /\ Phase = "idle"
    /\ Promise!Start <=>
          /\ Phase \in {"idle", "done"}
          /\ Open' \in SUBSET Nat /\ Heard' = {} /\ Advised' = {}
          /\ Phase' = IF Open' = {} THEN "done" ELSE "working"
    /\ \A i : Promise!Enhance(i) <=> Advises(i, "llm") /\ Heard' = Heard \cup {i}
    /\ \A i : Promise!FallBack(i) <=> Advises(i, "fallback") /\ i \notin Heard /\ UNCHANGED Heard
    /\ Promise!Fail <=>
          /\ Phase = "working" /\ Phase' = "failed"
          /\ Open' = {} /\ Advised' = {} /\ UNCHANGED Heard
    /\ Promise!Next <=>
          \/ Promise!Start
          \/ \E i \in Open : Promise!Enhance(i) \/ Promise!FallBack(i)
    /\ UNCHANGED Promise!vars <=> UNCHANGED <<Open, Heard, Advised, Phase>>
<1>1. Promise!Init <=> Open = {} /\ Heard = {} /\ Advised = {} /\ Phase = "idle"
  BY DEF Promise!Init, Open, Heard, Advised, Phase
<1>2. Promise!Start <=>
         /\ Phase \in {"idle", "done"}
         /\ Open' \in SUBSET Nat /\ Heard' = {} /\ Advised' = {}
         /\ Phase' = IF Open' = {} THEN "done" ELSE "working"
  BY DEF Promise!Start, Open, Heard, Advised, Phase
<1>3. ASSUME NEW i, NEW source
      PROVE  Promise!Advise(i, source) <=> Advises(i, source)
  BY DEF Promise!Advise, Advises, Open, Advised, Phase
<1>4. ASSUME NEW i
      PROVE  Promise!Enhance(i) <=> Advises(i, "llm") /\ Heard' = Heard \cup {i}
  BY <1>3 DEF Promise!Enhance, Heard
<1>5. ASSUME NEW i
      PROVE  Promise!FallBack(i) <=> Advises(i, "fallback") /\ i \notin Heard /\ UNCHANGED Heard
  BY <1>3 DEF Promise!FallBack, Heard
<1>6. Promise!Fail <=> /\ Phase = "working" /\ Phase' = "failed"
                       /\ Open' = {} /\ Advised' = {} /\ UNCHANGED Heard
  BY DEF Promise!Fail, Open, Heard, Advised, Phase
<1>7. Promise!Next <=>
         \/ Promise!Start
         \/ \E i \in Open : Promise!Enhance(i) \/ Promise!FallBack(i)
  BY DEF Promise!Next, Open
<1>8. UNCHANGED Promise!vars <=> UNCHANGED <<Open, Heard, Advised, Phase>>
  BY DEF Promise!vars, Open, Heard, Advised, Phase
<1>9. QED
  BY <1>1, <1>2, <1>4, <1>5, <1>6, <1>7, <1>8

\* The finding in hand was not heard of in a grounded reply before.
LEMMA CurrentIsUnheard == ASSUME IInv, pc = "asking" PROVE Current \notin Heard
BY DEF IInv, StillOpen, Transient, Heard

\* A post is heard as what it is.
LEMMA PostHears ==
    ASSUME IInv, NEW outcome \in Outcome, Post(outcome)
    PROVE  Heard' = IF outcome = "grounded" THEN Heard \cup {Current} ELSE Heard
<1>1. /\ pc = "asking" /\ Current \in 1 .. Len(said) /\ Len(said') = Len(said)
      /\ \A i \in 1 .. Len(said) : i # Current => said'[i] = said[i]
      /\ said'[Current].last = outcome
  BY PostEffect
<1>2. Current \notin Heard
  BY <1>1, CurrentIsUnheard
<1>3. PICK c, n : c = Current /\ n = Len(said)
  OBVIOUS
<1>4. Heard' = {i \in 1 .. n : said'[i].last = "grounded"}
  BY <1>1, <1>3 DEF Heard
<1>5. QED
  BY <1>1, <1>2, <1>3, <1>4 DEF Heard

\* The recommendation of the finding in hand is an Advise step.
LEMMA SettleAdvises ==
    ASSUME IInv, pc = "asking", NEW source \in Source, NEW grounding \in Grounding,
           NEW last, Settle(source, grounding, last),
           IF source = "llm" THEN Heard' = Heard \cup {Current} ELSE UNCHANGED Heard
    PROVE  Promise!Next
<1> DEFINE rec == [finding |-> findings[Current], source |-> source, grounding |-> grounding]
<1>1. /\ findings \in Seq(Finding) /\ recs \in Seq(Recommendation)
      /\ Len(recs) \in Nat /\ Len(findings) \in Nat /\ Current = Len(recs) + 1
      /\ Current \in 1 .. Len(findings)
  BY LenProperties DEF IInv, GatewayTypeOK, InStep, Current
<1>2. rec \in Recommendation
  BY <1>1, ElementOfSeq DEF Recommendation
<1>3. /\ recs' = Append(recs, rec) /\ findings' = findings
      /\ pc' = IF Current = Len(findings) THEN "done" ELSE "asking"
  BY DEF Settle
<1>4. rec.source = source
  OBVIOUS
<1> HIDE DEF rec
<1>5. /\ Len(recs') = Current
      /\ \A i \in 1 .. Len(recs) : recs'[i] = recs[i]
      /\ recs'[Current] = rec
  BY <1>1, <1>2, <1>3, AppendProperties
<1>6. Phase = "working" /\ Current \in Open /\ Open = Current .. Len(findings)
  BY <1>1 DEF Phase, Open
<1>7. Open' = (Current + 1) .. Len(findings)
  BY <1>1, <1>3, <1>5 DEF Open
<1>8. Open' = Open \ {Current}
  BY <1>1, <1>6, <1>7
<1>9. Phase' = IF Open' = {} THEN "done" ELSE "working"
  <2>1. Open' = {} <=> Current = Len(findings)
    <3>1. PICK c \in Nat, n \in Nat : c = Current /\ n = Len(findings) /\ c <= n
      BY <1>1
    <3>2. c < n => c + 1 \in (c + 1) .. n
      BY <3>1
    <3>3. c = n => (c + 1) .. n = {}
      BY <3>1
    <3>4. c = n \/ c < n
      BY <3>1
    <3>5. QED
      BY <1>7, <3>1, <3>2, <3>3, <3>4
  <2>2. QED
    BY <1>3, <2>1 DEF Phase
<1>10. Advised' = Advised \cup {<<Current, source>>}
  <2>1. Advised' = {<<i, recs'[i].source>> : i \in 1 .. Current}
    BY <1>3, <1>5 DEF Advised
  <2>2. 1 .. Current = (1 .. Len(recs)) \cup {Current}
    BY <1>1
  <2>3. \A i \in 1 .. Len(recs) : recs'[i].source = recs[i].source
    BY <1>5
  <2>4. recs'[Current].source = source
    BY <1>4, <1>5
  <2>5. QED
    BY <2>1, <2>2, <2>3, <2>4 DEF Advised
<1>11. Advises(Current, source)
  BY <1>6, <1>8, <1>9, <1>10 DEF Advises
<1>12. PICK i : i = Current
  OBVIOUS
<1>13. Promise!Enhance(i) \/ Promise!FallBack(i)
  <2>1. CASE source = "llm"
    <3>1. Promise!Enhance(i) <=> Advises(i, "llm") /\ Heard' = Heard \cup {i}
      BY AbstractSteps
    <3>2. Advises(i, "llm") /\ Heard' = Heard \cup {i}
      BY <1>11, <1>12, <2>1
    <3>3. QED
      BY <3>1, <3>2
  <2>2. CASE source = "fallback"
    <3>1. Promise!FallBack(i) <=> Advises(i, "fallback") /\ i \notin Heard /\ UNCHANGED Heard
      BY AbstractSteps
    <3>2. Advises(i, "fallback") /\ i \notin Heard
      BY <1>11, <1>12, <2>2, CurrentIsUnheard
    <3>3. UNCHANGED Heard
      BY <2>2
    <3>4. QED
      BY <3>1, <3>2, <3>3
  <2>3. QED
    BY <2>1, <2>2 DEF Source
<1>14. QED
  <2>1. Promise!Next <=>
           \/ Promise!Start
           \/ \E j \in Open : Promise!Enhance(j) \/ Promise!FallBack(j)
    BY AbstractSteps
  <2>2. i \in Open
    BY <1>6, <1>12
  <2>3. QED
    BY <1>13, <2>1, <2>2

\* Every step of the gateway is a step of Advice, a failure, or none.
LEMMA StepImplements ==
    ASSUME IInv, [GatewayNext]_gateway
    PROVE  [Promise!Next \/ Promise!Fail]_(Promise!vars)
<1>1. ASSUME UNCHANGED <<findings, pc, recs, Heard>>
      PROVE  UNCHANGED Promise!vars
  BY <1>1, AbstractSteps DEF Open, Advised, Phase
<1>2. ASSUME NEW outcome \in Outcome \ {"grounded"}, Post(outcome), NEW exc, AskAgain(exc)
      PROVE  UNCHANGED Promise!vars
  BY <1>1, <1>2, PostHears DEF AskAgain
<1>3. ASSUME NEW outcome \in Outcome \ {"grounded"}, Post(outcome), pc' = "failed"
      PROVE  Promise!Fail
  BY <1>3, AbstractSteps, PostHears DEF Post, Open, Advised, Phase
<1>4. {"llm", "fallback"} = Source /\ {"passed", "rejected", "unchecked"} = Grounding
  BY DEF Source, Grounding
<1>5. ASSUME NEW outcome \in Outcome \ {"grounded"}, Post(outcome), NEW last, FallBack(last)
      PROVE  Promise!Next
  BY <1>4, <1>5, SettleAdvises, PostHears DEF FallBack, Post
<1>6. CASE NoAnswer
  BY <1>2, <1>6 DEF NoAnswer, Outcome
<1>7. CASE Busy
  BY <1>2, <1>5, <1>7 DEF Busy, Outcome
<1>8. CASE Refused
  BY <1>5, <1>8 DEF Refused, Outcome
<1>9. CASE Exhausted
  <2>1. pc = "asking" /\ UNCHANGED Heard
    BY <1>9 DEF Exhausted, Heard
  <2>2. QED
    BY <1>4, <1>9, <2>1, SettleAdvises DEF Exhausted, FallBack
<1>10. CASE Unparsed
  BY <1>5, <1>10 DEF Unparsed, Outcome
<1>11. CASE Malformed
  BY <1>3, <1>11 DEF Malformed, Outcome
<1>12. CASE OddReferences
  BY <1>3, <1>12 DEF OddReferences, Outcome
<1>13. CASE Answered
  <2>1. "grounded" \in Outcome /\ "foreign" \in Outcome
    BY DEF Outcome
  <2>2. QED
    BY <1>4, <1>13, <2>1, SettleAdvises, PostHears DEF Answered, Post
<1>14. ASSUME NEW fs \in Seq(Finding), NEW telemetry \in BOOLEAN, Begin(fs, telemetry)
       PROVE  Promise!Start
  <2>1. /\ findings' = fs /\ recs' = <<>> /\ pc \in {"idle", "done"}
        /\ pc' = IF fs = <<>> THEN "done" ELSE "asking"
    BY <1>14 DEF Begin
  <2>2. Len(recs') = 0 /\ Len(fs) \in Nat /\ (fs = <<>> <=> Len(fs) = 0)
    BY <2>1, LenProperties, EmptySeq
  <2>3. Open' = 1 .. Len(fs) /\ Advised' = {} /\ Heard' = {}
    <3>1. Open' = 1 .. Len(fs) /\ Advised' = {}
      BY <2>1, <2>2 DEF Open, Advised
    <3>2. said' = [i \in 1 .. Len(fs) |-> Silence]
      BY <1>14 DEF Begin
    <3>3. \A i \in 1 .. Len(said') : said'[i].last # "grounded"
      BY <2>2, <3>2, LenProperties DEF Silence
    <3>4. QED
      BY <3>1, <3>3 DEF Heard
  <2>4. Open' \in SUBSET Nat /\ (Open' = {} <=> fs = <<>>)
    <3>1. 1 .. Len(fs) \subseteq Nat /\ (1 .. Len(fs) = {} <=> Len(fs) = 0)
      BY <2>2
    <3>2. Open' \subseteq Nat /\ (Open' = {} <=> Len(fs) = 0)
      BY <2>3, <3>1
    <3>3. QED
      BY <2>2, <3>2
  <2>5. Phase \in {"idle", "done"} /\ Phase' = IF fs = <<>> THEN "done" ELSE "working"
    BY <2>1 DEF Phase
  <2>6. QED
    BY <2>3, <2>4, <2>5, AbstractSteps
<1>15. CASE UNCHANGED gateway
  BY <1>1, <1>15 DEF gateway, Heard
<1>16. QED
  BY <1>6, <1>7, <1>8, <1>9, <1>10, <1>11, <1>12, <1>13, <1>14, <1>15, AbstractSteps
     DEF GatewayNext, GatewayStep

\* The retries, the parsing and the check together implement what is left of the
\* promise: exactly one recommendation for each finding, with prose from a
\* grounded reply only, or a failure that leaves none.
THEOREM Implements == GatewaySpec => ImplementsAdvice
<1>1. GatewayInit => Promise!Init
  <2>1. SUFFICES ASSUME GatewayInit PROVE Promise!Init
    OBVIOUS
  <2>2. pc = "idle" /\ Len(recs) = 0 /\ Len(said) = 0
    BY <2>1, EmptySeq DEF GatewayInit
  <2>3. Open = {} /\ Heard = {} /\ Advised = {} /\ Phase = "idle"
    BY <2>2 DEF Open, Heard, Advised, Phase
  <2>4. QED
    BY <2>3, AbstractSteps
<1>2. IInv /\ [GatewayNext]_gateway => [Promise!Next \/ Promise!Fail]_(Promise!vars)
  BY StepImplements
<1>3. QED
  BY <1>1, <1>2, GatewayIsGood, PTL DEF GatewaySpec, ImplementsAdvice, Promise!Fallible
=============================================================================
