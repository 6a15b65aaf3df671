------------------------------ MODULE Pipeline ------------------------------
(***************************************************************************)
(* The two users of the rule engine and of the LLM gateway, each a request *)
(* of its own: the completion of an assessment, from the template it is    *)
(* made of (app/services/template_service.py) and the answers saved for it *)
(* to the recommendations stored (app/services/assessment_service.py), and *)
(* the run of an evaluation                                                *)
(* (app/eval, app/services/evaluation_service.py) over a dataset of facts  *)
(* with the findings they are expected to give.                            *)
(***************************************************************************)
EXTENDS RuleEngine, LlmGateway

CONSTANTS
    Jobs,    \* the completions and evaluations asked for
    NoItem   \* nothing yet

VARIABLES
    job,      \* the request: its kind, the ruleset as loaded from its file, its input
    stage,    \* how far the request is
    facts,    \* the facts that the engine is given
    results,  \* the ItemResults of an evaluation
    stored    \* what the request has committed

vars == <<gateway, job, stage, facts, results, stored>>

\* "saved" and "failed" end a request; a refused one was told why.
Stage == {"authoring", "drafted", "loading", "answering", "evaluating", "enhancing", "scored", "saved",
          "refused", "failed"}

Rule ==
    [code : Int, severity : STRING, priority : Int, active : BOOLEAN,
     condition : Conditions, mentions : SUBSET STRING]

AreFacts(fs) == \A k \in DOMAIN fs : fs[k] \in Values

\* The facts that the engine may be given for a job.
FactsOf(j) ==
    IF j.kind = "completion" THEN {j.answers} ELSE {j.dataset[i].facts : i \in DOMAIN j.dataset}

\* Ruleset and dataset are files, answers come as JSON: finite, and of the types
\* that their loaders give them.
ASSUME JobsAssumption ==
    \A j \in Jobs :
        /\ j.kind \in {"completion", "evaluation"}
        /\ j.rules \in Seq(Rule)
        /\ j.kind = "evaluation" =>
              /\ j.dataset \in Seq([facts : FactsOf(j), expected : SUBSET Int])
              /\ \A i \in DOMAIN j.dataset : IsFiniteSet(j.dataset[i].expected)
        /\ \A fs \in FactsOf(j) :
              /\ AreFacts(fs) /\ fs # NoItem
              /\ \A i \in DOMAIN j.rules :
                    j.rules[i].severity \in DOMAIN Severity => FindingFor(j.rules[i], fs) \in Finding

\* A completion that has its findings needs nothing else of its input.
Findings == [kind |-> "completion"]

Fraction == Nat \X (Nat \ {0})

ItemResult == [accuracy : Fraction, completeness : Fraction, hallucination : Fraction, passed : BOOLEAN]

\* What a request commits: the recommendations with their llm_calls, or a row of
\* evaluation_runs.
Stored(kind) ==
    IF kind = "completion" THEN [recs : Seq(Recommendation), calls : Seq(CallRow)]
    ELSE [status : {"completed", "failed"}, accuracy : Fraction, completeness : Fraction,
          hallucination : Fraction, items : Nat]

TypeOK ==
    /\ GatewayTypeOK
    /\ job \in Jobs \cup {Findings}
    /\ stage \in Stage
    /\ facts # NoItem => stage = "evaluating" /\ job.kind = "completion" /\ facts = job.answers
    /\ results \in Seq(ItemResult)
    /\ results # <<>> => job.kind = "evaluation" /\ Len(results) <= Len(job.dataset)
    /\ IF stage = "saved" THEN stored \in Stored(job.kind) ELSE stored = NoItem

Init ==
    /\ GatewayInit
    /\ job \in Jobs
    /\ stage = IF job.kind = "completion" THEN "authoring" ELSE "loading"
    /\ facts = NoItem
    /\ results = <<>>
    /\ stored = NoItem

Request(s) == stage = s /\ UNCHANGED job

-----------------------------------------------------------------------------
\* POST /templates: questions of known types, or 422.
CreateTemplate ==
    /\ Request("authoring")
    /\ stage' = IF WellFormed(job.template) THEN "drafted" ELSE "refused"
    /\ UNCHANGED <<gateway, facts, results, stored>>

\* POST /templates/{id}/publish.
PublishTemplate ==
    /\ Request("drafted")
    /\ stage' = "loading"
    /\ UNCHANGED <<gateway, facts, results, stored>>

\* An assessment starts from a published template only.
CreateFromDraft ==
    /\ Request("drafted")
    /\ stage' = "refused"
    /\ UNCHANGED <<gateway, facts, results, stored>>

\* A ruleset that is not valid is not served, to the first of the routes of
\* assessments as to the others.
LoadRules ==
    /\ Request("loading")
    /\ stage' = CASE ~Loads(job.rules) -> "refused"
                  [] Loads(job.rules) /\ job.kind = "completion" -> "answering"
                  [] OTHER -> IF job.dataset = <<>> THEN "scored" ELSE "evaluating"
    /\ UNCHANGED <<gateway, facts, results, stored>>

\* PUT /responses, then the facts_from_responses of the completion: one row a key.
SaveResponses ==
    /\ Request("answering")
    /\ IF AnswersAllowed(Specs(job.template), job.answers)
       THEN stage' = "evaluating" /\ facts' = job.answers
       ELSE stage' = "refused" /\ UNCHANGED facts
    /\ UNCHANGED <<gateway, results, stored>>

\* The next item of the dataset.
Item == job.dataset[Len(results) + 1]

Input == IF job.kind = "completion" THEN facts ELSE Item.facts

\* engine.evaluate, then enhance_findings.
RunEngine ==
    /\ stage = "evaluating"
    /\ IF EngineRaises(job.rules, Input)
       THEN stage' = "failed" /\ UNCHANGED gateway
       ELSE /\ stage' = "enhancing"
            /\ Begin(Evaluate(job.rules, Input), job.kind = "completion")
    /\ job' = IF job.kind = "completion" THEN Findings ELSE job
    /\ facts' = NoItem
    /\ UNCHANGED <<results, stored>>

Enhance ==
    /\ Request("enhancing") /\ GatewayStep
    /\ UNCHANGED <<stage, facts, results, stored>>

\* save_for_assessment, set_status and the llm_calls rows, in one transaction.
Save ==
    /\ Request("enhancing") /\ job.kind = "completion" /\ pc = "done"
    /\ stored' = [recs |-> recs, calls |-> calls]
    /\ stage' = "saved"
    /\ UNCHANGED <<gateway, facts, results>>

\* The exception rolls everything back.
RollBack ==
    /\ Request("enhancing") /\ pc = "failed"
    /\ stage' = "failed"
    /\ UNCHANGED <<gateway, facts, results, stored>>

-----------------------------------------------------------------------------
(* app/eval/metrics.py: fractions <<numerator, denominator>> *)

One == <<1, 1>>

Zero == <<0, 1>>

\* Mutant of Accuracy: recall, which does not mind spurious findings.
AccuracyAsRecall(produced, expected) ==
    IF expected = {} THEN One ELSE <<Cardinality(produced \cap expected), Cardinality(expected)>>

Accuracy(produced, expected) ==
    IF produced \cup expected = {} THEN One
    ELSE <<Cardinality(produced \cap expected), Cardinality(produced \cup expected)>>

Completeness(produced, expected) ==
    IF expected = {} THEN One ELSE <<Cardinality(produced \cap expected), Cardinality(expected)>>

\* What no reply was heard about is not attempted.
HallucinationRate(rs) ==
    LET attempted == {i \in DOMAIN rs : rs[i].grounding # "unchecked"}
        rejected == {i \in attempted : rs[i].grounding = "rejected"}
    IN IF attempted = {} THEN Zero ELSE <<Cardinality(rejected), Cardinality(attempted)>>

Sum(p, q) == <<p[1] * q[2] + q[1] * p[2], p[2] * q[2]>>

Codes(fs) == {fs[i].code : i \in DOMAIN fs}

\* ACCURACY_FLOOR is 1, HALLUCINATION_CEIL 0.  The repeats of the engine agree:
\* it reads nothing but its arguments.
Score ==
    LET accuracy == Accuracy(Codes(findings), Item.expected)
        rate == HallucinationRate(recs)
    IN [accuracy |-> accuracy, completeness |-> Completeness(Codes(findings), Item.expected),
        hallucination |-> rate, passed |-> accuracy[1] >= accuracy[2] /\ rate[1] <= 0]

ScoreItem ==
    /\ Request("enhancing") /\ job.kind = "evaluation" /\ pc = "done"
    /\ results' = Append(results, Score)
    /\ stage' = IF Len(results') = Len(job.dataset) THEN "scored" ELSE "evaluating"
    /\ UNCHANGED <<gateway, facts, stored>>

Total(metric) ==
    LET total[n \in 0 .. Len(results)] ==
            IF n = 0 THEN Zero ELSE Sum(total[n - 1], results[n][metric])
    IN total[Len(results)]

\* round(_, 4)
Rounded(f) == <<(20000 * f[1] + f[2]) \div (2 * f[2]), 10000>>

\* Mutant of Mean: the last item only.
MeanOfLast(metric) == IF results = <<>> THEN Zero ELSE Rounded(results[Len(results)][metric])

\* An empty dataset counts as one item, of score zero.
Mean(metric) ==
    LET t == Total(metric)
        n == IF results = <<>> THEN 1 ELSE Len(results)
    IN Rounded(<<t[1], t[2] * n>>)

\* EvaluationService.run and the commit of its row.
SaveRun ==
    /\ Request("scored")
    /\ stored' = [status |-> IF \A i \in DOMAIN results : results[i].passed THEN "completed" ELSE "failed",
                  accuracy |-> Mean("accuracy"), completeness |-> Mean("completeness"),
                  hallucination |-> Mean("hallucination"), items |-> Len(results)]
    /\ stage' = "saved"
    /\ UNCHANGED <<gateway, facts, results>>

-----------------------------------------------------------------------------
Next ==
    \/ CreateTemplate \/ PublishTemplate \/ CreateFromDraft \/ LoadRules \/ SaveResponses
    \/ RunEngine \/ Enhance \/ Save \/ RollBack \/ ScoreItem \/ SaveRun

\* The thread of a request runs until it answers; a post has a timeout.
Spec == Init /\ [][Next]_vars /\ WF_vars(Next)

-----------------------------------------------------------------------------
(* Properties *)

\* "Given the same inputs it always produces the same findings, in the same
\* order": the findings are the active rules whose condition holds when it is
\* read as plain logic - the depth bound of the evaluation, which turns a
\* condition to False, is one that validated conditions never meet - by severity,
\* priority and code.
FindingsAreTheRules ==
    [][RunEngine /\ stage' = "enhancing" =>
         LET rules == job.rules
             true == {i \in DOMAIN rules : rules[i].active /\ Holds(rules[i].condition, Input)}
         IN
         \E order \in [1 .. Cardinality(true) -> true] :
            /\ \A i \in true : \E n \in DOMAIN order : order[n] = i
            /\ Len(findings') = Cardinality(true)
            /\ \A n \in DOMAIN order : findings'[n].code = rules[order[n]].code
            /\ \A m, n \in DOMAIN order : m < n =>
                  LET r == rules[order[m]]
                      s == rules[order[n]]
                  IN /\ Severity[r.severity] >= Severity[s.severity]
                     /\ r.severity = s.severity => r.priority <= s.priority
                     /\ r.severity = s.severity /\ r.priority = s.priority => r.code <= s.code
                     /\ r.severity = s.severity /\ r.priority = s.priority /\ r.code = s.code =>
                           order[m] < order[n]]_vars

\* "Lenient on data-type mismatches (returns False, does not crash an
\* assessment)": one mismatch is left that does - a rule that looks for something
\* else than a text in an answer that is a text; no validation refuses either.
EngineRaisesOnlyInTexts ==
    [][RunEngine /\ stage' = "failed" =>
         \E i \in DOMAIN job.rules : \E leaf \in Leaves(job.rules[i].condition) :
            /\ job.rules[i].active
            /\ leaf.op = "contains" /\ ~Is(leaf.value, "text")
            /\ leaf.key \in DOMAIN Input /\ Is(Input[leaf.key], "text")]_vars

\* The engine finds exactly what was expected of item i, and of its replies
\* none was rejected.
Faultless(i) ==
    /\ Codes(Evaluate(job.rules, job.dataset[i].facts)) = job.dataset[i].expected
    /\ results[i].hallucination[1] = 0

\* "no ungrounded enhancement may slip through", "the rule engine must reproduce
\* the gold findings exactly": an evaluation is completed exactly when that is so
\* of every item.
EvaluationGateHolds ==
    job.kind = "evaluation" /\ stage = "saved" =>
        (stored.status = "completed" <=> \A i \in DOMAIN job.dataset : Faultless(i))

\* Who reads the averages and not the status is told the same, though they are
\* rounded: they are perfect when every item is, and else they are not - unless
\* items are so many, some ten thousand, that a fault in one rounds away.
AveragesAgree ==
    job.kind = "evaluation" /\ stage = "saved" /\ results # <<>> =>
        ((\A i \in DOMAIN job.dataset : Faultless(i)) <=>
            stored.accuracy[1] = stored.accuracy[2] /\ stored.hallucination[1] = 0)
=============================================================================
