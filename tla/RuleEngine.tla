----------------------------- MODULE RuleEngine -----------------------------
(***************************************************************************)
(* The rule engine (app/domain/rules): a rule is data, its condition a     *)
(* tree that is validated when the rule is loaded and evaluated over the   *)
(* facts of an assessment; and the validation of answers against their     *)
(* questions (app/domain/response_validation.py).                          *)
(*                                                                         *)
(* A value is a record with one field, named for its Python type:          *)
(* [null |-> 0], [bool |-> 0 or 1], [number |-> n], [text |-> t],          *)
(* [list |-> <<values>>].  A text is known by the texts within it.         *)
(***************************************************************************)
EXTENDS Integers, Sequences, FiniteSets

CONSTANTS
    MaxDepth,    \* MAX_DEPTH
    Values,      \* the values that answers may have
    Within,      \* Within[t]: the texts that occur in text t
    Conditions,  \* the nodes of conditions, valid or not
    Height       \* Height[c]: the levels below c; a document is finite

S == INSTANCE SequencesExt

\* The nodes that node refers to: the args of an and or an or, the arg of a not.
Parts(node) ==
    CASE node.op \in {"and", "or"} /\ "args" \in DOMAIN node -> node.args
      [] node.op = "not" /\ "arg" \in DOMAIN node -> <<node.arg>>
      [] OTHER -> <<>>

ValueType == {"null", "bool", "number", "text", "list"}

ASSUME EngineAssumption ==
    /\ MaxDepth \in Nat
    /\ Height \in [Conditions -> Nat]
    /\ \A node \in Conditions :
          /\ Parts(node) \in Seq(Conditions)
          /\ \A i \in DOMAIN Parts(node) : Height[Parts(node)[i]] < Height[node]
    /\ \A v \in Values :
          /\ \E type \in ValueType : DOMAIN v = {type}
          /\ "null" \in DOMAIN v => v = [null |-> 0]

Is(v, type) == type \in DOMAIN v

IsNumber(v) == Is(v, "number") \/ Is(v, "bool")

NumberOf(v) == IF Is(v, "bool") THEN v.bool ELSE v.number

\* ==, for which False is 0 and True is 1.
Same(v, w) == IF IsNumber(v) /\ IsNumber(w) THEN NumberOf(v) = NumberOf(w) ELSE v = w

Among(v, list) == \E i \in 1 .. Len(list) : Same(v, list[i])

-----------------------------------------------------------------------------
(* validate_condition *)

Compare == {"eq", "ne", "gt", "gte", "lt", "lte"}

HasKey(node) == "key" \in DOMAIN node /\ node.key # ""

\* Mutant of WithinDepth: off by one.
WithinDepthPlusOne(depth) == depth <= MaxDepth + 1

WithinDepth(depth) == depth <= MaxDepth

Validity ==
    LET valid[node \in Conditions] == [depth \in Nat |->
            /\ WithinDepth(depth)
            /\ \/ /\ node.op \in {"and", "or", "not"} /\ Parts(node) # <<>>
                  /\ \A i \in DOMAIN Parts(node) : valid[Parts(node)[i]][depth + 1]
               \/ node.op = "exists" /\ HasKey(node)
               \/ node.op = "in" /\ HasKey(node) /\ "value" \in DOMAIN node /\ Is(node.value, "list")
               \/ node.op \in Compare \cup {"contains"} /\ HasKey(node) /\ "value" \in DOMAIN node]
    IN valid

Valid(node, depth) == Validity[node][depth]

-----------------------------------------------------------------------------
(* evaluate_condition: TRUE, FALSE or an exception *)

Truth(b) == IF b THEN "true" ELSE "false"

\* all() and any() stop at the first outcome that is not the unit.
Decide(outcomes, unit) ==
    LET stops == {i \in DOMAIN outcomes : outcomes[i] # unit} IN
    IF stops = {} THEN unit ELSE outcomes[CHOOSE i \in stops : \A j \in stops : i <= j]

\* A not without arg raises KeyError.
Not(outcomes) ==
    IF outcomes = <<>> \/ outcomes[1] = "raises" THEN "raises" ELSE Truth(outcomes[1] = "false")

\* Mutant of Ordered: no guard against a type mismatch.
OrderedUnguarded(op, v, w) ==
    IF ~Is(v, "number") \/ ~Is(w, "number") THEN "raises"
    ELSE Truth(CASE op = "gt" -> v.number > w.number   [] op = "gte" -> v.number >= w.number
                 [] op = "lt" -> v.number < w.number   [] op = "lte" -> v.number <= w.number)

\* "type mismatch -> no match, never an exception"; True does not count as 1.
Ordered(op, v, w) ==
    IF ~Is(v, "number") \/ ~Is(w, "number") THEN "false"
    ELSE Truth(CASE op = "gt" -> v.number > w.number   [] op = "gte" -> v.number >= w.number
                 [] op = "lt" -> v.number < w.number   [] op = "lte" -> v.number <= w.number)

\* _safe_contains; "in" of a str wants a str.
Contains(v, w) ==
    IF Is(v, "list") THEN Truth(Among(w, v.list))
    ELSE IF ~Is(v, "text") THEN "false"
    ELSE IF Is(w, "text") THEN Truth(w.text \in Within[v.text])
    ELSE "raises"

\* What a node without parts says.
Look(node, facts) ==
    LET present == node.key \in DOMAIN facts
        actual == facts[node.key]
    IN CASE node.op = "exists" -> Truth(present /\ ~Is(actual, "null"))
         [] node.op = "eq" -> Truth(present /\ Same(actual, node.value))
         [] node.op = "ne" -> Truth(present => ~Same(actual, node.value))
         [] node.op = "in" -> Truth(present /\ Among(actual, node.value.list))
         [] node.op = "contains" -> IF present THEN Contains(actual, node.value) ELSE "false"
         [] OTHER -> IF present THEN Ordered(node.op, actual, node.value) ELSE "false"

Evaluation(facts) ==
    LET eval[node \in Conditions] == [depth \in Nat |->
            LET outcomes == [i \in DOMAIN Parts(node) |-> eval[Parts(node)[i]][depth + 1]] IN
            IF depth > MaxDepth THEN "false"
            ELSE CASE node.op = "and" -> Decide(outcomes, "true")
                   [] node.op = "or" -> Decide(outcomes, "false")
                   [] node.op = "not" -> Not(outcomes)
                   [] OTHER -> Look(node, facts)]
    IN eval

Eval(node, facts, depth) == Evaluation(facts)[node][depth]

-----------------------------------------------------------------------------
(* Rules and findings *)

Severity == [info |-> 0, low |-> 1, medium |-> 2, high |-> 3, critical |-> 4]

\* ruleset_from_dict: the severity is known and the condition is valid.
Loads(rules) ==
    \A i \in DOMAIN rules : rules[i].severity \in DOMAIN Severity /\ Valid(rules[i].condition, 0)

\* render_template: a placeholder without a fact stays as it is.
Rendered(rule, facts) ==
    [k \in rule.mentions |-> IF k \in DOMAIN facts THEN facts[k] ELSE [placeholder |-> k]]

FindingFor(rule, facts) ==
    [code |-> rule.code, severity |-> rule.severity, detail |-> Rendered(rule, facts)]

Before(r, s) ==
    \/ Severity[r.severity] > Severity[s.severity]
    \/ r.severity = s.severity /\ r.priority < s.priority
    \/ r.severity = s.severity /\ r.priority = s.priority /\ r.code < s.code

Matches(rule, facts) == Eval(rule.condition, facts, 0)

\* An exception in one rule is an exception of the engine.
EngineRaises(rules, facts) ==
    \E i \in DOMAIN rules : rules[i].active /\ Matches(rules[i], facts) = "raises"

Fired(rules, facts) ==
    {i \in DOMAIN rules : rules[i].active /\ Matches(rules[i], facts) = "true"}

\* sort() is stable.
Sooner(rules, i, j) ==
    \/ Before(rules[i], rules[j])
    \/ ~Before(rules[j], rules[i]) /\ i < j

\* The place of a rule in the sorted list.
Place(rules, fired, i) == Cardinality({j \in fired : Sooner(rules, j, i)}) + 1

Evaluate(rules, facts) ==
    LET fired == Fired(rules, facts) IN
    [n \in 1 .. Cardinality(fired) |->
        FindingFor(rules[CHOOSE i \in fired : Place(rules, fired, i) = n], facts)]

-----------------------------------------------------------------------------
(* Templates and the answers to them *)

QuestionType == {"text", "long_text", "number", "single_select", "multi_select", "file_upload"}

\* A template is a sequence of sections, a section one of questions.
WellFormed(template) ==
    \A i \in DOMAIN template : \A j \in DOMAIN template[i] : template[i][j].type \in QuestionType

\* The question of a key: of two with the same key, the later one is asked.
Specs(template) ==
    LET questions == S!FlattenSeq(template)
        asks(i, k) == questions[i].key = k
    IN [k \in {questions[i].key : i \in DOMAIN questions} |->
          questions[CHOOSE i \in DOMAIN questions :
              asks(i, k) /\ \A j \in DOMAIN questions : asks(j, k) => j <= i]]

\* null is not checked.
Fits(q, v) ==
    \/ Is(v, "null")
    \/ q.type \in {"text", "long_text", "file_upload"} /\ Is(v, "text")
    \/ q.type = "number" /\ Is(v, "number")
    \/ q.type = "single_select" /\ (q.options = <<>> \/ Among(v, q.options))
    \/ /\ q.type = "multi_select" /\ Is(v, "list")
       /\ q.options = <<>> \/ \A i \in 1 .. Len(v.list) : Among(v.list[i], q.options)

AnswersAllowed(specs, facts) == \A k \in DOMAIN facts : k \in DOMAIN specs /\ Fits(specs[k], facts[k])

-----------------------------------------------------------------------------
(* The reference: what a condition says, without depth, order or exceptions. *)

Says(node, facts) ==
    LET answers == {facts[k] : k \in DOMAIN facts \cap {node.key}}
        w == node.value
        numbers == {v \in answers : Is(v, "number") /\ Is(w, "number")}
    IN
    CASE node.op = "exists" -> answers \notin {{}, {[null |-> 0]}}
      [] node.op = "eq" -> \E v \in answers : Same(v, w)
      [] node.op = "ne" -> \A v \in answers : ~Same(v, w)
      [] node.op = "gt" -> \E v \in numbers : v.number > w.number
      [] node.op = "gte" -> \E v \in numbers : v.number >= w.number
      [] node.op = "lt" -> \E v \in numbers : v.number < w.number
      [] node.op = "lte" -> \E v \in numbers : v.number <= w.number
      [] node.op = "in" -> \E v \in answers : Among(v, w.list)
      [] OTHER -> \E v \in answers :
            \/ Is(v, "list") /\ Among(w, v.list)
            \/ Is(v, "text") /\ Is(w, "text") /\ w.text \in Within[v.text]

Meaning(facts) ==
    LET holds[node \in Conditions] ==
            LET part(i) == holds[Parts(node)[i]] IN
            CASE node.op = "and" -> \A i \in DOMAIN Parts(node) : part(i)
              [] node.op = "or" -> \E i \in DOMAIN Parts(node) : part(i)
              [] node.op = "not" -> \A i \in DOMAIN Parts(node) : ~part(i)
              [] OTHER -> Says(node, facts)
    IN holds

Holds(node, facts) == Meaning(facts)[node]

Leafage ==
    LET leaves[node \in Conditions] ==
            IF Parts(node) = <<>> THEN {node}
            ELSE UNION {leaves[Parts(node)[i]] : i \in DOMAIN Parts(node)}
    IN leaves

\* The nodes without parts that node is built of.
Leaves(node) == Leafage[node]
=============================================================================
