----------------------------- MODULE MCPipeline -----------------------------
(* Instances of Pipeline for TLC: many small completions for the engine, and a *)
(* few evaluations of two items.                                              *)
EXTENDS Pipeline

Null == [null |-> 0]
Bool(n) == [bool |-> n]
Num(n) == [number |-> n]
Txt(t) == [text |-> t]
Lst(s) == [list |-> s]

MCWithin == [a |-> {"a"}, ab |-> {"a", "ab"}]

Question(key, type, options) == [key |-> key, type |-> type, options |-> options]

\* The question "any" is a single_select without options: it takes anything.
\* "num" is asked twice, and only the second question wants a number.
MCTemplate ==
    <<<<Question("any", "single_select", <<>>), Question("num", "text", <<>>)>>,
      <<Question("num", "number", <<>>), Question("one", "single_select", <<Bool(0), Bool(1)>>),
        Question("sel", "multi_select", <<Txt("a"), Txt("ab")>>)>>>>

AnswerValues == {Null, Bool(1), Num(1), Num(2), Txt("a"), Txt("ab"), Lst(<<Txt("a")>>)}

MCValues == AnswerValues \cup {Lst(<<Txt("ab")>>), Lst(<<Num(1)>>)}

Answers ==
    {[k \in {} |-> Null]}
    \cup {[any |-> v] : v \in AnswerValues}
    \cup {[any |-> v, num |-> w] : v \in {Num(1), Txt("ab")}, w \in AnswerValues}
    \cup {[one |-> v, sel |-> w] : v \in {Num(1), Txt("a")}, w \in {Lst(<<Txt("ab")>>), Lst(<<Num(1)>>)}}

Leaf(op, k, v) == [op |-> op, key |-> k, value |-> v]

LeafConditions ==
    {Leaf(op, "any", v) : op \in Compare, v \in {Num(1), Bool(1), Txt("a")}}
    \cup {Leaf("contains", k, v) : k \in {"any", "sel"}, v \in {Num(1), Txt("a")}}
    \cup {Leaf("in", "any", Lst(<<Num(1), Txt("a")>>)), [op |-> "exists", key |-> "any"]}

InvalidConditions ==
    {[op |-> "and", args |-> <<>>], [op |-> "not"], [op |-> "xor", args |-> <<>>],
     [op |-> "eq", key |-> "any"], [op |-> "exists", key |-> ""], Leaf("in", "any", Num(1))}

Negation(c) == [op |-> "not", arg |-> c]

Both(op, c, d) == [op |-> op, args |-> <<c, d>>]

\* Depth 0 to 3, one more than MaxDepth.
Trees ==
    LET few == {Leaf("eq", "any", Num(1)), Leaf("contains", "any", Num(1)), Leaf("gt", "num", Num(1))}
        pairs == {Both(op, c, d) : op \in {"and", "or"}, c \in few, d \in few}
    IN LeafConditions \cup InvalidConditions \cup {Negation(c) : c \in LeafConditions}
       \cup pairs \cup {Negation(c) : c \in pairs} \cup {Negation(Negation(c)) : c \in pairs}

\* Trees is closed, but for what is only negated or joined.
MCConditions ==
    Trees \cup {Leaf("gt", "num", Num(1)), Leaf("lt", "num", Num(2)), Leaf("exists", "num", Null),
                Leaf("ne", "none", Null)}

MCHeight ==
    LET height[c \in MCConditions] ==
            CASE c.op \in {"and", "or"} /\ "args" \in DOMAIN c /\ c.args # <<>> ->
                    1 + (IF height[c.args[1]] > height[c.args[2]] THEN height[c.args[1]] ELSE height[c.args[2]])
              [] c.op = "not" /\ "arg" \in DOMAIN c -> 1 + height[c.arg]
              [] OTHER -> 0
    IN height

ARule(code, severity, priority, active, condition, mentions) ==
    [code |-> code, severity |-> severity, priority |-> priority, active |-> active,
     condition |-> condition, mentions |-> mentions]

Always == Leaf("ne", "none", Null)

Completions ==
    {[kind |-> "completion", template |-> MCTemplate, answers |-> a,
      rules |-> <<ARule(2, "low", 1, TRUE, c, {}), ARule(1, s, 2, TRUE, Always, {}),
                  ARule(3, "low", 1, FALSE, Always, {})>>] :
        a \in Answers, c \in Trees, s \in {"low", "high"}}
    \cup {[kind |-> "completion", template |-> MCTemplate, answers |-> [num |-> Num(2)],
           rules |-> <<ARule(2, s, 1, TRUE, Always, {"num", "one"}), ARule(1, "low", p, TRUE, Always, {})>>] :
            s \in {"low", "urgent"}, p \in {1, 2}}
    \cup {[kind |-> "completion", template |-> <<<<Question("any", "date", <<>>)>>>>,
           answers |-> [any |-> Null], rules |-> <<>>]}
    \cup {[kind |-> "completion", template |-> MCTemplate, answers |-> [num |-> Num(2)],
           rules |-> <<ARule(1, "low", 1, TRUE, Always, {}), ARule(2, "low", 1, TRUE, Always, {}),
                       ARule(3, "critical", 1, TRUE, Always, {})>>]}

Evaluations ==
    {[kind |-> "evaluation",
      rules |-> <<ARule(1, "high", 1, TRUE, Leaf("lt", "num", Num(2)), {}),
                  ARule(2, "low", 1, TRUE, Leaf("exists", "num", Null), {})>>,
      dataset |-> <<[facts |-> [num |-> Num(1)], expected |-> e], [facts |-> [num |-> Num(2)], expected |-> f]>>] :
        e \in {{1, 2}, {1}, {1, 2, 3}}, f \in {{2}, {}}}
    \cup {[kind |-> "evaluation", rules |-> <<ARule(1, "low", 1, TRUE, Always, {})>>, dataset |-> <<>>]}

MCJobs == Completions \cup Evaluations

MCFinding == [code : 1 .. 3, severity : DOMAIN Severity, detail : {[k \in {} |-> Null],
                 [num |-> Num(2), one |-> [placeholder |-> "one"]]}]
=============================================================================
