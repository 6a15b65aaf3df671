------------------------------- MODULE Advice -------------------------------
(***************************************************************************)
(* The advice on a list of findings (app/llm/enhancement.py): each gets    *)
(* exactly one recommendation, and the prose of a model is in it only if a *)
(* reply about this finding was heard that is grounded.  Spec is what the  *)
(* pipeline promises, "every finding still produces a complete             *)
(* recommendation"; Fallible is what LlmGateway implements of it.          *)
(***************************************************************************)
EXTENDS Naturals

VARIABLES
    open,     \* the findings (by position) that wait for their recommendation
    heard,    \* those about which a grounded reply was heard
    advised,  \* those that have a recommendation, with its source
    phase     \* "idle", "working", or how the work has ended

vars == <<open, heard, advised, phase>>

Init == open = {} /\ heard = {} /\ advised = {} /\ phase = "idle"

Start ==
    /\ phase \in {"idle", "done"}
    /\ open' \in SUBSET Nat /\ heard' = {} /\ advised' = {}
    /\ phase' = IF open' = {} THEN "done" ELSE "working"

Advise(i, source) ==
    /\ phase = "working" /\ i \in open
    /\ open' = open \ {i}
    /\ advised' = advised \cup {<<i, source>>}
    /\ phase' = IF open' = {} THEN "done" ELSE "working"

\* Prose comes with the reply that it is taken from, and the fallback without one.
Enhance(i) == Advise(i, "llm") /\ heard' = heard \cup {i}

FallBack(i) == Advise(i, "fallback") /\ i \notin heard /\ UNCHANGED heard

Next == Start \/ \E i \in open : Enhance(i) \/ FallBack(i)

Spec == Init /\ [][Next]_vars

\* The exception reaches the caller, and the recommendations made so far do not.
Fail ==
    /\ phase = "working"
    /\ phase' = "failed"
    /\ open' = {} /\ advised' = {}
    /\ UNCHANGED heard

Fallible == Init /\ [][Next \/ Fail]_vars
=============================================================================
