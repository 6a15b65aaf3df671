--------------------------- MODULE MCAssessments ----------------------------
(***************************************************************************)
(* Instances of Assessments for TLC.  The rule set stands for every rule   *)
(* set whose findings change with the answers: one rule fires when a       *)
(* question is answered, another when one is not, so that completions      *)
(* over different answers find different things, and over some both.       *)
(***************************************************************************)
EXTENDS Assessments, TLC

CONSTANTS a1, o1, o2, u1, u2, answered, unanswered

MCOrgOf == a1 :> o1

\* u1 is a consultant of o1; u2 an org_user of o1, and a consultant of o2
MCGlobalRoles == [u \in Users |-> {}]

MCOrgRoles ==
    [u \in Users |-> [o \in Orgs |->
        IF u = u1 THEN (IF o = o1 THEN {"consultant"} ELSE {})
        ELSE IF o = o1 THEN {"org_user"} ELSE {"consultant"}]]

MCEvaluate ==
    [facts \in UNION {[S -> Values] : S \in SUBSET Keys} |->
        {r \in Rules : \/ r = answered /\ DOMAIN facts # {}
                       \/ r = unanswered /\ DOMAIN facts # Keys}]

MCFindingRank == [r \in Rules |-> IF r = answered THEN 1 ELSE 2]

WritersTwice == [complete |-> 2, save |-> 2, patch |-> 1]

PatchTwice == [complete |-> 1, save |-> 1, patch |-> 2]

Requests == Permutations(Reqs)
=============================================================================
