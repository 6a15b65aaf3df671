-------------------------------- MODULE Rows --------------------------------
(***************************************************************************)
(* The database rows that the assessment lifecycle, the consultant         *)
(* workspace and the reports share (app/repositories/orm.py).              *)
(***************************************************************************)
EXTENDS Access, Naturals, FiniteSets

CONSTANTS
    Assessments,  \* the assessment ids that the service may mint
    OrgOf,        \* OrgOf[a]: the organization that owns assessment a
    Rules,        \* the rule codes of the ruleset
    Texts,        \* the narratives a recommendation may carry
    Generated,    \* the narrative that the enhancement pipeline attaches
    NoOne         \* edited_by of a recommendation that nobody has reviewed

ASSUME RowsAssumption ==
    /\ OrgOf \in [Assessments -> Orgs]
    /\ Generated \in Texts
    /\ NoOne \notin Users

Status == {"absent", "in_progress", "completed"}

ReviewStatus == {"draft", "edited", "approved", "rejected"}

Verdict == {"approved", "rejected"}

\* A recommendation; text stands for its four narrative columns.
Row == [text : Texts, status : ReviewStatus, by : Users \cup {NoOne}]

\* The recommendations of an assessment, by rule code.
RowSets == UNION {[S -> Row] : S \in SUBSET Rules}

\* Mutant of Draft: the pipeline's default status is one the workspace does not know.
DraftPending == [text |-> Generated, status |-> "pending", by |-> NoOne]

\* A recommendation as the enhancement pipeline returns it.
Draft == [text |-> Generated, status |-> "draft", by |-> NoOne]

Empty == [x \in {} |-> NoOne]
=============================================================================
