----------------------------- MODULE Workspace ------------------------------
(***************************************************************************)
(* What the assessment lifecycle and the consultant workspace promise to   *)
(* the rest of the system: an assessment is completed once, in one step    *)
(* that brings all of its recommendations as drafts, and from then on the  *)
(* set of recommendations is fixed and each one moves only by reviews.     *)
(* Assessments implements this when the clients of an assessment complete  *)
(* it, and save its answers, one request at a time.                        *)
(***************************************************************************)
EXTENDS Rows

VARIABLES status, recs

Reviewer(u, a) == HasPermission(u, "recommendation:edit", OrgOf[a])

Init ==
    /\ status = [a \in Assessments |-> "absent"]
    /\ recs = [a \in Assessments |-> Empty]

Create(a) ==
    /\ status[a] = "absent"
    /\ status' = [status EXCEPT ![a] = "in_progress"]
    /\ UNCHANGED recs

Complete(a, findings) ==
    /\ status[a] = "in_progress"
    /\ status' = [status EXCEPT ![a] = "completed"]
    /\ recs' = [recs EXCEPT ![a] = [r \in findings |-> Draft]]

Review(a, r, row) ==
    /\ r \in DOMAIN recs[a]
    /\ row.status # "draft" /\ Reviewer(row.by, a)
    /\ recs' = [recs EXCEPT ![a][r] = row]
    /\ UNCHANGED status

Next ==
    \E a \in Assessments :
        \/ Create(a)
        \/ \E findings \in SUBSET Rules : Complete(a, findings)
        \/ \E r \in Rules, row \in [text : Texts, status : ReviewStatus, by : Users] :
              Review(a, r, row)

Spec == Init /\ [][Next]_<<status, recs>>
=============================================================================
