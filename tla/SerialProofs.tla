---------------------------- MODULE SerialProofs ----------------------------
(***************************************************************************)
(* Theorems about Assessments when the clients of an assessment never have *)
(* two completions of it in flight; saves and reviews overlap freely, with *)
(* each other and with everything else.                                    *)
(***************************************************************************)
EXTENDS AssessmentsProofs

-----------------------------------------------------------------------------
(* The inductive invariant: one completion.  The status guard reads a row    *)
(* that the transaction does not lock, so the guard alone is not enough.     *)

SoleCompletion ==
    \A t \in Reqs, a \in Assessments :
        On(t, "complete", a) =>
            /\ status[a] = "in_progress"
            /\ \A u \in Reqs \ {t} : ~On(u, "complete", a)

\* No request of an operation is in flight on a when the only one may start.
LEMMA FirstToStart ==
    ASSUME IsFiniteSet(Reqs), NEW op \in Operations, InFlight[op] <= 1, NEW t \in Reqs, NEW a,
           MayStart(t, op, a)
    PROVE  \A u \in Reqs : ~On(u, op, a)
<1> DEFINE S == {u \in Reqs : On(u, op, a)}
<1>1. IsFiniteSet(S)
  BY FS_Subset
<1>2. Cardinality(S) \in Nat /\ (Cardinality(S) = 0 <=> S = {})
  BY <1>1, FS_CardinalityType, FS_EmptySet
<1>3. Cardinality(S) < InFlight[op] /\ InFlight[op] \in Nat
  BY AssessmentsAssumption DEF MayStart
<1>4. S = {}
  <2> HIDE DEF S
  <2> QED BY <1>2, <1>3
<1>5. QED
  BY <1>4

\* The completions in flight are among those of the step before, and the
\* assessments stay as they are.
LEMMA NoNewCompletion ==
    ASSUME SoleCompletion,
           \A t \in Reqs, a \in Assessments :
               On(t, "complete", a)' => On(t, "complete", a) /\ status'[a] = status[a]
    PROVE  SoleCompletion'
BY DEF SoleCompletion

LEMMA CompleteBeginSole ==
    ASSUME IsFiniteSet(Reqs), InFlight["complete"] <= 1, TypeOK, SoleCompletion,
           NEW t \in Reqs, NEW u \in Users, NEW o \in Orgs, NEW a \in Assessments,
           CompleteBegin(t, u, o, a)
    PROVE  SoleCompletion'
<1>1. \A v \in Reqs : ~On(v, "complete", a)
  BY FirstToStart DEF CompleteBegin, Operations
<1>2. \A v \in Reqs \ {t} : txn'[v] = txn[v]
  BY DEF CompleteBegin, TypeOK
<1>3. txn'[t].asm = a
  BY DEF CompleteBegin, TypeOK
<1>4. status' = status /\ status[a] = "in_progress"
  BY DEF CompleteBegin
<1>5. QED
  BY <1>1, <1>2, <1>3, <1>4 DEF SoleCompletion, On

LEMMA CompleteCommitSole ==
    ASSUME TypeOK, SoleCompletion, NEW t \in Reqs, CompleteCommit(t)
    PROVE  SoleCompletion'
<1> DEFINE a == txn[t].asm
<1>1. On(t, "complete", a) /\ a \in Assessments
  BY TxnKinds DEF CompleteCommit, On, TypeOK, CompleteTxn
<1>2. \A v \in Reqs \ {t} : ~On(v, "complete", a)
  BY <1>1 DEF SoleCompletion
<1>3. \A v \in Reqs : (v = t => txn'[v] = Idle) /\ Stays(txn[v], txn'[v])
  BY CommitStays
<1>4. \A b \in Assessments \ {a} : status'[b] = status[b]
  BY DEF CompleteCommit, TypeOK
<1>5. \A v \in Reqs, b \in Assessments :
          On(v, "complete", b)' => On(v, "complete", b) /\ status'[b] = status[b]
  BY <1>2, <1>3, <1>4 DEF On, Idle, Stays
<1>6. QED
  BY <1>5, NoNewCompletion

\* A step that is not the begin or the commit of a completion.
LEMMA OtherStepSole ==
    ASSUME TypeOK, SoleCompletion, UNCHANGED status, NEW t \in Reqs,
           \A v \in Reqs \ {t} : Stays(txn[v], txn'[v]),
           txn'[t].op # "complete" \/ Stays(txn[t], txn'[t])
    PROVE  SoleCompletion'
<1>1. \A v \in Reqs, b \in Assessments :
          On(v, "complete", b)' => On(v, "complete", b) /\ status'[b] = status[b]
  BY DEF On, Idle, Stays
<1>2. QED
  BY <1>1, NoNewCompletion

LEMMA NextSole ==
    ASSUME IsFiniteSet(Reqs), InFlight["complete"] <= 1,
           TypeOK, SoleCompletion, [Next]_vars
    PROVE  SoleCompletion'
<1>1. CASE UNCHANGED <<status, txn>>
  BY <1>1 DEF SoleCompletion, On
<1>2. ASSUME NEW u \in Users, NEW o \in Orgs, NEW tp \in Templates, NEW a \in Assessments,
             CreateFromTemplate(u, o, tp, a)
      PROVE  SoleCompletion'
  BY <1>2 DEF CreateFromTemplate, SoleCompletion, On, TypeOK
<1>3. ASSUME NEW t \in Reqs, NEW u \in Users, NEW o \in Orgs, NEW a \in Assessments,
             Begin(t, u, o, a)
      PROVE  SoleCompletion'
  <2>1. ASSUME NEW payload \in Answers, NEW order, SaveBegin(t, u, o, a, payload, order)
        PROVE  SoleCompletion'
    <3>1. txn'[t].op = "save" /\ \A v \in Reqs \ {t} : txn'[v] = txn[v]
      BY <2>1 DEF SaveBegin, TypeOK
    <3>2. QED
      BY <2>1, <3>1, OtherStepSole DEF SaveBegin, Stays, data
  <2>2. ASSUME NEW r, NEW edit, NEW verdict, PatchBegin(t, u, o, a, r, edit, verdict)
        PROVE  SoleCompletion'
    <3>1. txn'[t].op = "patch" /\ \A v \in Reqs \ {t} : txn'[v] = txn[v]
      BY <2>2 DEF PatchBegin, TypeOK
    <3>2. QED
      BY <2>2, <3>1, OtherStepSole DEF PatchBegin, Stays, data
  <2>3. QED
    BY <1>3, <2>1, <2>2, CompleteBeginSole DEF Begin
<1>4. ASSUME NEW t \in Reqs, Quiet(t)
      PROVE  SoleCompletion'
  BY <1>4, QuietStays, OtherStepSole DEF data
<1>5. ASSUME NEW t \in Reqs, SaveCommit(t)
      PROVE  SoleCompletion'
  BY <1>5, CommitStays, OtherStepSole DEF SaveCommit
<1>6. ASSUME NEW t \in Reqs, PatchStep(t)
      PROVE  SoleCompletion'
  <2>1. txn[t] \in PatchTxn
    BY <1>6, TxnKinds DEF TypeOK, PatchStep, PatchMiss, PatchSelect, PatchNoChange, PatchBlock,
                          PatchUpdate, PatchReload, PatchCommit, Patching
  <2>2. /\ txn'[t].op # "complete" /\ \A v \in Reqs \ {t} : txn'[v] = txn[v]
    BY <1>6, <2>1 DEF TypeOK, PatchTxn, PatchStep, PatchMiss, PatchSelect, PatchNoChange,
                      PatchBlock, PatchUpdate, PatchReload, PatchCommit, Finish, Idle
  <2>3. UNCHANGED status
    BY <1>6 DEF PatchStep, PatchMiss, PatchSelect, PatchNoChange, PatchBlock, PatchUpdate,
                PatchReload, PatchCommit, data
  <2>4. QED
    BY <2>2, <2>3, OtherStepSole DEF Stays
<1>7. QED
  BY <1>1, <1>2, <1>3, <1>4, <1>5, <1>6, CompleteCommitSole, StepKinds
     DEF PublishTemplate, vars, data

-----------------------------------------------------------------------------
(* The inductive invariant: reviews in flight *)

\* Whoever may edit a recommendation may approve it: the policy gives both
\* permissions to the same roles.
LEMMA ReviewersApprove ==
    ASSUME NEW u, NEW o, HasPermission(u, "recommendation:edit", o),
           EffectiveRoles(u, o) \subseteq Role
    PROVE  HasPermission(u, "recommendation:approve", o)
<1>1. PICK r \in EffectiveRoles(u, o) : "recommendation:edit" \in Policy[r]
  BY DEF HasPermission, PermissionsIn
<1>2. r \in {"admin", "consultant"}
  BY <1>1 DEF Policy, Role
<1>3. "recommendation:approve" \in Policy[r]
  BY <1>2 DEF Policy, Permission
<1>4. QED
  BY <1>3 DEF HasPermission, PermissionsIn

\* The row of a patch stays there; its target is signed by its caller and is no
\* draft; and a flush that leaves out the status or the signature does so
\* because the row had them: it was no draft either.
PatchIsHonest(t) ==
    txn[t].op = "patch" =>
        /\ ~RowGone(t)
        /\ txn[t].new.by = txn[t].user
        /\ txn[t].new.status # "draft"
        /\ txn[t].pc \in {"selected", "blocked", "written"}
              /\ ~({"status", "by"} \subseteq txn[t].cols)
                 => Current(t).status # "draft"

PatchesAreHonest == \A t \in Reqs : PatchIsHonest(t)

\* What the proofs below use of the state.
Good ==
    /\ TypeOK
    /\ CompletionIsAtomic
    /\ Permitted
    /\ SoleCompletion
    /\ PatchesAreHonest
    /\ ReviewsAreAttributed

\* No recommendation goes away, and none becomes a draft again.
RowsStay ==
    \A a \in Assessments : \A r \in DOMAIN recs[a] :
        r \in DOMAIN recs'[a] /\ (recs[a][r].status # "draft" => recs'[a][r].status # "draft")

-----------------------------------------------------------------------------
(* The two steps that change recommendations *)

\* A completion that commits finds none, and leaves one draft per finding.
LEMMA CompleteCommitRows ==
    ASSUME TypeOK, CompletionIsAtomic, SoleCompletion, NEW t \in Reqs, CompleteCommit(t)
    PROVE  LET a == txn[t].asm
               findings == Evaluate[txn[t].facts]
           IN  /\ On(t, "complete", a) /\ a \in Assessments /\ findings \in SUBSET Rules
               /\ status[a] = "in_progress" /\ recs[a] \in RowSets /\ DOMAIN recs[a] = {}
               /\ recs' = [recs EXCEPT ![a] = [r \in findings |-> Draft]]
               /\ status' = [status EXCEPT ![a] = "completed"]
<1> DEFINE a == txn[t].asm
           findings == Evaluate[txn[t].facts]
           drafts == [r \in findings |-> Draft]
<1>1. txn[t] \in CompleteTxn /\ On(t, "complete", a)
  BY TxnKinds DEF CompleteCommit, On, TypeOK
<1>2. a \in Assessments /\ findings \in SUBSET Rules
  BY <1>1, AssessmentsAssumption DEF CompleteTxn
<1>3. status[a] = "in_progress"
  BY <1>1, <1>2 DEF SoleCompletion
<1>4. DOMAIN recs[a] = {}
  BY <1>2, <1>3 DEF CompletionIsAtomic
<1>5. Replace(recs[a], txn[t].deleted, drafts) = drafts
  BY <1>4 DEF Replace
<1>6. /\ recs' = [recs EXCEPT ![a] = Replace(recs[a], txn[t].deleted, drafts)]
      /\ status' = [status EXCEPT ![a] = "completed"]
  BY DEF CompleteCommit
<1>7. QED
  BY <1>1, <1>2, <1>3, <1>4, <1>5, <1>6 DEF TypeOK

\* A review that commits leaves its row with a verdict or an edit, signed by
\* someone who may review there.
LEMMA PatchCommitRows ==
    ASSUME Good, NEW t \in Reqs, PatchCommit(t), txn[t].cols # {}
    PROVE  LET a == txn[t].asm
               row == Merge(Current(t), txn[t].new, txn[t].cols)
           IN  /\ a \in Assessments /\ txn[t].rule \in DOMAIN recs[a] /\ txn[t].rule \in Rules
               /\ row \in Row /\ row.status # "draft" /\ row.by \in Users
               /\ HasPermission(row.by, "recommendation:edit", OrgOf[a])
               /\ recs' = [recs EXCEPT ![a] = [recs[a] EXCEPT ![txn[t].rule] = row]]
<1> DEFINE x == txn[t]
           a == x.asm
           old == Current(t)
           row == Merge(old, x.new, x.cols)
<1>1. x \in PatchTxn /\ x.op = "patch" /\ x.pc = "written" /\ x # Idle
  BY TxnKinds DEF PatchCommit, Patching, Good, TypeOK, Idle, PatchTxn
<1>2. /\ a \in Assessments /\ x.rule \in Rules /\ x.user \in Users /\ x.new \in Row
  BY <1>1 DEF PatchTxn
<1>3. /\ x.rule \in DOMAIN recs[a] /\ x.new.by = x.user /\ x.new.status # "draft"
      /\ ~({"status", "by"} \subseteq x.cols) => old.status # "draft"
  BY <1>1 DEF Good, PatchesAreHonest, PatchIsHonest, RowGone
<1>4. old \in Row
  BY <1>1, <1>3, CurrentType DEF Good, RowGone
<1>5. row \in Row
  BY <1>2, <1>4, MergeType
<1>6. HasPermission(x.user, "recommendation:edit", OrgOf[a])
  BY <1>1 DEF Good, Permitted, NeededFor, HasPermission
<1>7. old.status # "draft" => old.by # NoOne /\ HasPermission(old.by, "recommendation:edit", OrgOf[a])
  BY <1>2, <1>3 DEF Good, ReviewsAreAttributed, Current
<1>8. row.by \in {x.user, old.by} /\ row.status \in {x.new.status, old.status}
  BY <1>3 DEF Merge
<1>9. row.status # "draft"
  BY <1>3 DEF Merge
<1>10. row.by \in Users /\ HasPermission(row.by, "recommendation:edit", OrgOf[a])
  <2>1. CASE "by" \in x.cols
    BY <1>2, <1>3, <1>6, <2>1 DEF Merge
  <2>2. CASE "by" \notin x.cols
    <3>1. old.status # "draft" /\ row.by = old.by
      BY <1>3, <2>2 DEF Merge
    <3>2. QED
      BY <1>4, <1>7, <3>1 DEF Row
  <2>3. QED
    BY <2>1, <2>2
<1>11. recs' = [recs EXCEPT ![a] = [recs[a] EXCEPT ![x.rule] = row]]
  BY DEF PatchCommit
<1>12. QED
  BY <1>2, <1>3, <1>5, <1>9, <1>10, <1>11

\* So rows stay, and no review is undone.
LEMMA NextStays ==
    ASSUME Good, [Next]_vars
    PROVE  RowsStay
<1>1. CASE UNCHANGED recs
  BY <1>1 DEF RowsStay
<1>2. ASSUME NEW t \in Reqs, CompleteCommit(t)
      PROVE  RowsStay
  <2> DEFINE a == txn[t].asm
  <2>1. /\ a \in Assessments /\ DOMAIN recs[a] = {}
        /\ recs' = [recs EXCEPT ![a] = [r \in Evaluate[txn[t].facts] |-> Draft]]
    BY <1>2, CompleteCommitRows DEF Good
  <2>2. \A b \in Assessments \ {a} : recs'[b] = recs[b]
    BY <2>1 DEF Good, TypeOK
  <2>3. QED
    BY <2>1, <2>2 DEF RowsStay
<1>3. ASSUME NEW t \in Reqs, PatchCommit(t), txn[t].cols # {}
      PROVE  RowsStay
  <2> DEFINE a == txn[t].asm
             row == Merge(Current(t), txn[t].new, txn[t].cols)
  <2>1. /\ a \in Assessments /\ row.status # "draft" /\ recs \in [Assessments -> RowSets]
        /\ recs' = [recs EXCEPT ![a] = [recs[a] EXCEPT ![txn[t].rule] = row]]
    BY <1>3, PatchCommitRows DEF Good, TypeOK
  <2> HIDE DEF row
  <2>2. recs'[a] = [recs[a] EXCEPT ![txn[t].rule] = row]
    BY <2>1
  <2>3. \A b \in Assessments \ {a} : recs'[b] = recs[b]
    BY <2>1
  <2>4. QED
    BY <2>1, <2>2, <2>3 DEF RowsStay
<1>4. QED
  BY <1>1, <1>2, <1>3, OthersLeaveRows DEF Good

-----------------------------------------------------------------------------
(* Patches stay honest *)

\* A patch that did not move is honest as before, for its row stays.
LEMMA RestingPatch ==
    ASSUME TypeOK, RowsStay, NEW t \in Reqs, PatchIsHonest(t), txn'[t].op = "patch" => txn'[t] = txn[t]
    PROVE  PatchIsHonest(t)'
<1> SUFFICES ASSUME txn'[t].op = "patch"
             PROVE  PatchIsHonest(t)'
  BY DEF PatchIsHonest
<1>1. txn'[t] = txn[t] /\ txn[t].op = "patch"
  OBVIOUS
<1>2. txn[t].asm \in Assessments
  BY <1>1, TxnKinds DEF TypeOK, PatchTxn
<1>3. /\ txn[t].rule \in DOMAIN recs'[txn[t].asm]
      /\ Current(t).status # "draft" => Current(t)'.status # "draft"
  BY <1>1, <1>2 DEF PatchIsHonest, RowGone, RowsStay, Current
<1>4. QED
  BY <1>1, <1>3 DEF PatchIsHonest, RowGone

LEMMA PatchBeginHonest ==
    ASSUME Good, NEW t \in Reqs, NEW u \in Users, NEW o \in Orgs, NEW a \in Assessments,
           NEW r \in Rules, NEW edit \in Texts \cup {Keep}, NEW verdict \in Verdict \cup {Keep},
           PatchBegin(t, u, o, a, r, edit, verdict)
    PROVE  PatchIsHonest(t)'
<1> DEFINE new == Target(recs[a][r], u, edit, verdict)
<1>1. r \in DOMAIN recs[a] /\ recs' = recs
  BY DEF PatchBegin, data
<1>2. recs[a][r] \in Row
  BY <1>1, PartialElim, TablesArePartial DEF Good, TypeOK
<1>3. new.by = u /\ new.status # "draft"
  BY <1>2, TargetIsHonest
<1>4. txn'[t] = [op |-> "patch", pc |-> "loaded", user |-> u, asm |-> a, rule |-> r,
                 edit |-> edit, verdict |-> verdict, new |-> new, cols |-> {}]
  BY DEF PatchBegin, Good, TypeOK
<1> HIDE DEF new
<1>5. QED
  BY <1>1, <1>3, <1>4 DEF PatchIsHonest, RowGone

LEMMA PatchStepHonest ==
    ASSUME Good, NEW t \in Reqs, PatchStep(t)
    PROVE  PatchIsHonest(t)'
<1> DEFINE x == txn[t]
<1>1. x \in PatchTxn /\ x.op = "patch" /\ txn \in [Reqs -> Txn]
  BY TxnKinds DEF Good, TypeOK, PatchStep, PatchMiss, PatchSelect, PatchNoChange, PatchBlock,
                  PatchUpdate, PatchReload, PatchCommit, Patching
<1>2. /\ ~RowGone(t) /\ x.new.by = x.user /\ x.new.status # "draft"
      /\ x.pc \in {"selected", "blocked", "written"} /\ ~({"status", "by"} \subseteq x.cols)
            => Current(t).status # "draft"
  BY <1>1 DEF Good, PatchesAreHonest, PatchIsHonest
<1>3. Current(t) \in Row
  BY <1>1, <1>2, CurrentType DEF Good
<1>4. /\ x.user \in Users /\ x.asm \in Assessments /\ x.new \in Row
      /\ x.verdict \in Verdict \cup {Keep} /\ x.edit \in Texts \cup {Keep}
  BY <1>1 DEF PatchTxn
<1>5. CASE PatchMiss(t) \/ PatchCommit(t)
  <2>1. txn'[t] = Idle
    BY <1>1, <1>5 DEF PatchMiss, PatchCommit, Finish
  <2>2. QED
    BY <2>1 DEF PatchIsHonest, Idle
<1>6. CASE PatchSelect(t)
  <2> DEFINE cols == {c \in Columns : x.new[c] # Current(t)[c]}
  <2>1. txn'[t] = [x EXCEPT !.pc = "selected", !.cols = cols] /\ recs' = recs
    BY <1>1, <1>6 DEF PatchSelect, data
  <2>2. ~({"status", "by"} \subseteq cols) => Current(t).status # "draft"
    <3>1. "status" \notin cols => Current(t).status = x.new.status
      BY DEF Columns
    <3>2. "by" \notin cols => Current(t).by = x.user
      BY <1>2 DEF Columns
    <3>3. Current(t).status = "draft" => Current(t).by = NoOne
      BY <1>2, <1>4 DEF Good, ReviewsAreAttributed, RowGone, Current
    <3>4. QED
      BY <1>2, <1>4, <3>1, <3>2, <3>3, RowsAssumption
  <2> HIDE DEF cols
  <2>3. /\ txn'[t].new = x.new /\ txn'[t].user = x.user /\ txn'[t].asm = x.asm
        /\ txn'[t].rule = x.rule /\ txn'[t].cols = cols
    BY <1>1, <2>1 DEF PatchTxn
  <2>4. QED
    BY <1>2, <2>1, <2>2, <2>3 DEF PatchIsHonest, RowGone, Current
<1>7. CASE PatchNoChange(t)
  <2>1. /\ x.pc = "selected" /\ x.cols = {} /\ recs' = recs
        /\ \/ txn'[t] = [x EXCEPT !.pc = "reload", !.edit = Keep]
           \/ txn'[t] = [x EXCEPT !.pc = "written"]
    BY <1>1, <1>7 DEF PatchNoChange, Patching, data
  <2>2. /\ txn'[t].new = x.new /\ txn'[t].user = x.user /\ txn'[t].asm = x.asm
        /\ txn'[t].rule = x.rule /\ txn'[t].cols = x.cols
    BY <1>1, <2>1 DEF PatchTxn
  <2>3. QED
    BY <1>2, <2>1, <2>2 DEF PatchIsHonest, RowGone, Current
<1>8. CASE PatchBlock(t)
  <2>1. x.pc = "selected" /\ recs' = recs /\ txn'[t] = [x EXCEPT !.pc = "blocked"]
    BY <1>1, <1>8 DEF PatchBlock, Patching, data
  <2>2. /\ txn'[t].new = x.new /\ txn'[t].user = x.user /\ txn'[t].asm = x.asm
        /\ txn'[t].rule = x.rule /\ txn'[t].cols = x.cols
    BY <1>1, <2>1 DEF PatchTxn
  <2>3. QED
    BY <1>2, <2>1, <2>2 DEF PatchIsHonest, RowGone, Current
<1>9. CASE PatchUpdate(t)
  <2>1. x.pc \in {"selected", "blocked"} /\ recs' = recs
    BY <1>9 DEF PatchUpdate, Patching, data
  <2>2. CASE x.verdict = Keep
    <3>1. txn'[t] = [x EXCEPT !.pc = "written"]
      BY <1>1, <1>9, <2>2 DEF PatchUpdate
    <3>2. /\ txn'[t].new = x.new /\ txn'[t].user = x.user /\ txn'[t].asm = x.asm
          /\ txn'[t].rule = x.rule /\ txn'[t].cols = x.cols
      BY <1>1, <3>1 DEF PatchTxn
    <3>3. QED
      BY <1>2, <2>1, <3>1, <3>2 DEF PatchIsHonest, RowGone, Current
  <2>3. CASE x.verdict # Keep
    <3>1. PICK cols \in {x.cols, x.cols \cup {"status", "by"}} :
              txn'[t] = [x EXCEPT !.pc = "written", !.new.status = x.verdict, !.cols = cols]
      BY <1>1, <1>9, <2>3 DEF PatchUpdate
    <3>2. /\ txn'[t].new.by = x.new.by /\ txn'[t].new.status = x.verdict
          /\ txn'[t].user = x.user /\ txn'[t].asm = x.asm
          /\ txn'[t].rule = x.rule /\ txn'[t].cols = cols
      BY <1>1, <1>4, <3>1 DEF PatchTxn, Row
    <3>3. x.verdict # "draft"
      BY <1>4, <2>3 DEF Verdict
    <3>4. QED
      BY <1>2, <2>1, <3>1, <3>2, <3>3 DEF PatchIsHonest, RowGone, Current
  <2>4. QED
    BY <2>2, <2>3
<1>10. CASE PatchReload(t)
  <2> DEFINE new == Target(Current(t), x.user, x.edit, x.verdict)
  <2>1. txn'[t] = [x EXCEPT !.pc = "loaded", !.new = new] /\ recs' = recs
    BY <1>1, <1>10 DEF PatchReload, data
  <2>2. new.by = x.user /\ new.status # "draft"
    BY <1>3, <1>4, TargetIsHonest
  <2> HIDE DEF new
  <2>3. /\ txn'[t].new = new /\ txn'[t].user = x.user /\ txn'[t].asm = x.asm
        /\ txn'[t].rule = x.rule /\ txn'[t].pc = "loaded"
    BY <1>1, <2>1 DEF PatchTxn
  <2>4. QED
    BY <1>2, <2>1, <2>2, <2>3 DEF PatchIsHonest, RowGone, Current
<1>11. QED
  BY <1>5, <1>6, <1>7, <1>8, <1>9, <1>10 DEF PatchStep

LEMMA NextHonest ==
    ASSUME Good, [Next]_vars
    PROVE  PatchesAreHonest'
<1> SUFFICES ASSUME NEW v \in Reqs
             PROVE  PatchIsHonest(v)'
  BY DEF PatchesAreHonest
<1>1. CASE PatchStep(v)
  BY <1>1, PatchStepHonest
<1>2. CASE ~PatchStep(v) /\ txn'[v].op = "patch"
  <2>1. CASE txn'[v] = txn[v]
    <3>1. RowsStay /\ TypeOK /\ PatchIsHonest(v)
      BY NextStays DEF Good, PatchesAreHonest
    <3>2. QED
      BY <2>1, <3>1, RestingPatch
  <2>2. QED
    BY <1>2, <2>1, OthersLeavePatches, PatchBeginHonest DEF Good
<1>3. CASE txn'[v].op # "patch"
  BY <1>3 DEF PatchIsHonest
<1>4. QED
  BY <1>1, <1>2, <1>3

-----------------------------------------------------------------------------
(* Reviews are attributed *)

\* What ReviewsAreAttributed says of one row of organization o.
Attributed(row, o) ==
    /\ row.by = NoOne <=> row.status = "draft"
    /\ row.by # NoOne => HasPermission(row.by, "recommendation:edit", o)
    /\ row.status \in Verdict => HasPermission(row.by, "recommendation:approve", o)

LEMMA AttributedRows ==
    ReviewsAreAttributed <=>
        \A a \in Assessments : \A r \in DOMAIN recs[a] : Attributed(recs[a][r], OrgOf[a])
BY DEF ReviewsAreAttributed, Attributed

LEMMA NextAttributed ==
    ASSUME Good, [Next]_vars
    PROVE  ReviewsAreAttributed'
<1> SUFFICES ASSUME NEW b \in Assessments, NEW r \in DOMAIN recs'[b]
             PROVE  Attributed(recs'[b][r], OrgOf[b])
  BY DEF ReviewsAreAttributed, Attributed
<1>1. \A a \in Assessments : \A s \in DOMAIN recs[a] : Attributed(recs[a][s], OrgOf[a])
  BY AttributedRows DEF Good
<1>2. CASE recs' = recs
  BY <1>1, <1>2
<1>3. ASSUME NEW t \in Reqs, CompleteCommit(t)
      PROVE  Attributed(recs'[b][r], OrgOf[b])
  <2> DEFINE a == txn[t].asm
             findings == Evaluate[txn[t].facts]
  <2>1. a \in Assessments /\ recs' = [recs EXCEPT ![a] = [s \in findings |-> Draft]]
    BY <1>3, CompleteCommitRows DEF Good
  <2>2. CASE a = b
    <3>1. recs'[b] = [s \in findings |-> Draft]
      BY <2>1, <2>2 DEF Good, TypeOK
    <3>2. recs'[b][r] = Draft
      BY <3>1
    <3>3. QED
      BY <3>2 DEF Attributed, Draft, Verdict
  <2>3. CASE a # b
    BY <1>1, <2>1, <2>3 DEF Good, TypeOK
  <2>4. QED
    BY <2>2, <2>3
<1>4. ASSUME NEW t \in Reqs, PatchCommit(t), txn[t].cols # {}
      PROVE  Attributed(recs'[b][r], OrgOf[b])
  <2> DEFINE a == txn[t].asm
             row == Merge(Current(t), txn[t].new, txn[t].cols)
  <2>1. /\ a \in Assessments /\ row.status # "draft" /\ row.by \in Users
        /\ HasPermission(row.by, "recommendation:edit", OrgOf[a])
        /\ recs' = [recs EXCEPT ![a] = [recs[a] EXCEPT ![txn[t].rule] = row]]
    BY <1>4, PatchCommitRows
  <2> HIDE DEF row
  <2>2. EffectiveRoles(row.by, OrgOf[a]) \subseteq Role
    BY <2>1, RolesAssumption, RowsAssumption DEF EffectiveRoles
  <2>3. Attributed(row, OrgOf[a])
    <3>1. HasPermission(row.by, "recommendation:approve", OrgOf[a])
      BY <2>1, <2>2, ReviewersApprove
    <3>2. row.by # NoOne
      BY <2>1, RowsAssumption
    <3>3. QED
      BY <2>1, <3>1, <3>2 DEF Attributed
  <2>4. CASE a = b
    <3>1. recs'[b] = [recs[b] EXCEPT ![txn[t].rule] = row]
      BY <2>1, <2>4 DEF Good, TypeOK
    <3>2. r \in DOMAIN recs[b] /\ (recs'[b][r] = row \/ recs'[b][r] = recs[b][r])
      BY <3>1
    <3>3. QED
      BY <1>1, <2>3, <2>4, <3>2
  <2>5. CASE a # b
    BY <1>1, <2>1, <2>5 DEF Good, TypeOK
  <2>6. QED
    BY <2>4, <2>5
<1>5. QED
  BY <1>2, <1>3, <1>4, OthersLeaveRows DEF Good

-----------------------------------------------------------------------------
(* The theorems *)

LEMMA InitIsGood ==
    ASSUME Init
    PROVE  Permitted /\ SoleCompletion /\ PatchesAreHonest /\ ReviewsAreAttributed
<1>1. \A t \in Reqs : txn[t] = Idle
  BY DEF Init
<1>2. \A a \in Assessments : DOMAIN recs[a] = {}
  BY EmptyType DEF Init
<1>3. QED
  BY <1>1, <1>2
  DEF Permitted, SoleCompletion, On, PatchesAreHonest, PatchIsHonest, ReviewsAreAttributed, Idle

LEMMA SerialIsGood ==
    ASSUME IsFiniteSet(Reqs), InFlight["complete"] <= 1
    PROVE  Spec => []Good
<1> DEFINE Rest == Permitted /\ SoleCompletion /\ PatchesAreHonest /\ ReviewsAreAttributed
<1>1. Init => Rest
  BY InitIsGood
<1>2. ASSUME TypeOK, CompletionIsAtomic, Rest, [Next]_vars
      PROVE  Rest'
  <2>1. Good
    BY <1>2 DEF Good
  <2>2. Permitted' /\ SoleCompletion'
    BY <1>2, NextPermitted, NextSole
  <2>3. QED
    BY <1>2, <2>1, <2>2, NextHonest, NextAttributed
<1>3. TypeOK /\ CompletionIsAtomic /\ Rest => Good
  BY DEF Good
<1>4. QED
  BY <1>1, <1>2, <1>3, TypeCorrect, CompletionAtomic, PTL DEF Spec

\* If completions of one assessment never overlap, a reviewed recommendation
\* always names a reviewer who may review in its organization, and a draft names
\* nobody, whatever reviews overlap and fail.
THEOREM ReviewsAttributed ==
    ASSUME IsFiniteSet(Reqs), InFlight["complete"] <= 1
    PROVE  Spec => []ReviewsAreAttributed
<1>1. Good => ReviewsAreAttributed
  BY DEF Good
<1>2. QED
  BY <1>1, SerialIsGood, PTL

\* The recommendations of a completed assessment are the findings of the facts
\* that were evaluated, no more and no less.
THEOREM FindingsStored ==
    ASSUME IsFiniteSet(Reqs), InFlight["complete"] <= 1
    PROVE  Spec => RecsAreTheFindings
<1> DEFINE FindingsIn ==
        \A a \in Assessments :
            completions'[a] # completions[a] =>
                \E t \in Reqs :
                    Completes(t, a) /\ DOMAIN recs'[a] = Evaluate[txn[t].facts]
<1>1. ASSUME Good, NEW t \in Reqs, CompleteCommit(t)
      PROVE  FindingsIn
  <2> DEFINE b == txn[t].asm
  <2>1. /\ On(t, "complete", b) /\ b \in Assessments
        /\ recs' = [recs EXCEPT ![b] = [r \in Evaluate[txn[t].facts] |-> Draft]]
    BY <1>1, CompleteCommitRows DEF Good
  <2>2. DOMAIN recs'[b] = Evaluate[txn[t].facts]
    BY <1>1, <2>1 DEF Good, TypeOK
  <2>3. /\ completions'[b] = completions[b] + 1
        /\ \A a \in Assessments \ {b} : completions'[a] = completions[a]
    BY <1>1, <2>1 DEF CompleteCommit, Good, TypeOK
  <2>4. txn'[t] = Idle
    BY <1>1 DEF CompleteCommit
  <2>5. Completes(t, b)
    BY <2>1, <2>3, <2>4 DEF Completes
  <2>6. QED
    BY <2>2, <2>3, <2>5
<1>2. Good /\ [Next]_vars => [FindingsIn]_vars
  BY <1>1, OthersLeaveCompletions DEF Good
<1>3. Spec => [][FindingsIn]_vars
  BY <1>2, SerialIsGood, PTL DEF Spec
<1>4. QED
  BY <1>3 DEF RecsAreTheFindings

\* The statements of concurrent requests add up to the atomic steps of Workspace:
\* creations, completions that bring drafts, and reviews.
THEOREM WorkspaceImplemented ==
    ASSUME IsFiniteSet(Reqs), InFlight["complete"] <= 1
    PROVE  Spec => ImplementsWorkspace
<1>1. Init => W!Init
  BY DEF Init, W!Init, W!Empty, Empty
<1>2. ASSUME Good, [Next]_vars
      PROVE  [W!Next]_<<status, recs>>
  <2>1. ASSUME NEW a \in Assessments, status[a] = "absent", UNCHANGED recs,
               status' = [status EXCEPT ![a] = "in_progress"]
        PROVE  W!Next
    <3>1. W!Create(a)
      BY <2>1 DEF W!Create
    <3>2. QED
      BY <3>1 DEF W!Next
  <2>2. ASSUME NEW t \in Reqs, CompleteCommit(t)
        PROVE  W!Next
    <3> DEFINE a == txn[t].asm
               findings == Evaluate[txn[t].facts]
    <3>1. /\ a \in Assessments /\ findings \in SUBSET Rules /\ status[a] = "in_progress"
          /\ recs' = [recs EXCEPT ![a] = [r \in findings |-> Draft]]
          /\ status' = [status EXCEPT ![a] = "completed"]
      BY <1>2, <2>2, CompleteCommitRows DEF Good
    <3>2. W!Complete(a, findings)
      BY <3>1 DEF W!Complete, W!Draft, Draft
    <3>3. QED
      BY <3>1, <3>2 DEF W!Next
  <2>3. ASSUME NEW t \in Reqs, PatchCommit(t), txn[t].cols # {}, UNCHANGED status
        PROVE  W!Next
    <3> DEFINE a == txn[t].asm
               r == txn[t].rule
               row == Merge(Current(t), txn[t].new, txn[t].cols)
    <3>1. /\ a \in Assessments /\ r \in DOMAIN recs[a] /\ r \in Rules
          /\ row \in Row /\ row.status # "draft" /\ row.by \in Users
          /\ HasPermission(row.by, "recommendation:edit", OrgOf[a])
          /\ recs' = [recs EXCEPT ![a] = [recs[a] EXCEPT ![r] = row]]
      BY <1>2, <2>3, PatchCommitRows
    <3> HIDE DEF row
    <3>2. row \in [text : Texts, status : W!ReviewStatus, by : Users]
      BY <3>1 DEF Row, ReviewStatus, W!ReviewStatus
    <3>3. W!Reviewer(row.by, a)
      BY <3>1 DEF W!Reviewer, W!HasPermission, W!PermissionsIn, W!EffectiveRoles, W!Policy,
                  W!Permission, HasPermission, PermissionsIn, EffectiveRoles, Policy, Permission
    <3>4. W!Review(a, r, row)
      BY <2>3, <3>1, <3>3 DEF W!Review
    <3>5. QED
      BY <3>1, <3>2, <3>4 DEF W!Next
  <2>4. QED
    BY <1>2, <2>1, <2>2, <2>3, OthersLeaveRows DEF Good
<1>3. QED
  BY <1>1, <1>2, SerialIsGood, PTL DEF Spec, ImplementsWorkspace, W!Spec

=============================================================================
