-------------------------- MODULE AssessmentsProofs -------------------------
(***************************************************************************)
(* Theorems about Assessments, for every value of its constants.           *)
(***************************************************************************)
EXTENDS Assessments, FiniteSetTheorems, TLAPS

-----------------------------------------------------------------------------
(* Partial functions: the rows of an assessment, by key. *)

Partial(D, R) == UNION {[S -> R] : S \in SUBSET D}

\* A partial function is a function on its domain, and its domain is in D.
LEMMA PartialElim ==
    ASSUME NEW D, NEW R, NEW f \in Partial(D, R)
    PROVE  DOMAIN f \subseteq D /\ f \in [DOMAIN f -> R]
BY DEF Partial

\* A function on part of D is a partial function.
LEMMA PartialIntro ==
    ASSUME NEW D, NEW R, NEW S \in SUBSET D, NEW f \in [S -> R]
    PROVE  f \in Partial(D, R)
BY DEF Partial

\* Deleting rows and inserting others keeps a table a table.
LEMMA ReplaceType ==
    ASSUME NEW D, NEW R, NEW f \in Partial(D, R), NEW g \in Partial(D, R), NEW gone
    PROVE  /\ Replace(f, gone, g) \in Partial(D, R)
           /\ DOMAIN Replace(f, gone, g) = (DOMAIN f \ gone) \cup DOMAIN g
<1> DEFINE S == (DOMAIN f \ gone) \cup DOMAIN g
<1>1. S \in SUBSET D /\ f \in [DOMAIN f -> R] /\ g \in [DOMAIN g -> R]
  BY PartialElim
<1>2. Replace(f, gone, g) \in [S -> R]
  BY <1>1 DEF Replace
<1>3. QED
  BY <1>1, <1>2, PartialIntro

LEMMA TablesArePartial == RowSets = Partial(Rules, Row) /\ Answers = Partial(Keys, Values)
BY DEF RowSets, Answers, Partial

LEMMA EmptyType == Empty \in RowSets /\ Empty \in Answers /\ DOMAIN Empty = {}
<1>1. Empty \in [{} -> Row] /\ Empty \in [{} -> Values] /\ DOMAIN Empty = {}
  BY DEF Empty
<1>2. QED
  BY <1>1, PartialIntro, TablesArePartial

-----------------------------------------------------------------------------
(* Transactions. *)

\* The operation of a transaction tells what kind of record it is.
LEMMA TxnKinds ==
    ASSUME NEW x \in Txn
    PROVE  /\ x.op = "save" => x \in SaveTxn
           /\ x.op = "complete" => x \in CompleteTxn
           /\ x.op = "patch" => x \in PatchTxn
           /\ x = Idle \/ x.op \in Operations
BY DEF Txn, Idle, SaveTxn, CompleteTxn, PatchTxn, Operations

\* The same request, further on.
Continues(x, y) ==
    /\ y \in Txn /\ y.op = x.op /\ y.user = x.user /\ y.asm = x.asm
    /\ NeededFor(y) = NeededFor(x)

\* A commit leaves every other request where it was, makes it skip rows, or ends it.
LEMMA AfterCommitMoves ==
    ASSUME NEW x \in Txn, NEW op, NEW a, NEW gone, NEW new,
           op = "save" => new \subseteq Keys, op = "complete" => new \subseteq Rules
    PROVE  LET y == AfterCommit(x, op, a, gone, new)
           IN  y = Idle \/ (x # Idle /\ Continues(x, y))
<1> DEFINE y == AfterCommit(x, op, a, gone, new)
<1>1. CASE x.op = op /\ x.asm = a /\ op \in {"save", "complete"}
  <2>1. y = [x EXCEPT !.victims = @ \ gone, !.since = (@ \ gone) \cup new]
    BY <1>1 DEF AfterCommit
  <2>2. CASE op = "save"
    BY <1>1, <2>1, <2>2, TxnKinds DEF Continues, NeededFor, Txn, SaveTxn, Idle
  <2>3. CASE op = "complete"
    BY <1>1, <2>1, <2>3, TxnKinds DEF Continues, NeededFor, Txn, CompleteTxn, Idle
  <2>4. QED
    BY <1>1, <2>2, <2>3
<1>2. CASE ~(x.op = op /\ x.asm = a /\ op \in {"save", "complete"})
  BY <1>2 DEF AfterCommit, Continues
<1>3. QED
  BY <1>1, <1>2

LEMMA DraftType == Draft \in Row
BY RowsAssumption DEF Draft, Row, ReviewStatus

LEMMA TargetType ==
    ASSUME NEW row \in Row, NEW u \in Users,
           NEW edit \in Texts \cup {Keep}, NEW verdict \in Verdict \cup {Keep}
    PROVE  Target(row, u, edit, verdict) \in Row
BY DEF Target, EditRound, Row, ReviewStatus, Verdict

LEMMA MergeType ==
    ASSUME NEW row \in Row, NEW new \in Row, NEW cols
    PROVE  Merge(row, new, cols) \in Row
BY DEF Merge, Row

-----------------------------------------------------------------------------
(* Type correctness. *)

LEMMA InitType == Init => TypeOK
<1> SUFFICES ASSUME Init PROVE TypeOK
  OBVIOUS
<1>1. Empty \in RowSets /\ Empty \in Answers
  BY EmptyType
<1>2. QED
  BY <1>1, AssessmentsAssumption DEF Init, TypeOK, Status, Txn

\* A step that only moves one transaction.
LEMMA TxnStepType ==
    ASSUME TypeOK, NEW t \in Reqs, NEW x \in Txn,
           txn' = [txn EXCEPT ![t] = x], UNCHANGED data
    PROVE  TypeOK'
BY DEF TypeOK, data

\* The rows that a request replaces, and what it replaces them by.
LEMMA ContentType ==
    ASSUME NEW x \in Txn
    PROVE  /\ x.op = "save" => Content(x) \subseteq Keys
           /\ x.op = "complete" => Content(x) \subseteq Rules
<1>1. CASE x.op = "save"
  <2>1. x.payload \in Answers
    BY <1>1, TxnKinds DEF SaveTxn
  <2>2. DOMAIN x.payload \subseteq Keys
    BY <2>1, PartialElim, TablesArePartial
  <2>3. QED
    BY <1>1, <2>2 DEF Content
<1>2. CASE x.op = "complete"
  <2>1. x.facts \in Answers
    BY <1>2, TxnKinds DEF CompleteTxn
  <2>2. QED
    BY <1>2, <2>1, AssessmentsAssumption DEF Content
<1>3. QED
  BY <1>1, <1>2

\* The steps that move one transaction on, or end it, and commit nothing.
Quiet(t) ==
    \/ WriteStep(t) \/ CompleteSelect(t) \/ CompleteSetStatus(t)
    \/ Abort(t) \/ DeadlockVictim(t)

LEMMA FinishMoves ==
    ASSUME NEW t \in Reqs, Finish(t)
    PROVE  \E y \in Txn : txn' = [txn EXCEPT ![t] = y] /\ y = Idle
<1>1. Idle \in Txn
  BY DEF Txn
<1>2. QED
  BY <1>1 DEF Finish

LEMMA DeleteRowMoves ==
    ASSUME TypeOK, NEW t \in Reqs, DeleteRow(t)
    PROVE  \E k \in txn[t].victims, y \in Txn :
               /\ txn' = [txn EXCEPT ![t] = y] /\ Continues(txn[t], y)
               /\ y = [txn[t] EXCEPT !.victims = @ \ {k}, !.deleted = @ \cup {k}]
               /\ ~Locked(t, Tuple(txn[t], k))
<1> DEFINE x == txn[t]
<1>1. x \in Txn /\ (x \in SaveTxn \/ x \in CompleteTxn)
  BY TxnKinds DEF TypeOK, DeleteRow, Writing
<1>2. PICK k \in x.victims :
          /\ ~Locked(t, Tuple(x, k))
          /\ txn' = [txn EXCEPT ![t].victims = @ \ {k}, ![t].deleted = @ \cup {k}]
  BY DEF DeleteRow
<1> DEFINE y == [x EXCEPT !.victims = @ \ {k}, !.deleted = @ \cup {k}]
<1>3. txn' = [txn EXCEPT ![t] = y]
  BY <1>1, <1>2 DEF TypeOK, SaveTxn, CompleteTxn
<1>4. y \in Txn /\ Continues(x, y)
  <2>1. CASE x \in SaveTxn
    BY <1>2, <2>1 DEF Continues, NeededFor, Txn, SaveTxn
  <2>2. CASE x \in CompleteTxn
    BY <1>2, <2>2 DEF Continues, NeededFor, Txn, CompleteTxn
  <2>3. QED
    BY <1>1, <2>1, <2>2
<1>5. QED
  BY <1>2, <1>3, <1>4

LEMMA InsertRowMoves ==
    ASSUME TypeOK, NEW t \in Reqs, InsertRow(t)
    PROVE  \E k \in Content(txn[t]), y \in Txn :
               /\ txn' = [txn EXCEPT ![t] = y] /\ Continues(txn[t], y)
               /\ y = [txn[t] EXCEPT !.inserted = @ \cup {k}]
               /\ txn[t].victims = {} /\ ~Clashes(t, k) /\ ~Locked(t, Tuple(txn[t], k))
<1> DEFINE x == txn[t]
<1>1. PICK k : /\ Inserting(t, k) /\ ~Clashes(t, k)
               /\ txn' = [txn EXCEPT ![t].inserted = @ \cup {k}]
  BY DEF InsertRow
<1>2. x \in Txn /\ (x \in SaveTxn \/ x \in CompleteTxn)
  BY <1>1, TxnKinds DEF TypeOK, Inserting, Writing
<1>3. k \in Content(x)
  BY <1>1 DEF Inserting, NextRows, Todo
<1> DEFINE y == [x EXCEPT !.inserted = @ \cup {k}]
<1>4. txn' = [txn EXCEPT ![t] = y]
  BY <1>1, <1>2 DEF TypeOK, SaveTxn, CompleteTxn
<1>5. y \in Txn /\ Continues(x, y)
  <2>1. CASE x \in SaveTxn
    <3>1. k \in Keys
      BY <1>2, <1>3, <2>1, ContentType DEF SaveTxn
    <3>2. QED
      BY <2>1, <3>1 DEF Continues, NeededFor, Txn, SaveTxn
  <2>2. CASE x \in CompleteTxn
    <3>1. k \in Rules
      BY <1>2, <1>3, <2>2, ContentType DEF CompleteTxn
    <3>2. QED
      BY <2>2, <3>1 DEF Continues, NeededFor, Txn, CompleteTxn
  <2>3. QED
    BY <1>2, <2>1, <2>2
<1>6. QED
  BY <1>1, <1>3, <1>4, <1>5 DEF Inserting

LEMMA CompleteSelectMoves ==
    ASSUME TypeOK, NEW t \in Reqs, CompleteSelect(t)
    PROVE  \E y \in Txn :
               /\ txn' = [txn EXCEPT ![t] = y] /\ Continues(txn[t], y)
               /\ y = [txn[t] EXCEPT !.pc = "writing", !.victims = DOMAIN recs[txn[t].asm],
                                     !.since = {}]
<1> DEFINE x == txn[t]
           y == [x EXCEPT !.pc = "writing", !.victims = DOMAIN recs[x.asm], !.since = {}]
<1>1. x \in CompleteTxn
  BY TxnKinds DEF TypeOK, CompleteSelect
<1>2. DOMAIN recs[x.asm] \subseteq Rules
  BY <1>1, PartialElim, TablesArePartial DEF TypeOK, CompleteTxn
<1>3. txn' = [txn EXCEPT ![t] = y]
  BY <1>1 DEF CompleteSelect, TypeOK, CompleteTxn
<1>4. y \in Txn /\ Continues(x, y)
  BY <1>1, <1>2 DEF Continues, NeededFor, Txn, CompleteTxn
<1>5. QED
  BY <1>3, <1>4

LEMMA CompleteSetStatusMoves ==
    ASSUME TypeOK, NEW t \in Reqs, CompleteSetStatus(t)
    PROVE  \E y \in Txn :
               /\ txn' = [txn EXCEPT ![t] = y] /\ Continues(txn[t], y)
               /\ y = [txn[t] EXCEPT !.pc = "written"]
<1> DEFINE x == txn[t]
           y == [x EXCEPT !.pc = "written"]
<1>1. x \in CompleteTxn
  BY TxnKinds DEF TypeOK, CompleteSetStatus
<1>2. txn' = [txn EXCEPT ![t] = y]
  BY DEF CompleteSetStatus
<1>3. y \in Txn /\ Continues(x, y)
  BY <1>1 DEF Continues, NeededFor, Txn, CompleteTxn
<1>4. QED
  BY <1>2, <1>3

LEMMA QuietMoves ==
    ASSUME TypeOK, NEW t \in Reqs, Quiet(t)
    PROVE  /\ UNCHANGED data
           /\ \E y \in Txn :
                 txn' = [txn EXCEPT ![t] = y] /\ (y = Idle \/ Continues(txn[t], y))
<1>1. UNCHANGED data
  BY DEF Quiet, WriteStep, DeleteRow, InsertRow, Clash, CompleteSelect, CompleteSetStatus, Abort,
         DeadlockVictim
<1>2. CASE Clash(t) \/ Abort(t) \/ DeadlockVictim(t)
  BY <1>1, <1>2, FinishMoves DEF Clash, Abort, DeadlockVictim
<1>3. QED
  BY <1>1, <1>2, DeleteRowMoves, InsertRowMoves, CompleteSelectMoves, CompleteSetStatusMoves
     DEF Quiet, WriteStep

\* Every step is one of these.
LEMMA StepKinds ==
    ASSUME [Next]_vars
    PROVE  \/ UNCHANGED vars
           \/ \E u \in Users, o \in Orgs, tp \in Templates : PublishTemplate(u, o, tp)
           \/ \E u \in Users, o \in Orgs, tp \in Templates, a \in Assessments :
                 CreateFromTemplate(u, o, tp, a)
           \/ \E t \in Reqs, u \in Users, o \in Orgs, a \in Assessments : Begin(t, u, o, a)
           \/ \E t \in Reqs : Quiet(t)
           \/ \E t \in Reqs : SaveCommit(t)
           \/ \E t \in Reqs : CompleteCommit(t)
           \/ \E t \in Reqs : PatchStep(t)
BY DEF Next, Advance, CompleteStep, Quiet

LEMMA SaveBeginType ==
    ASSUME TypeOK, NEW t \in Reqs, NEW u \in Users, NEW o, NEW a \in Assessments,
           NEW payload \in Answers,
           NEW order \in [DOMAIN payload -> 1 .. Cardinality(DOMAIN payload)],
           SaveBegin(t, u, o, a, payload, order)
    PROVE  TypeOK'
<1>1. DOMAIN responses[a] \subseteq Keys /\ DOMAIN payload \subseteq Keys
  BY PartialElim, TablesArePartial DEF TypeOK
<1>2. order \in Ranks
  <2>1. /\ IsFiniteSet(DOMAIN payload)
        /\ Cardinality(DOMAIN payload) <= Cardinality(Keys)
    BY <1>1, AssessmentsAssumption, FS_Subset
  <2>2. Cardinality(DOMAIN payload) \in Nat /\ Cardinality(Keys) \in Nat
    BY <2>1, AssessmentsAssumption, FS_CardinalityType
  <2>3. order \in [DOMAIN payload -> 1 .. Cardinality(Keys)]
    BY <2>1, <2>2
  <2>4. QED
    BY <1>1, <2>3 DEF Ranks
<1>3. [op |-> "save", user |-> u, asm |-> a, payload |-> payload, order |-> order,
       victims |-> DOMAIN responses[a], deleted |-> {}, inserted |-> {}, since |-> {}] \in Txn
  BY <1>1, <1>2 DEF Txn, SaveTxn
<1>4. QED
  BY <1>3, TxnStepType DEF SaveBegin

LEMMA SaveCommitType ==
    ASSUME TypeOK, NEW t \in Reqs, SaveCommit(t)
    PROVE  TypeOK'
<1> DEFINE x == txn[t]
<1>1. x \in Txn /\ x \in SaveTxn
  BY TxnKinds DEF TypeOK, SaveCommit
<1>2. x.asm \in Assessments /\ x.payload \in Answers /\ DOMAIN x.payload \subseteq Keys
  BY <1>1, PartialElim, TablesArePartial DEF SaveTxn
<1>3. Replace(responses[x.asm], x.deleted, x.payload) \in Answers
  BY <1>2, ReplaceType, TablesArePartial DEF TypeOK
<1>4. responses' \in [Assessments -> Answers]
  BY <1>2, <1>3 DEF SaveCommit, TypeOK
<1>5. \A u \in Reqs : AfterCommit(txn[u], "save", x.asm, x.deleted, DOMAIN x.payload) \in Txn
  BY <1>2, AfterCommitMoves DEF TypeOK, Continues, Txn
<1>6. txn' \in [Reqs -> Txn]
  BY <1>5 DEF SaveCommit, Txn
<1>7. QED
  BY <1>4, <1>6 DEF SaveCommit, TypeOK

LEMMA CompleteBeginType ==
    ASSUME TypeOK, NEW t \in Reqs, NEW u \in Users, NEW o, NEW a \in Assessments,
           CompleteBegin(t, u, o, a)
    PROVE  TypeOK'
<1>1. [op |-> "complete", pc |-> "evaluated", user |-> u, asm |-> a,
       facts |-> responses[a], victims |-> {}, deleted |-> {}, inserted |-> {},
       since |-> {}] \in Txn
  BY DEF Txn, CompleteTxn, TypeOK
<1>2. txn' \in [Reqs -> Txn]
  BY <1>1 DEF CompleteBegin, TypeOK
<1>3. passes' \in [Assessments -> 0 .. MaxPasses]
  BY AssessmentsAssumption DEF CompleteBegin, TypeOK
<1>4. QED
  BY <1>2, <1>3 DEF CompleteBegin, TypeOK

LEMMA CompleteCommitType ==
    ASSUME TypeOK, NEW t \in Reqs, CompleteCommit(t)
    PROVE  TypeOK'
<1> DEFINE x == txn[t]
           findings == [r \in Evaluate[x.facts] |-> Draft]
<1>1. x \in CompleteTxn
  BY TxnKinds DEF TypeOK, CompleteCommit
<1>2. x.asm \in Assessments /\ Evaluate[x.facts] \in SUBSET Rules
  BY <1>1, AssessmentsAssumption DEF CompleteTxn
<1>3. findings \in RowSets
  <2>1. findings \in [Evaluate[x.facts] -> Row]
    BY DraftType
  <2>2. QED
    BY <1>2, <2>1, PartialIntro, TablesArePartial
<1>4. Replace(recs[x.asm], x.deleted, findings) \in RowSets
  BY <1>2, <1>3, ReplaceType, TablesArePartial DEF TypeOK
<1>5. recs' \in [Assessments -> RowSets]
  BY <1>2, <1>4 DEF CompleteCommit, TypeOK
<1>6. \A u \in Reqs :
          AfterCommit(txn[u], "complete", x.asm, x.deleted, Evaluate[x.facts]) \in Txn
  BY <1>2, AfterCommitMoves DEF TypeOK, Continues, Txn
<1>7. txn' \in [Reqs -> Txn]
  BY <1>6 DEF CompleteCommit, Txn
<1>8. status' \in [Assessments -> Status] /\ completions' \in [Assessments -> Nat]
  BY <1>2 DEF CompleteCommit, TypeOK, Status
<1>9. QED
  BY <1>5, <1>7, <1>8 DEF CompleteCommit, TypeOK

LEMMA PatchBeginType ==
    ASSUME TypeOK, NEW t \in Reqs, NEW u \in Users, NEW o, NEW a \in Assessments, NEW r \in Rules,
           NEW edit \in Texts \cup {Keep}, NEW verdict \in Verdict \cup {Keep},
           PatchBegin(t, u, o, a, r, edit, verdict)
    PROVE  TypeOK'
<1> DEFINE new == Target(recs[a][r], u, edit, verdict)
<1>1. recs[a][r] \in Row
  BY PartialElim, TablesArePartial DEF PatchBegin, TypeOK
<1>2. new \in Row
  BY <1>1, TargetType
<1>3. [op |-> "patch", pc |-> "loaded", user |-> u, asm |-> a, rule |-> r,
       edit |-> edit, verdict |-> verdict, new |-> new, cols |-> {}] \in Txn
  BY <1>2 DEF Txn, PatchTxn
<1>4. QED
  BY <1>3, TxnStepType DEF PatchBegin

\* The row that a patch works on, while it is there.
LEMMA CurrentType ==
    ASSUME TypeOK, NEW t \in Reqs, txn[t] \in PatchTxn, ~RowGone(t)
    PROVE  Current(t) \in Row
<1>1. recs[txn[t].asm] \in Partial(Rules, Row)
  BY TablesArePartial DEF TypeOK, PatchTxn
<1>2. QED
  BY <1>1, PartialElim DEF Current, RowGone

LEMMA PatchStepType ==
    ASSUME TypeOK, NEW t \in Reqs, PatchStep(t)
    PROVE  TypeOK'
<1>1. txn[t] \in Txn /\ txn[t] \in PatchTxn
  BY TxnKinds DEF TypeOK, PatchStep, PatchMiss, PatchSelect, PatchNoChange, PatchBlock,
                  PatchUpdate, PatchReload, PatchCommit, Patching
<1>a. /\ txn[t].asm \in Assessments /\ txn[t].rule \in Rules /\ txn[t].user \in Users
      /\ txn[t].edit \in Texts \cup {Keep} /\ txn[t].verdict \in Verdict \cup {Keep}
      /\ txn[t].new \in Row /\ txn[t].cols \subseteq Columns
  BY <1>1 DEF PatchTxn
<1>2. CASE PatchMiss(t)
  <2>1. Idle \in Txn
    BY DEF Txn
  <2>2. QED
    BY <1>2, <2>1, TxnStepType DEF PatchMiss, Finish
<1>3. CASE PatchSelect(t)
  <2> DEFINE cs == {c \in Columns : txn[t].new[c] # Current(t)[c]}
             x == [txn[t] EXCEPT !.pc = "selected", !.cols = cs]
  <2> HIDE DEF cs
  <2>1. cs \subseteq Columns
    BY DEF cs
  <2>2. x \in Txn
    BY <1>1, <2>1 DEF Txn, PatchTxn
  <2>3. txn' = [txn EXCEPT ![t] = x]
    BY <1>3 DEF PatchSelect, cs
  <2>4. QED
    BY <1>3, <2>2, <2>3, TxnStepType DEF PatchSelect
<1>4. CASE PatchNoChange(t)
  <2> DEFINE x == [txn[t] EXCEPT !.pc = "reload", !.edit = Keep]
             y == [txn[t] EXCEPT !.pc = "written"]
  <2>1. x \in Txn /\ y \in Txn
    BY <1>1 DEF Txn, PatchTxn
  <2>2. txn' = [txn EXCEPT ![t] = x] \/ txn' = [txn EXCEPT ![t] = y]
    BY <1>4 DEF PatchNoChange
  <2>3. QED
    BY <1>4, <2>1, <2>2, TxnStepType DEF PatchNoChange
<1>5. CASE PatchBlock(t)
  <2>1. [txn[t] EXCEPT !.pc = "blocked"] \in Txn
    BY <1>1 DEF Txn, PatchTxn
  <2>2. txn' = [txn EXCEPT ![t] = [txn[t] EXCEPT !.pc = "blocked"]]
    BY <1>5 DEF PatchBlock
  <2>3. QED
    BY <1>5, <2>1, <2>2, TxnStepType DEF PatchBlock
<1>6. CASE PatchUpdate(t)
  <2> DEFINE cs == IF EditRound(txn[t].edit, txn[t].verdict)
                       THEN txn[t].cols \cup {"status", "by"} ELSE txn[t].cols
             row == [txn[t].new EXCEPT !.status = txn[t].verdict]
             x == [txn[t] EXCEPT !.pc = "written", !.new = row, !.cols = cs]
             y == [txn[t] EXCEPT !.pc = "written"]
  <2>1. y \in Txn
    BY <1>1 DEF Txn, PatchTxn
  <2>2. cs \subseteq Columns
    BY <1>a DEF Columns
  <2>3. CASE txn[t].verdict = Keep
    <3>1. txn' = [txn EXCEPT ![t] = y]
      BY <1>6, <2>3 DEF PatchUpdate
    <3>2. QED
      BY <1>6, <2>1, <3>1, TxnStepType DEF PatchUpdate
  <2>4. CASE txn[t].verdict # Keep
    <3>1. row \in Row
      BY <1>a, <2>4 DEF Row, ReviewStatus, Verdict
    <3>2. x \in Txn
      <4> HIDE DEF cs, row
      <4> QED BY <1>1, <2>2, <3>1 DEF Txn, PatchTxn
    <3>3. txn' = [txn EXCEPT ![t] = x]
      BY <1>1, <1>6, <2>4 DEF PatchUpdate, TypeOK, PatchTxn
    <3>4. QED
      BY <1>6, <3>2, <3>3, TxnStepType DEF PatchUpdate
  <2>5. QED
    BY <2>3, <2>4
<1>7. CASE PatchReload(t)
  <2> DEFINE new == Target(Current(t), txn[t].user, txn[t].edit, txn[t].verdict)
             x == [txn[t] EXCEPT !.pc = "loaded", !.new = new]
  <2>1. new \in Row
    BY <1>1, <1>7, <1>a, CurrentType, TargetType DEF PatchReload
  <2> HIDE DEF new
  <2>2. x \in Txn
    BY <1>1, <2>1 DEF Txn, PatchTxn
  <2>3. txn' = [txn EXCEPT ![t] = x]
    BY <1>7 DEF PatchReload, new
  <2>4. QED
    BY <1>7, <2>2, <2>3, TxnStepType DEF PatchReload
<1>8. CASE PatchCommit(t)
  <2> DEFINE a == txn[t].asm
             r == txn[t].rule
             new == Merge(Current(t), txn[t].new, txn[t].cols)
             f == [recs[a] EXCEPT ![r] = new]
  <2>1. txn' \in [Reqs -> Txn]
    BY <1>8 DEF PatchCommit, Finish, TypeOK, Txn
  <2>2. f \in RowSets
    <3>1. recs[a] \in Partial(Rules, Row)
      BY <1>a, TablesArePartial DEF TypeOK
    <3>2. DOMAIN recs[a] \subseteq Rules /\ recs[a] \in [DOMAIN recs[a] -> Row]
      BY <3>1, PartialElim
    <3>3. r \in DOMAIN recs[a] => new \in Row
      BY <1>1, <1>a, CurrentType, MergeType DEF RowGone
    <3>4. f \in [DOMAIN recs[a] -> Row]
      <4> HIDE DEF new
      <4> QED BY <3>2, <3>3
    <3>5. QED
      BY <3>2, <3>4, PartialIntro, TablesArePartial
  <2>3. recs' \in [Assessments -> RowSets]
    <3>1. recs' = recs \/ recs' = [recs EXCEPT ![a] = f]
      BY <1>8 DEF PatchCommit
    <3>2. QED
      BY <1>a, <2>2, <3>1 DEF TypeOK
  <2>4. QED
    BY <1>8, <2>1, <2>3 DEF PatchCommit, TypeOK
<1>9. QED
  BY <1>2, <1>3, <1>4, <1>5, <1>6, <1>7, <1>8 DEF PatchStep

LEMMA NextType == TypeOK /\ [Next]_vars => TypeOK'
<1> SUFFICES ASSUME TypeOK, [Next]_vars PROVE TypeOK'
  OBVIOUS
<1>1. CASE UNCHANGED vars
  BY <1>1 DEF vars, data, TypeOK
<1>2. ASSUME NEW u \in Users, NEW o \in Orgs, NEW tp \in Templates, PublishTemplate(u, o, tp)
      PROVE  TypeOK'
  BY <1>2 DEF PublishTemplate, TypeOK
<1>3. ASSUME NEW u \in Users, NEW o \in Orgs, NEW tp \in Templates, NEW a \in Assessments,
             CreateFromTemplate(u, o, tp, a)
      PROVE  TypeOK'
  BY <1>3 DEF CreateFromTemplate, TypeOK, Status
<1>4. ASSUME NEW t \in Reqs, NEW u \in Users, NEW o \in Orgs, NEW a \in Assessments,
             Begin(t, u, o, a)
      PROVE  TypeOK'
  BY <1>4, SaveBeginType, CompleteBeginType, PatchBeginType DEF Begin
<1>5. ASSUME NEW t \in Reqs, Quiet(t)
      PROVE  TypeOK'
  BY <1>5, QuietMoves, TxnStepType
<1>6. ASSUME NEW t \in Reqs, SaveCommit(t) \/ CompleteCommit(t) \/ PatchStep(t)
      PROVE  TypeOK'
  BY <1>6, SaveCommitType, CompleteCommitType, PatchStepType
<1>7. QED
  BY <1>1, <1>2, <1>3, <1>4, <1>5, <1>6, StepKinds

\* Every variable keeps its type: rows stay rows, and a request in flight is
\* always one of the three kinds of transaction.
THEOREM TypeCorrect == Spec => []TypeOK
<1>1. Init => TypeOK
  BY InitType
<1>2. TypeOK /\ [Next]_vars => TypeOK'
  BY NextType
<1>3. QED
  BY <1>1, <1>2, PTL DEF Spec

-----------------------------------------------------------------------------
(* Completion is atomic. *)

LEMMA InitAtomic == Init => CompletionIsAtomic
BY EmptyType DEF Init, CompletionIsAtomic

\* A step that leaves the three columns and the set of recommendations alone.
LEMMA QuietStepAtomic ==
    ASSUME CompletionIsAtomic, UNCHANGED <<status, completions>>,
           \A a \in Assessments : DOMAIN recs'[a] = DOMAIN recs[a]
    PROVE  CompletionIsAtomic'
BY DEF CompletionIsAtomic

LEMMA CompleteCommitAtomic ==
    ASSUME TypeOK, CompletionIsAtomic, NEW t \in Reqs, CompleteCommit(t)
    PROVE  CompletionIsAtomic'
<1> DEFINE a == txn[t].asm
<1>1. a \in Assessments
  BY TxnKinds DEF CompleteCommit, TypeOK, CompleteTxn
<1>2. status' = [status EXCEPT ![a] = "completed"]
  BY DEF CompleteCommit
<1>3. completions' = [completions EXCEPT ![a] = @ + 1]
  BY DEF CompleteCommit
<1>4. \A b \in Assessments \ {a} : recs'[b] = recs[b]
  BY DEF CompleteCommit, TypeOK
<1>5. completions[a] \in Nat /\ status'[a] = "completed" /\ completions'[a] > 0
  BY <1>1, <1>2, <1>3 DEF TypeOK
<1>6. \A b \in Assessments \ {a} : status'[b] = status[b] /\ completions'[b] = completions[b]
  BY <1>2, <1>3 DEF TypeOK
<1>7. QED
  BY <1>4, <1>5, <1>6 DEF CompletionIsAtomic

\* A review updates one row in place.
LEMMA PatchCommitAtomic ==
    ASSUME TypeOK, CompletionIsAtomic, NEW t \in Reqs, PatchCommit(t)
    PROVE  CompletionIsAtomic'
<1>1. \A b \in Assessments : DOMAIN recs'[b] = DOMAIN recs[b]
  BY DEF PatchCommit, TypeOK
<1>2. QED
  BY <1>1, QuietStepAtomic DEF PatchCommit

LEMMA NextAtomic == TypeOK /\ CompletionIsAtomic /\ [Next]_vars => CompletionIsAtomic'
<1> SUFFICES ASSUME TypeOK, CompletionIsAtomic, [Next]_vars PROVE CompletionIsAtomic'
  OBVIOUS
<1>1. ASSUME UNCHANGED <<status, recs, completions>>
      PROVE  CompletionIsAtomic'
  BY <1>1, QuietStepAtomic
<1>2. CASE UNCHANGED vars
  BY <1>1, <1>2 DEF vars, data
<1>3. ASSUME NEW u \in Users, NEW o \in Orgs, NEW tp \in Templates, PublishTemplate(u, o, tp)
      PROVE  CompletionIsAtomic'
  BY <1>1, <1>3 DEF PublishTemplate
<1>4. ASSUME NEW u \in Users, NEW o \in Orgs, NEW tp \in Templates, NEW a \in Assessments,
             CreateFromTemplate(u, o, tp, a)
      PROVE  CompletionIsAtomic'
  BY <1>4 DEF CreateFromTemplate, CompletionIsAtomic, TypeOK
<1>5. ASSUME NEW t \in Reqs, NEW u \in Users, NEW o \in Orgs, NEW a \in Assessments,
             Begin(t, u, o, a)
      PROVE  CompletionIsAtomic'
  BY <1>1, <1>5 DEF Begin, SaveBegin, CompleteBegin, PatchBegin, data
<1>6. ASSUME NEW t \in Reqs, Quiet(t) \/ SaveCommit(t)
      PROVE  CompletionIsAtomic'
  BY <1>1, <1>6, QuietMoves DEF SaveCommit, data
<1>7. ASSUME NEW t \in Reqs, PatchStep(t)
      PROVE  CompletionIsAtomic'
  BY <1>1, <1>7, PatchCommitAtomic
     DEF PatchStep, PatchMiss, PatchSelect, PatchNoChange, PatchBlock, PatchUpdate,
         PatchReload, data
<1>8. QED
  BY <1>2, <1>3, <1>4, <1>5, <1>6, <1>7, CompleteCommitAtomic, StepKinds

\* However completions, saves and reviews of an assessment overlap, and
\* wherever they fail, its recommendations and its audit row are committed with
\* its status or not at all.
THEOREM CompletionAtomic == Spec => []CompletionIsAtomic
<1>1. Init => TypeOK /\ CompletionIsAtomic
  BY InitType, InitAtomic
<1>2. TypeOK /\ CompletionIsAtomic /\ [Next]_vars => TypeOK' /\ CompletionIsAtomic'
  BY NextType, NextAtomic
<1>3. QED
  BY <1>1, <1>2, PTL DEF Spec

-----------------------------------------------------------------------------
(* Provenance: only a completion changes the set of recommendations. *)

FrozenStep ==
    \A a \in Assessments :
        DOMAIN recs'[a] # DOMAIN recs[a] =>
            \E t \in Reqs : Completes(t, a) /\ Evaluate[txn[t].facts] \subseteq DOMAIN recs'[a]

LEMMA CompleteCommitFrozen ==
    ASSUME TypeOK, NEW t \in Reqs, CompleteCommit(t)
    PROVE  FrozenStep
<1> DEFINE a == txn[t].asm
           findings == [r \in Evaluate[txn[t].facts] |-> Draft]
<1>1. a \in Assessments /\ txn[t].facts \in Answers
  BY TxnKinds DEF CompleteCommit, TypeOK, CompleteTxn
<1>2. DOMAIN Replace(recs[a], txn[t].deleted, findings) =
          (DOMAIN recs[a] \ txn[t].deleted) \cup Evaluate[txn[t].facts]
  BY DEF Replace
<1>3. Evaluate[txn[t].facts] \subseteq DOMAIN recs'[a]
  BY <1>1, <1>2 DEF CompleteCommit, TypeOK
<1>4. Completes(t, a)
  <2>1. txn'[t] = Idle
    BY DEF CompleteCommit
  <2>2. completions'[a] = completions[a] + 1
    BY <1>1 DEF CompleteCommit, TypeOK
  <2>3. QED
    BY <2>1, <2>2 DEF Completes, On, CompleteCommit
<1>5. \A b \in Assessments \ {a} : recs'[b] = recs[b]
  BY DEF CompleteCommit, TypeOK
<1>6. QED
  BY <1>3, <1>4, <1>5 DEF FrozenStep

LEMMA PatchCommitFrozen ==
    ASSUME TypeOK, NEW t \in Reqs, PatchCommit(t)
    PROVE  FrozenStep
<1>1. \A b \in Assessments : DOMAIN recs'[b] = DOMAIN recs[b]
  BY DEF PatchCommit, TypeOK
<1>2. QED
  BY <1>1 DEF FrozenStep

LEMMA NextFrozen == TypeOK /\ [Next]_vars => FrozenStep \/ UNCHANGED vars
<1> SUFFICES ASSUME TypeOK, Next PROVE FrozenStep
  OBVIOUS
<1>1. ASSUME UNCHANGED recs
      PROVE  FrozenStep
  BY <1>1 DEF FrozenStep
<1>2. CASE UNCHANGED recs
  BY <1>1, <1>2
<1>3. ASSUME NEW t \in Reqs, Quiet(t) \/ SaveCommit(t)
      PROVE  FrozenStep
  BY <1>1, <1>3, QuietMoves DEF SaveCommit, data
<1>4. ASSUME NEW t \in Reqs, PatchStep(t)
      PROVE  FrozenStep
  BY <1>1, <1>4, PatchCommitFrozen
     DEF PatchStep, PatchMiss, PatchSelect, PatchNoChange, PatchBlock, PatchUpdate,
         PatchReload, data
<1>5. ASSUME NEW t \in Reqs, NEW u \in Users, NEW o \in Orgs, NEW a \in Assessments,
             Begin(t, u, o, a)
      PROVE  FrozenStep
  BY <1>1, <1>5 DEF Begin, SaveBegin, CompleteBegin, PatchBegin, data
<1>6. QED
  BY <1>1, <1>3, <1>4, <1>5, CompleteCommitFrozen, StepKinds
     DEF PublishTemplate, CreateFromTemplate, vars, data

\* Whatever overlaps, a recommendation appears or disappears only when a
\* completion commits, and that completion leaves all of its findings.
THEOREM ProvenanceFrozen == Spec => ProvenanceIsFrozen
<1>1. TypeOK /\ [Next]_vars => [FrozenStep]_vars
  BY NextFrozen
<1>2. QED
  BY <1>1, TypeCorrect, PTL DEF Spec, ProvenanceIsFrozen, FrozenStep

-----------------------------------------------------------------------------
(* Tenant isolation.  The permissions are checked when a request starts; the *)
(* invariant carries them to its commit.                                     *)

Permitted ==
    \A t \in Reqs :
        txn[t] # Idle =>
            NeededFor(txn[t]) \subseteq PermissionsIn(txn[t].user, OrgOf[txn[t].asm])

\* Until a request ends, its caller, its assessment and what it needs stay.
SameCaller(x, y) ==
    y # Idle => x # Idle /\ y.user = x.user /\ y.asm = x.asm /\ NeededFor(y) = NeededFor(x)

LEMMA SameCallerPermitted ==
    ASSUME Permitted, \A t \in Reqs : SameCaller(txn[t], txn'[t])
    PROVE  Permitted'
BY DEF Permitted, SameCaller

\* A step that moves one transaction on.
LEMMA MovePermitted ==
    ASSUME TypeOK, Permitted, NEW t \in Reqs, NEW x \in Txn,
           txn' = [txn EXCEPT ![t] = x], SameCaller(txn[t], x)
    PROVE  Permitted'
<1>1. \A u \in Reqs : SameCaller(txn[u], txn'[u])
  BY DEF SameCaller, TypeOK
<1>2. QED
  BY <1>1, SameCallerPermitted

LEMMA ContinuesCaller ==
    ASSUME NEW x \in Txn, NEW y, y = Idle \/ Continues(x, y)
    PROVE  SameCaller(x, y)
BY TxnKinds DEF SameCaller, Continues, Operations, Idle

LEMMA BeginPermitted ==
    ASSUME TypeOK, Permitted, NEW t \in Reqs, NEW u \in Users, NEW o \in Orgs,
           NEW a \in Assessments, Begin(t, u, o, a)
    PROVE  Permitted'
<1>1. ASSUME NEW x, txn' = [txn EXCEPT ![t] = x], x.user = u, x.asm = a,
             NeededFor(x) \subseteq PermissionsIn(u, OrgOf[a])
      PROVE  Permitted'
  BY <1>1 DEF Permitted, TypeOK
<1>2. ASSUME NEW payload \in Answers, NEW order, SaveBegin(t, u, o, a, payload, order)
      PROVE  Permitted'
  <2> DEFINE x == [op |-> "save", user |-> u, asm |-> a, payload |-> payload, order |-> order,
                   victims |-> DOMAIN responses[a], deleted |-> {}, inserted |-> {},
                   since |-> {}]
  <2>1. NeededFor(x) \subseteq PermissionsIn(u, OrgOf[a])
    BY <1>2 DEF SaveBegin, Authorized, HasPermission, NeededFor
  <2>2. x.user = u /\ x.asm = a
    OBVIOUS
  <2>3. txn' = [txn EXCEPT ![t] = x]
    BY <1>2 DEF SaveBegin
  <2> HIDE DEF x
  <2>4. QED
    BY <1>1, <2>1, <2>2, <2>3
<1>3. CASE CompleteBegin(t, u, o, a)
  <2> DEFINE x == [op |-> "complete", pc |-> "evaluated", user |-> u, asm |-> a,
                   facts |-> responses[a], victims |-> {}, deleted |-> {}, inserted |-> {},
                   since |-> {}]
  <2>1. NeededFor(x) \subseteq PermissionsIn(u, OrgOf[a])
    BY <1>3 DEF CompleteBegin, Authorized, HasPermission, NeededFor
  <2>2. x.user = u /\ x.asm = a
    OBVIOUS
  <2>3. txn' = [txn EXCEPT ![t] = x]
    BY <1>3 DEF CompleteBegin
  <2> HIDE DEF x
  <2>4. QED
    BY <1>1, <2>1, <2>2, <2>3
<1>4. ASSUME NEW r \in Rules, NEW edit \in Texts \cup {Keep}, NEW verdict \in Verdict \cup {Keep},
             PatchBegin(t, u, o, a, r, edit, verdict)
      PROVE  Permitted'
  <2> DEFINE x == [op |-> "patch", pc |-> "loaded", user |-> u, asm |-> a, rule |-> r,
                   edit |-> edit, verdict |-> verdict,
                   new |-> Target(recs[a][r], u, edit, verdict), cols |-> {}]
  <2>1. NeededFor(x) \subseteq PermissionsIn(u, OrgOf[a])
    BY <1>4 DEF PatchBegin, Authorized, HasPermission, NeededFor
  <2>2. x.user = u /\ x.asm = a
    OBVIOUS
  <2>3. txn' = [txn EXCEPT ![t] = x]
    BY <1>4 DEF PatchBegin
  <2> HIDE DEF x
  <2>4. QED
    BY <1>1, <2>1, <2>2, <2>3
<1>5. QED
  BY <1>2, <1>3, <1>4 DEF Begin

LEMMA FinishPermitted ==
    ASSUME TypeOK, Permitted, NEW t \in Reqs, Finish(t)
    PROVE  Permitted'
BY DEF Finish, Permitted, TypeOK

LEMMA QuietPermitted ==
    ASSUME TypeOK, Permitted, NEW t \in Reqs, Quiet(t)
    PROVE  Permitted'
<1>1. PICK y \in Txn : txn' = [txn EXCEPT ![t] = y] /\ (y = Idle \/ Continues(txn[t], y))
  BY QuietMoves
<1>2. SameCaller(txn[t], y)
  BY <1>1, ContinuesCaller DEF TypeOK
<1>3. QED
  BY <1>1, <1>2, MovePermitted

LEMMA CommitPermitted ==
    ASSUME TypeOK, Permitted, NEW t \in Reqs, NEW op, NEW a, NEW gone, NEW new,
           op = "save" => new \subseteq Keys, op = "complete" => new \subseteq Rules,
           txn' = [u \in Reqs |-> IF u = t THEN Idle ELSE AfterCommit(txn[u], op, a, gone, new)]
    PROVE  Permitted'
<1>1. \A u \in Reqs : txn'[u] = Idle \/ Continues(txn[u], txn'[u])
  BY AfterCommitMoves DEF TypeOK
<1>2. \A u \in Reqs : SameCaller(txn[u], txn'[u])
  BY <1>1, ContinuesCaller DEF TypeOK
<1>3. QED
  BY <1>2, SameCallerPermitted

LEMMA SaveCommitPermitted ==
    ASSUME TypeOK, Permitted, NEW t \in Reqs, SaveCommit(t)
    PROVE  Permitted'
<1>1. Content(txn[t]) \subseteq Keys /\ Content(txn[t]) = DOMAIN txn[t].payload
  BY ContentType DEF SaveCommit, TypeOK, Content
<1>2. QED
  BY <1>1, CommitPermitted DEF SaveCommit

LEMMA CompleteCommitPermitted ==
    ASSUME TypeOK, Permitted, NEW t \in Reqs, CompleteCommit(t)
    PROVE  Permitted'
<1>1. Evaluate[txn[t].facts] \subseteq Rules
  BY ContentType DEF CompleteCommit, TypeOK, Content
<1>2. PICK a, gone, new : /\ new \subseteq Rules
                         /\ txn' = [u \in Reqs |-> IF u = t THEN Idle
                                         ELSE AfterCommit(txn[u], "complete", a, gone, new)]
  BY <1>1 DEF CompleteCommit
<1>3. "complete" # "save"
  OBVIOUS
<1>4. \A u \in Reqs : txn'[u] = Idle \/ Continues(txn[u], txn'[u])
  BY <1>2, <1>3, AfterCommitMoves DEF TypeOK
<1>5. \A u \in Reqs : SameCaller(txn[u], txn'[u])
  BY <1>4, ContinuesCaller DEF TypeOK
<1>6. QED
  BY <1>5, SameCallerPermitted

\* While a patch runs, only its pc, edit, target and columns change.
LEMMA PatchMoves ==
    ASSUME TypeOK, Permitted, NEW t \in Reqs, NEW x \in PatchTxn, txn[t] \in PatchTxn,
           x.user = txn[t].user, x.asm = txn[t].asm, x.verdict = txn[t].verdict,
           txn' = [txn EXCEPT ![t] = x]
    PROVE  Permitted'
<1>1. SameCaller(txn[t], x) /\ x \in Txn
  BY DEF SameCaller, NeededFor, PatchTxn, Idle, Txn
<1>2. QED
  BY <1>1, MovePermitted

LEMMA PatchStepPermitted ==
    ASSUME TypeOK, Permitted, NEW t \in Reqs, PatchStep(t)
    PROVE  Permitted'
<1>1. txn[t] \in PatchTxn
  BY TxnKinds DEF TypeOK, PatchStep, PatchMiss, PatchSelect, PatchNoChange, PatchBlock,
                  PatchUpdate, PatchReload, PatchCommit, Patching
<1>2. CASE PatchMiss(t) \/ PatchCommit(t)
  BY <1>2, FinishPermitted DEF PatchMiss, PatchCommit
<1>3. ASSUME ~(PatchMiss(t) \/ PatchCommit(t))
      PROVE  /\ txn'[t].user = txn[t].user
             /\ txn'[t].asm = txn[t].asm
             /\ txn'[t].verdict = txn[t].verdict
             /\ txn' = [txn EXCEPT ![t] = txn'[t]]
             /\ txn'[t].op = "patch"
  BY <1>1, <1>3 DEF TypeOK, PatchTxn, PatchStep, PatchSelect, PatchNoChange, PatchBlock,
                    PatchUpdate, PatchReload
<1>4. CASE ~(PatchMiss(t) \/ PatchCommit(t))
  <2>1. txn'[t] \in Txn
    BY PatchStepType DEF TypeOK
  <2>2. txn'[t] \in PatchTxn
    BY <1>3, <1>4, <2>1, TxnKinds
  <2>3. QED
    BY <1>1, <1>3, <1>4, <2>2, PatchMoves
<1>5. QED
  BY <1>2, <1>4

LEMMA NextPermitted == TypeOK /\ Permitted /\ [Next]_vars => Permitted'
<1> SUFFICES ASSUME TypeOK, Permitted, [Next]_vars PROVE Permitted'
  OBVIOUS
<1>1. CASE UNCHANGED txn
  BY <1>1 DEF Permitted
<1>2. QED
  BY <1>1, BeginPermitted, QuietPermitted, SaveCommitPermitted, CompleteCommitPermitted,
     PatchStepPermitted, StepKinds
     DEF PublishTemplate, CreateFromTemplate, vars

\* The step that TenantIsolation allows.
IsolatedStep ==
    \A a \in Assessments :
        (recs'[a] # recs[a] \/ responses'[a] # responses[a] \/ completions'[a] # completions[a])
        => \E t \in Reqs :
              /\ txn[t] # Idle /\ txn'[t] = Idle /\ txn[t].asm = a
              /\ NeededFor(txn[t]) \subseteq PermissionsIn(txn[t].user, OrgOf[a])

\* A step of one permitted request that ends it and touches its assessment only.
LEMMA CommitIsolated ==
    ASSUME TypeOK, Permitted, NEW t \in Reqs, txn[t] # Idle, txn'[t] = Idle,
           \A b \in Assessments \ {txn[t].asm} :
               recs'[b] = recs[b] /\ responses'[b] = responses[b] /\ completions'[b] = completions[b]
    PROVE  IsolatedStep
BY DEF IsolatedStep, Permitted

LEMMA NextIsolated == TypeOK /\ Permitted /\ [Next]_vars => IsolatedStep
<1> SUFFICES ASSUME TypeOK, Permitted, [Next]_vars PROVE IsolatedStep
  OBVIOUS
<1>1. ASSUME UNCHANGED <<recs, responses, completions>>
      PROVE  IsolatedStep
  BY <1>1 DEF IsolatedStep
<1>2. ASSUME NEW t \in Reqs, SaveCommit(t)
      PROVE  IsolatedStep
  <2>1. txn[t] # Idle /\ txn'[t] = Idle
    BY <1>2 DEF SaveCommit, Idle
  <2>2. \A b \in Assessments \ {txn[t].asm} : responses'[b] = responses[b]
    BY <1>2 DEF SaveCommit, TypeOK
  <2>3. UNCHANGED <<recs, completions>>
    BY <1>2 DEF SaveCommit
  <2>4. QED
    BY <2>1, <2>2, <2>3, CommitIsolated
<1>3. ASSUME NEW t \in Reqs, CompleteCommit(t)
      PROVE  IsolatedStep
  <2>1. txn[t] # Idle /\ txn'[t] = Idle
    BY <1>3 DEF CompleteCommit, Idle
  <2>2. \A b \in Assessments \ {txn[t].asm} : recs'[b] = recs[b] /\ completions'[b] = completions[b]
    BY <1>3 DEF CompleteCommit, TypeOK
  <2>3. UNCHANGED responses
    BY <1>3 DEF CompleteCommit
  <2>4. QED
    BY <2>1, <2>2, <2>3, CommitIsolated
<1>4. ASSUME NEW t \in Reqs, PatchCommit(t)
      PROVE  IsolatedStep
  <2>1. txn[t] # Idle /\ txn'[t] = Idle
    BY <1>4 DEF PatchCommit, Patching, Finish, Idle, TypeOK
  <2>2. \A b \in Assessments \ {txn[t].asm} : recs'[b] = recs[b]
    BY <1>4 DEF PatchCommit, TypeOK
  <2>3. UNCHANGED <<responses, completions>>
    BY <1>4 DEF PatchCommit
  <2>4. QED
    BY <2>1, <2>2, <2>3, CommitIsolated
<1>5. CASE UNCHANGED vars
  BY <1>1, <1>5 DEF vars, data
<1>6. ASSUME NEW t \in Reqs, NEW u \in Users, NEW o \in Orgs, NEW a \in Assessments,
             Begin(t, u, o, a)
      PROVE  IsolatedStep
  BY <1>1, <1>6 DEF Begin, SaveBegin, CompleteBegin, PatchBegin, data
<1>7. ASSUME NEW t \in Reqs, Quiet(t)
      PROVE  IsolatedStep
  BY <1>1, <1>7, QuietMoves DEF data
<1>8. ASSUME NEW t \in Reqs, PatchStep(t)
      PROVE  IsolatedStep
  BY <1>1, <1>4, <1>8
     DEF PatchStep, PatchMiss, PatchSelect, PatchNoChange, PatchBlock, PatchUpdate,
         PatchReload, data
<1>9. QED
  BY <1>1, <1>2, <1>3, <1>5, <1>6, <1>7, <1>8, StepKinds DEF PublishTemplate, CreateFromTemplate

\* Whoever calls and whatever overlaps, an assessment changes only on behalf of
\* a caller who holds the needed permissions in the organization that owns it.
THEOREM TenantsIsolated == Spec => TenantIsolation
<1>1. Init => Permitted
  BY DEF Init, Permitted
<1>2. TypeOK /\ Permitted /\ [Next]_vars => Permitted'
  BY NextPermitted
<1>3. TypeOK /\ Permitted /\ [Next]_vars => [IsolatedStep]_vars
  BY NextIsolated
<1>4. QED
  BY <1>1, <1>2, <1>3, TypeCorrect, PTL DEF Spec, TenantIsolation, IsolatedStep

-----------------------------------------------------------------------------
(* What the steps of one request leave alone. *)

\* A request that moves on keeps its operation and assessment, or ends.
Stays(x, y) == y = Idle \/ (y.op = x.op /\ y.asm = x.asm)

LEMMA CommitStays ==
    ASSUME TypeOK, NEW t \in Reqs, SaveCommit(t) \/ CompleteCommit(t)
    PROVE  \A v \in Reqs : (v = t => txn'[v] = Idle) /\ Stays(txn[v], txn'[v])
<1>1. CASE SaveCommit(t)
  <2>1. Content(txn[t]) \subseteq Keys /\ Content(txn[t]) = DOMAIN txn[t].payload
    BY <1>1, ContentType DEF SaveCommit, TypeOK, Content
  <2>2. QED
    BY <1>1, <2>1, AfterCommitMoves DEF SaveCommit, TypeOK, Stays, Continues
<1>2. CASE CompleteCommit(t)
  <2>1. Content(txn[t]) \subseteq Rules /\ Content(txn[t]) = Evaluate[txn[t].facts]
    BY <1>2, ContentType DEF CompleteCommit, TypeOK, Content
  <2>2. QED
    BY <1>2, <2>1, AfterCommitMoves DEF CompleteCommit, TypeOK, Stays, Continues
<1>3. QED
  BY <1>1, <1>2

LEMMA QuietStays ==
    ASSUME TypeOK, NEW t \in Reqs, Quiet(t)
    PROVE  /\ UNCHANGED data
           /\ \A v \in Reqs : Stays(txn[v], txn'[v]) /\ (v # t => txn'[v] = txn[v])
BY QuietMoves DEF Stays, Continues, TypeOK

\* But for creations, only the commits of completions and reviews change the
\* status or the recommendations.
LEMMA OthersLeaveRows ==
    ASSUME TypeOK, [Next]_vars
    PROVE  \/ UNCHANGED <<status, recs>>
           \/ \E a \in Assessments :
                 /\ status[a] = "absent" /\ UNCHANGED recs
                 /\ status' = [status EXCEPT ![a] = "in_progress"]
           \/ \E t \in Reqs : CompleteCommit(t)
           \/ \E t \in Reqs : PatchCommit(t) /\ txn[t].cols # {} /\ UNCHANGED status
<1>1. ASSUME NEW t \in Reqs, Quiet(t) \/ SaveCommit(t)
      PROVE  UNCHANGED <<status, recs>>
  BY <1>1, QuietMoves DEF SaveCommit, data
<1>2. ASSUME NEW t \in Reqs, PatchStep(t)
      PROVE  \/ PatchCommit(t) /\ txn[t].cols # {} /\ UNCHANGED status
             \/ UNCHANGED <<status, recs>>
  <2>1. CASE PatchCommit(t)
    BY <2>1 DEF PatchCommit
  <2>2. CASE ~PatchCommit(t)
    BY <1>2, <2>2 DEF PatchStep, PatchMiss, PatchSelect, PatchNoChange, PatchBlock, PatchUpdate,
                      PatchReload, data
  <2>3. QED
    BY <2>1, <2>2
<1>3. ASSUME NEW t \in Reqs, NEW u \in Users, NEW o \in Orgs, NEW a \in Assessments,
             Begin(t, u, o, a)
      PROVE  UNCHANGED <<status, recs>>
  BY <1>3 DEF Begin, SaveBegin, CompleteBegin, PatchBegin, data
<1>4. QED
  BY <1>1, <1>2, <1>3, StepKinds DEF PublishTemplate, CreateFromTemplate, vars, data

\* The audit rows change only when a completion commits.
LEMMA OthersLeaveCompletions ==
    ASSUME TypeOK, [Next]_vars
    PROVE  completions' = completions \/ \E t \in Reqs : CompleteCommit(t)
<1>1. ASSUME NEW t \in Reqs, Quiet(t) \/ SaveCommit(t)
      PROVE  completions' = completions
  BY <1>1, QuietMoves DEF SaveCommit, data
<1>2. ASSUME NEW t \in Reqs, PatchStep(t)
      PROVE  completions' = completions
  BY <1>2 DEF PatchStep, PatchMiss, PatchSelect, PatchNoChange, PatchBlock, PatchUpdate,
              PatchReload, PatchCommit, data
<1>3. ASSUME NEW t \in Reqs, NEW u \in Users, NEW o \in Orgs, NEW a \in Assessments,
             Begin(t, u, o, a)
      PROVE  completions' = completions
  BY <1>3 DEF Begin, SaveBegin, CompleteBegin, PatchBegin, data
<1>4. QED
  BY <1>1, <1>2, <1>3, StepKinds DEF PublishTemplate, CreateFromTemplate, vars, data

\* A commit of another operation does not touch a patch that goes on.
LEMMA AfterCommitPatch ==
    ASSUME NEW x \in Txn, NEW op, op # "patch", NEW a, NEW gone, NEW new,
           AfterCommit(x, op, a, gone, new).op = "patch"
    PROVE  AfterCommit(x, op, a, gone, new) = x
<1> DEFINE y == [x EXCEPT !.victims = @ \ gone, !.since = (@ \ gone) \cup new]
<1>1. CASE x.op = op /\ x.asm = a /\ op \in {"save", "complete"}
  <2>1. x \in SaveTxn \/ x \in CompleteTxn
    BY <1>1, TxnKinds
  <2>2. y.op = op
    BY <1>1, <2>1 DEF SaveTxn, CompleteTxn
  <2>3. QED
    BY <1>1, <2>2 DEF AfterCommit
<1>2. CASE ~(x.op = op /\ x.asm = a /\ op \in {"save", "complete"})
  BY <1>2 DEF AfterCommit, Idle
<1>3. QED
  BY <1>1, <1>2

\* All steps but its own leave a patch that goes on alone.
LEMMA OthersLeavePatches ==
    ASSUME TypeOK, [Next]_vars, NEW v \in Reqs, ~PatchStep(v), txn'[v].op = "patch"
    PROVE  \/ txn'[v] = txn[v]
           \/ \E u \in Users, o \in Orgs, a \in Assessments, r \in Rules,
                 edit \in Texts \cup {Keep}, verdict \in Verdict \cup {Keep} :
                 PatchBegin(v, u, o, a, r, edit, verdict)
<1>1. ASSUME NEW t \in Reqs, NEW u \in Users, NEW o \in Orgs, NEW a \in Assessments,
             Begin(t, u, o, a)
      PROVE  \/ txn'[v] = txn[v]
             \/ \E r \in Rules, edit \in Texts \cup {Keep}, verdict \in Verdict \cup {Keep} :
                   PatchBegin(v, u, o, a, r, edit, verdict)
  <2>1. ASSUME NEW payload \in Answers, NEW order, SaveBegin(t, u, o, a, payload, order)
        PROVE  txn'[v] = txn[v]
    BY <2>1 DEF SaveBegin, TypeOK
  <2>2. ASSUME CompleteBegin(t, u, o, a)
        PROVE  txn'[v] = txn[v]
    BY <2>2 DEF CompleteBegin, TypeOK
  <2>3. ASSUME NEW r \in Rules, NEW edit \in Texts \cup {Keep}, NEW verdict \in Verdict \cup {Keep},
               PatchBegin(t, u, o, a, r, edit, verdict)
        PROVE  t = v \/ txn'[v] = txn[v]
    BY <2>3 DEF PatchBegin, TypeOK
  <2>4. QED
    BY <1>1, <2>1, <2>2, <2>3 DEF Begin
<1>2. ASSUME NEW t \in Reqs, Quiet(t)
      PROVE  txn'[v] = txn[v]
  <2>1. CASE WriteStep(t) \/ CompleteSelect(t) \/ CompleteSetStatus(t)
    <3>1. txn[t].op \in {"save", "complete"}
      BY <2>1 DEF WriteStep, DeleteRow, InsertRow, Clash, Inserting, Writing, CompleteSelect,
                  CompleteSetStatus
    <3>2. PICK y : txn' = [txn EXCEPT ![t] = y] /\ (y = Idle \/ y.op = txn[t].op)
      BY <1>2, QuietMoves DEF Continues
    <3>3. QED
      BY <3>1, <3>2 DEF TypeOK, Idle
  <2>2. CASE Abort(t) \/ DeadlockVictim(t)
    BY <2>2 DEF Abort, DeadlockVictim, Finish, TypeOK, Idle
  <2>3. QED
    BY <1>2, <2>1, <2>2 DEF Quiet
<1>3. ASSUME NEW t \in Reqs, SaveCommit(t) \/ CompleteCommit(t)
      PROVE  txn'[v] = txn[v]
  BY <1>3, AfterCommitPatch DEF SaveCommit, CompleteCommit, TypeOK, Idle
<1>4. ASSUME NEW t \in Reqs, PatchStep(t)
      PROVE  txn'[v] = txn[v]
  <2>1. t # v
    BY <1>4
  <2>2. QED
    BY <1>4, <2>1 DEF PatchStep, PatchMiss, PatchSelect, PatchNoChange, PatchBlock, PatchUpdate,
                      PatchReload, PatchCommit, Finish, TypeOK
<1>5. QED
  BY <1>1, <1>2, <1>3, <1>4, StepKinds DEF PublishTemplate, CreateFromTemplate, vars

-----------------------------------------------------------------------------
(* Review work is kept.  The invariant is that no request is about to write  *)
(* "draft": a review does not, and a completion that finds a row is not the  *)
(* first.                                                                    *)

\* The target of a patch is signed by its caller, and is no draft.
LEMMA TargetIsHonest ==
    ASSUME NEW row \in Row, NEW u, NEW edit, NEW verdict \in Verdict \cup {Keep}
    PROVE  Target(row, u, edit, verdict).by = u /\ Target(row, u, edit, verdict).status # "draft"
BY DEF Target, EditRound, Row, Verdict

ReviewsDecide == \A t \in Reqs : txn[t].op = "patch" => txn[t].new.status # "draft"

LEMMA PatchStepDecides ==
    ASSUME TypeOK, NEW t \in Reqs, PatchStep(t), txn[t].new.status # "draft",
           txn'[t].op = "patch"
    PROVE  txn'[t].new.status # "draft"
<1> DEFINE x == txn[t]
<1>1. x \in PatchTxn /\ x.op = "patch" /\ txn \in [Reqs -> Txn]
  BY TxnKinds DEF TypeOK, PatchStep, PatchMiss, PatchSelect, PatchNoChange, PatchBlock,
                  PatchUpdate, PatchReload, PatchCommit, Patching
<1>2. /\ x.new \in Row /\ x.verdict \in Verdict \cup {Keep} /\ x.edit \in Texts \cup {Keep}
  BY <1>1 DEF PatchTxn
<1>3. CASE PatchMiss(t) \/ PatchCommit(t)
  BY <1>1, <1>3 DEF PatchMiss, PatchCommit, Finish, Idle
<1>4. CASE PatchSelect(t) \/ PatchNoChange(t) \/ PatchBlock(t)
  <2>1. txn'[t].new = x.new
    BY <1>1, <1>4 DEF PatchSelect, PatchNoChange, PatchBlock, PatchTxn
  <2>2. QED
    BY <2>1
<1>5. CASE PatchUpdate(t)
  <2>1. CASE x.verdict = Keep
    BY <1>1, <1>5, <2>1 DEF PatchUpdate, PatchTxn
  <2>2. CASE x.verdict # Keep
    <3>1. txn'[t].new = [x.new EXCEPT !.status = x.verdict]
      BY <1>1, <1>5, <2>2 DEF PatchUpdate, PatchTxn
    <3>2. QED
      BY <1>2, <2>2, <3>1 DEF Row, Verdict
  <2>3. QED
    BY <2>1, <2>2
<1>6. CASE PatchReload(t)
  <2> DEFINE new == Target(Current(t), x.user, x.edit, x.verdict)
  <2>1. txn'[t] = [x EXCEPT !.pc = "loaded", !.new = new]
    BY <1>1, <1>6 DEF PatchReload
  <2>2. new.status # "draft"
    BY <1>1, <1>2, <1>6, CurrentType, TargetIsHonest DEF PatchReload
  <2> HIDE DEF new
  <2>3. txn'[t].new = new
    BY <1>1, <2>1 DEF PatchTxn
  <2>4. QED
    BY <2>2, <2>3
<1>7. QED
  BY <1>3, <1>4, <1>5, <1>6 DEF PatchStep

LEMMA PatchBeginDecides ==
    ASSUME TypeOK, NEW t \in Reqs, NEW u \in Users, NEW o \in Orgs, NEW a \in Assessments,
           NEW r \in Rules, NEW edit \in Texts \cup {Keep}, NEW verdict \in Verdict \cup {Keep},
           PatchBegin(t, u, o, a, r, edit, verdict)
    PROVE  txn'[t].new.status # "draft"
<1> DEFINE new == Target(recs[a][r], u, edit, verdict)
<1>1. recs[a][r] \in Row
  BY PartialElim, TablesArePartial DEF TypeOK, PatchBegin
<1>2. new.status # "draft"
  BY <1>1, TargetIsHonest
<1>3. txn'[t].new = new
  BY DEF PatchBegin, TypeOK
<1>4. QED
  BY <1>2, <1>3

LEMMA NextDecides == TypeOK /\ ReviewsDecide /\ [Next]_vars => ReviewsDecide'
<1> SUFFICES ASSUME TypeOK, ReviewsDecide, [Next]_vars, NEW v \in Reqs, txn'[v].op = "patch"
             PROVE  txn'[v].new.status # "draft"
  BY DEF ReviewsDecide
<1>1. CASE PatchStep(v)
  <2>1. txn[v].op = "patch"
    BY <1>1 DEF PatchStep, PatchMiss, PatchSelect, PatchNoChange, PatchBlock, PatchUpdate,
                PatchReload, PatchCommit, Patching
  <2>2. QED
    BY <1>1, <2>1, PatchStepDecides DEF ReviewsDecide
<1>2. CASE ~PatchStep(v)
  BY <1>2, OthersLeavePatches, PatchBeginDecides DEF ReviewsDecide
<1>3. QED
  BY <1>1, <1>2

\* The step that ReviewsAreKept allows.
KeptStep ==
    \A a \in Assessments : \A r \in DOMAIN recs[a] :
        recs[a][r].status # "draft" =>
            \/ r \in DOMAIN recs'[a] /\ recs'[a][r].status # "draft"
            \/ completions'[a] > 1 /\ completions'[a] # completions[a]

LEMMA NextKept ==
    ASSUME TypeOK, CompletionIsAtomic, ReviewsDecide, [Next]_vars
    PROVE  KeptStep
<1>1. CASE UNCHANGED recs
  BY <1>1 DEF KeptStep
<1>2. ASSUME NEW t \in Reqs, CompleteCommit(t)
      PROVE  KeptStep
  <2> DEFINE a == txn[t].asm
  <2>1. a \in Assessments
    BY <1>2, TxnKinds DEF CompleteCommit, TypeOK, CompleteTxn
  <2>2. completions[a] \in Nat /\ completions'[a] = completions[a] + 1
    BY <1>2, <2>1 DEF CompleteCommit, TypeOK
  <2>3. DOMAIN recs[a] # {} => completions[a] > 0
    BY <2>1 DEF CompletionIsAtomic
  <2>4. \A b \in Assessments \ {a} : recs'[b] = recs[b]
    BY <1>2 DEF CompleteCommit, TypeOK
  <2>5. QED
    BY <2>2, <2>3, <2>4 DEF KeptStep
<1>3. ASSUME NEW t \in Reqs, PatchCommit(t), txn[t].cols # {}
      PROVE  KeptStep
  <2> DEFINE a == txn[t].asm
             row == Merge(Current(t), txn[t].new, txn[t].cols)
  <2>1. txn[t] \in PatchTxn /\ txn[t].new.status # "draft"
    BY <1>3, TxnKinds DEF PatchCommit, Patching, TypeOK, ReviewsDecide
  <2>2. a \in Assessments
    BY <2>1 DEF PatchTxn
  <2>3. recs' = [recs EXCEPT ![a] = [recs[a] EXCEPT ![txn[t].rule] = row]]
    BY <1>3 DEF PatchCommit
  <2>4. recs[a][txn[t].rule].status # "draft" => row.status # "draft"
    BY <2>1 DEF Merge, Current
  <2> HIDE DEF row
  <2>5. recs'[a] = [recs[a] EXCEPT ![txn[t].rule] = row]
    BY <2>2, <2>3 DEF TypeOK
  <2>6. \A b \in Assessments \ {a} : recs'[b] = recs[b]
    BY <2>3 DEF TypeOK
  <2>7. QED
    BY <2>4, <2>5, <2>6 DEF KeptStep
<1>4. QED
  BY <1>1, <1>2, <1>3, OthersLeaveRows

\* However completions and reviews overlap, a recommendation that a consultant
\* has touched is lost only to a completion that is not the first.
THEOREM ReviewsKept == Spec => ReviewsAreKept
<1>1. Init => ReviewsDecide
  BY DEF Init, ReviewsDecide, Idle
<1>2. TypeOK /\ ReviewsDecide /\ [Next]_vars => ReviewsDecide'
  BY NextDecides
<1>3. TypeOK /\ CompletionIsAtomic /\ ReviewsDecide /\ [Next]_vars => [KeptStep]_vars
  BY NextKept
<1>4. QED
  BY <1>1, <1>2, <1>3, TypeCorrect, CompletionAtomic, PTL DEF Spec, ReviewsAreKept, KeptStep


-----------------------------------------------------------------------------
(* Newer rows survive.  The rows that a request has deleted or inserted are  *)
(* its own until it ends, so what others commit in the meantime is neither   *)
(* among them nor among those it has yet to delete.                          *)

Taken(x) == x.deleted \cup x.inserted

Replaces(x) == x.op \in {"save", "complete"}

Looked(x) == x.op = "save" \/ x.pc # "evaluated"

\* A request that replaces rows of a table that now holds `rows`.
Sound(x, rows) ==
    /\ ~Looked(x) => x.victims = {} /\ Taken(x) = {}
    /\ Looked(x) =>
          /\ x.victims \cup x.since \subseteq rows
          /\ x.inserted \cap (rows \ x.deleted) = {}
          /\ x.since \cap (x.victims \cup Taken(x)) = {}
    /\ x.op = "complete" /\ x.pc = "written" => Content(x) \subseteq x.inserted

Rivals(x, y) == Replaces(x) /\ y.op = x.op /\ y.asm = x.asm

RowsOf(op, a) == IF op = "save" THEN DOMAIN responses[a] ELSE DOMAIN recs[a]

WritersSound == \A u \in Reqs : Replaces(txn[u]) => Sound(txn[u], Stored(txn[u]))

WritersApart ==
    \A u, v \in Reqs : u # v /\ Rivals(txn[u], txn[v]) => Taken(txn[u]) \cap Taken(txn[v]) = {}

WritersInv == WritersSound /\ WritersApart

\* The keys of the tables stay.
SameRows ==
    \A a \in Assessments :
        DOMAIN responses'[a] = DOMAIN responses[a] /\ DOMAIN recs'[a] = DOMAIN recs[a]

\* One request moves, and keeps to the rules.
LEMMA MoveSound ==
    ASSUME TypeOK, WritersInv, SameRows, NEW t \in Reqs, NEW y \in Txn,
           txn' = [txn EXCEPT ![t] = y],
           Replaces(y) => Sound(y, RowsOf(y.op, y.asm)),
           \A u \in Reqs \ {t} : Rivals(y, txn[u]) => Taken(y) \cap Taken(txn[u]) = {}
    PROVE  WritersInv'
<1>1. \A u \in Reqs : txn'[u] = IF u = t THEN y ELSE txn[u]
  BY DEF TypeOK
<1>2. \A x \in Txn : Replaces(x) => x.asm \in Assessments
  BY TxnKinds DEF Replaces, SaveTxn, CompleteTxn
<1>3. ASSUME NEW u \in Reqs, Replaces(txn'[u])
      PROVE  Sound(txn'[u], Stored(txn[u])')
  <2>1. PICK z \in Txn : z = txn'[u]
    BY <1>1 DEF TypeOK
  <2>2. Stored(txn[u])' = RowsOf(z.op, z.asm)
    BY <1>2, <1>3, <2>1 DEF Stored, RowsOf, SameRows, Replaces
  <2>3. Sound(z, RowsOf(z.op, z.asm))
    BY <1>1, <1>3, <2>1 DEF WritersInv, WritersSound, Stored, RowsOf
  <2>4. QED
    BY <2>1, <2>2, <2>3
<1>4. WritersApart'
  <2>1. ASSUME NEW u \in Reqs, NEW v \in Reqs, u # v, Rivals(txn'[u], txn'[v])
        PROVE  Taken(txn'[u]) \cap Taken(txn'[v]) = {}
    BY <1>1, <2>1 DEF WritersInv, WritersApart, Rivals, Replaces
  <2>2. QED
    BY <2>1 DEF WritersApart
<1>5. WritersSound'
  BY <1>3 DEF WritersSound
<1>6. QED
  BY <1>4, <1>5 DEF WritersInv

\* A step that leaves no request that replaces rows in its place.
LEMMA OtherMoveSound ==
    ASSUME TypeOK, WritersInv, SameRows, NEW t \in Reqs, NEW y \in Txn,
           txn' = [txn EXCEPT ![t] = y], ~Replaces(y)
    PROVE  WritersInv'
BY MoveSound DEF Rivals

LEMMA DeleteRowSound ==
    ASSUME TypeOK, WritersInv, NEW t \in Reqs, DeleteRow(t)
    PROVE  WritersInv'
<1>1. PICK k \in txn[t].victims, y \in Txn :
          /\ txn' = [txn EXCEPT ![t] = y] /\ Continues(txn[t], y)
          /\ y = [txn[t] EXCEPT !.victims = @ \ {k}, !.deleted = @ \cup {k}]
          /\ ~Locked(t, Tuple(txn[t], k))
  BY DeleteRowMoves
<1>2. PICK x : x = txn[t]
  OBVIOUS
<1>3. x \in Txn /\ (x \in SaveTxn \/ x \in CompleteTxn) /\ Writing(x)
  BY <1>2, TxnKinds DEF TypeOK, DeleteRow, Writing
<1>4. Sound(x, RowsOf(x.op, x.asm)) /\ Looked(x)
  BY <1>2, <1>3 DEF WritersInv, WritersSound, Writing, Looked, Replaces, Stored, RowsOf
<1>5. Sound(y, RowsOf(y.op, y.asm))
  <2>1. /\ y.op = x.op /\ y.asm = x.asm /\ y.victims = x.victims \ {k}
        /\ y.deleted = x.deleted \cup {k} /\ y.inserted = x.inserted /\ y.since = x.since
        /\ y.op = "complete" => y.pc = "writing"
    BY <1>1, <1>2, <1>3 DEF SaveTxn, CompleteTxn, Writing
  <2>2. Looked(y)
    BY <2>1, <1>3 DEF Looked, Writing
  <2>3. QED
    BY <1>1, <1>2, <1>4, <2>1, <2>2 DEF Sound, Taken
<1>6. ASSUME NEW u \in Reqs \ {t}, Rivals(y, txn[u])
      PROVE  Taken(y) \cap Taken(txn[u]) = {}
  <2>1. Rivals(x, txn[u])
    BY <1>1, <1>2, <1>6 DEF Rivals, Replaces, Continues
  <2>2. Taken(x) \cap Taken(txn[u]) = {}
    BY <1>2, <2>1 DEF WritersInv, WritersApart
  <2>3. Taken(y) = Taken(x) \cup {k}
    BY <1>1, <1>2, <1>3 DEF Taken, SaveTxn, CompleteTxn
  <2>4. k \notin Taken(txn[u])
    <3>1. Tuple(x, k) = Tuple(txn[u], k)
      BY <2>1 DEF Rivals, Tuple
    <3>2. k \in Taken(txn[u]) => Tuple(txn[u], k) \in Held(txn[u])
      BY <2>1 DEF Held, Taken, Rivals, Replaces
    <3>3. QED
      BY <1>1, <1>2, <3>1, <3>2 DEF Locked
  <2>5. QED
    BY <2>2, <2>3, <2>4
<1>7. SameRows
  BY DEF SameRows, DeleteRow, data
<1>8. QED
  BY <1>1, <1>5, <1>6, <1>7, MoveSound

LEMMA InsertRowSound ==
    ASSUME TypeOK, WritersInv, NEW t \in Reqs, InsertRow(t)
    PROVE  WritersInv'
<1>1. PICK k \in Content(txn[t]), y \in Txn :
          /\ txn' = [txn EXCEPT ![t] = y] /\ Continues(txn[t], y)
          /\ y = [txn[t] EXCEPT !.inserted = @ \cup {k}]
          /\ txn[t].victims = {} /\ ~Clashes(t, k) /\ ~Locked(t, Tuple(txn[t], k))
  BY InsertRowMoves
<1>2. PICK x : x = txn[t]
  OBVIOUS
<1>3. x \in Txn /\ (x \in SaveTxn \/ x \in CompleteTxn) /\ Writing(x)
  BY <1>2, TxnKinds DEF TypeOK, InsertRow, Inserting, Writing
<1>4. Sound(x, RowsOf(x.op, x.asm)) /\ Looked(x)
  BY <1>2, <1>3 DEF WritersInv, WritersSound, Writing, Looked, Replaces, Stored, RowsOf
<1>5. Sound(y, RowsOf(y.op, y.asm))
  <2>1. /\ y.op = x.op /\ y.asm = x.asm /\ y.victims = x.victims
        /\ y.deleted = x.deleted /\ y.inserted = x.inserted \cup {k} /\ y.since = x.since
        /\ y.op = "complete" => y.pc = "writing"
    BY <1>1, <1>2, <1>3 DEF SaveTxn, CompleteTxn, Writing
  <2>2. Looked(y)
    BY <2>1, <1>3 DEF Looked, Writing
  <2>3. k \notin RowsOf(x.op, x.asm) \ x.deleted
    BY <1>1, <1>2 DEF Clashes, Stored, RowsOf
  <2>4. QED
    BY <1>4, <2>1, <2>2, <2>3 DEF Sound, Taken
<1>6. ASSUME NEW u \in Reqs \ {t}, Rivals(y, txn[u])
      PROVE  Taken(y) \cap Taken(txn[u]) = {}
  <2>1. Rivals(x, txn[u])
    BY <1>1, <1>2, <1>6 DEF Rivals, Replaces, Continues
  <2>2. Taken(x) \cap Taken(txn[u]) = {}
    BY <1>2, <2>1 DEF WritersInv, WritersApart
  <2>3. Taken(y) = Taken(x) \cup {k}
    BY <1>1, <1>2, <1>3 DEF Taken, SaveTxn, CompleteTxn
  <2>4. k \notin Taken(txn[u])
    <3>1. Tuple(x, k) = Tuple(txn[u], k)
      BY <2>1 DEF Rivals, Tuple
    <3>2. k \in Taken(txn[u]) => Tuple(txn[u], k) \in Held(txn[u])
      BY <2>1 DEF Held, Taken, Rivals, Replaces
    <3>3. QED
      BY <1>1, <1>2, <3>1, <3>2 DEF Locked
  <2>5. QED
    BY <2>2, <2>3, <2>4
<1>7. SameRows
  BY DEF SameRows, InsertRow, data
<1>8. QED
  BY <1>1, <1>5, <1>6, <1>7, MoveSound

LEMMA CompleteStepsSound ==
    ASSUME TypeOK, WritersInv, NEW t \in Reqs, CompleteSelect(t) \/ CompleteSetStatus(t)
    PROVE  WritersInv'
<1>1. PICK x : x = txn[t]
  OBVIOUS
<1>2. x \in CompleteTxn /\ x.op = "complete" /\ Sound(x, RowsOf("complete", x.asm))
  BY <1>1, TxnKinds DEF TypeOK, WritersInv, WritersSound, Replaces, Stored, RowsOf,
                        CompleteSelect, CompleteSetStatus
<1>3. PICK y \in Txn : /\ txn' = [txn EXCEPT ![t] = y] /\ Continues(x, y)
                       /\ Taken(y) = Taken(x) /\ Sound(y, RowsOf("complete", y.asm))
  <2>1. CASE CompleteSelect(t)
    <3>1. PICK y \in Txn :
              /\ txn' = [txn EXCEPT ![t] = y] /\ Continues(x, y)
              /\ y = [x EXCEPT !.pc = "writing", !.victims = DOMAIN recs[x.asm], !.since = {}]
      BY <1>1, <2>1, CompleteSelectMoves
    <3>2. /\ y.op = "complete" /\ y.asm = x.asm /\ y.pc = "writing" /\ y.since = {}
          /\ y.victims = DOMAIN recs[x.asm] /\ y.deleted = x.deleted /\ y.inserted = x.inserted
      BY <1>2, <3>1 DEF CompleteTxn
    <3>3. x.pc = "evaluated" /\ Taken(x) = {}
      BY <1>1, <1>2, <2>1 DEF Sound, Looked, CompleteSelect
    <3>4. Sound(y, RowsOf("complete", y.asm)) /\ Taken(y) = Taken(x)
      BY <3>2, <3>3 DEF Sound, Looked, Taken, RowsOf
    <3>5. QED
      BY <3>1, <3>4
  <2>2. CASE CompleteSetStatus(t)
    <3>1. PICK y \in Txn :
              /\ txn' = [txn EXCEPT ![t] = y] /\ Continues(x, y)
              /\ y = [x EXCEPT !.pc = "written"]
      BY <1>1, <2>2, CompleteSetStatusMoves
    <3>2. /\ y.op = "complete" /\ y.asm = x.asm /\ y.pc = "written" /\ y.since = x.since
          /\ y.victims = x.victims /\ y.deleted = x.deleted /\ y.inserted = x.inserted
          /\ Content(y) = Content(x)
      BY <1>2, <3>1 DEF CompleteTxn, Content
    <3>3. x.pc = "writing" /\ Content(x) \subseteq x.inserted
      BY <1>1, <1>2, <2>2 DEF CompleteSetStatus, Written, Writing, Todo
    <3>4. Sound(y, RowsOf("complete", y.asm)) /\ Taken(y) = Taken(x)
      BY <1>2, <3>2, <3>3 DEF Sound, Looked, Taken
    <3>5. QED
      BY <3>1, <3>4
  <2>3. QED
    BY <2>1, <2>2
<1>4. ASSUME NEW u \in Reqs \ {t}, Rivals(y, txn[u])
      PROVE  Taken(y) \cap Taken(txn[u]) = {}
  <2>1. Rivals(x, txn[u])
    BY <1>3, <1>4 DEF Rivals, Replaces, Continues
  <2>2. QED
    BY <1>1, <1>3, <2>1 DEF WritersInv, WritersApart
<1>5. SameRows
  BY DEF SameRows, CompleteSelect, CompleteSetStatus, data
<1>6. Replaces(y) => Sound(y, RowsOf(y.op, y.asm))
  BY <1>2, <1>3 DEF Continues
<1>7. QED
  BY <1>3, <1>4, <1>5, <1>6, MoveSound

\* When x commits, a rival y keeps to the rules.
LEMMA RivalSound ==
    ASSUME NEW x \in Txn, NEW y \in Txn, NEW rows, Rivals(x, y), Looked(x),
           Sound(x, rows), Sound(y, rows), Taken(x) \cap Taken(y) = {},
           Content(x) \subseteq x.inserted
    PROVE  LET z == AfterCommit(y, x.op, x.asm, x.deleted, Content(x))
           IN  /\ z.op = y.op /\ z.asm = y.asm /\ Taken(z) = Taken(y)
               /\ Sound(z, (rows \ x.deleted) \cup Content(x))
<1> DEFINE new == Content(x)
           z == [y EXCEPT !.victims = @ \ x.deleted, !.since = (@ \ x.deleted) \cup new]
<1>1. AfterCommit(y, x.op, x.asm, x.deleted, new) = z
  BY DEF AfterCommit, Rivals, Replaces
<1>2. y \in SaveTxn \/ y \in CompleteTxn
  BY TxnKinds DEF Rivals, Replaces
<1> HIDE DEF new
<1>3. /\ z.op = y.op /\ z.asm = y.asm /\ z.deleted = y.deleted /\ z.inserted = y.inserted
      /\ z.victims = y.victims \ x.deleted /\ z.since = (y.since \ x.deleted) \cup new
      /\ y.op = "complete" => z.pc = y.pc
      /\ Content(z) = Content(y)
  BY <1>2 DEF SaveTxn, CompleteTxn, Content
<1>4. new \subseteq x.inserted /\ x.inserted \cap (rows \ x.deleted) = {}
  BY DEF Sound, new
<1>5. new \cap Taken(y) = {}
  BY <1>4 DEF Taken
<1>6. Looked(z) <=> Looked(y)
  BY <1>3 DEF Looked, Rivals, Replaces
<1>7. Taken(z) = Taken(y)
  BY <1>3 DEF Taken
<1> HIDE DEF z
<1>8. CASE Looked(y)
  <2>1. /\ y.victims \cup y.since \subseteq rows
        /\ y.inserted \cap (rows \ y.deleted) = {}
        /\ y.since \cap (y.victims \cup Taken(y)) = {}
    BY <1>8 DEF Sound
  <2>2. z.victims \cup z.since \subseteq (rows \ x.deleted) \cup new
    BY <1>3, <2>1
  <2>3. z.inserted \cap (((rows \ x.deleted) \cup new) \ z.deleted) = {}
    BY <1>3, <1>5, <2>1 DEF Taken
  <2>4. z.since \cap (z.victims \cup Taken(z)) = {}
    BY <1>3, <1>4, <1>5, <1>7, <2>1
  <2>5. x.op = "complete" /\ z.pc = "written" => Content(z) \subseteq z.inserted
    BY <1>3 DEF Sound, Rivals
  <2>6. QED
    BY <1>1, <1>3, <1>6, <1>7, <1>8, <2>2, <2>3, <2>4, <2>5 DEF Sound, Rivals, new
<1>9. CASE ~Looked(y)
  BY <1>1, <1>3, <1>6, <1>7, <1>9 DEF Sound, Looked, Rivals, Replaces, new
<1>10. QED
  BY <1>8, <1>9

\* The commit of a request that has replaced its rows.
LEMMA CommitSound ==
    ASSUME TypeOK, WritersInv, NEW t \in Reqs, NEW x \in Txn, x = txn[t],
           Replaces(x), Looked(x), Content(x) \subseteq x.inserted,
           \A u \in Reqs : txn'[u] = IF u = t THEN Idle ELSE
                              AfterCommit(txn[u], x.op, x.asm, x.deleted, Content(x)),
           \A op \in {"save", "complete"}, a \in Assessments :
              RowsOf(op, a)' = IF op = x.op /\ a = x.asm
                                   THEN (RowsOf(op, a) \ x.deleted) \cup Content(x)
                                   ELSE RowsOf(op, a)
    PROVE  WritersInv'
<1>1. Sound(x, RowsOf(x.op, x.asm))
  BY DEF WritersInv, WritersSound, Stored, RowsOf
<1>2. ASSUME NEW u \in Reqs, Replaces(txn'[u])
      PROVE  /\ Replaces(txn[u]) /\ u # t
             /\ txn'[u].op = txn[u].op /\ txn'[u].asm = txn[u].asm
             /\ Taken(txn'[u]) = Taken(txn[u])
             /\ Sound(txn'[u], RowsOf(txn[u].op, txn[u].asm)')
  <2>1. u # t
    BY <1>2 DEF Idle, Replaces
  <2>2. PICK y \in Txn : y = txn[u]
    BY DEF TypeOK
  <2>3. PICK z : z = txn'[u]
    OBVIOUS
  <2>4. z = AfterCommit(y, x.op, x.asm, x.deleted, Content(x)) /\ Replaces(z)
    BY <1>2, <2>1, <2>2, <2>3
  <2>5. CASE Rivals(x, y)
    <3>1. Sound(y, RowsOf(x.op, x.asm))
      BY <2>2, <2>5 DEF WritersInv, WritersSound, Rivals, Replaces, Stored, RowsOf
    <3>2. Taken(x) \cap Taken(y) = {}
      BY <2>1, <2>2, <2>5 DEF WritersInv, WritersApart
    <3>3. /\ z.op = y.op /\ z.asm = y.asm /\ Taken(z) = Taken(y)
          /\ Sound(z, (RowsOf(x.op, x.asm) \ x.deleted) \cup Content(x))
      BY <1>1, <2>4, <2>5, <3>1, <3>2, RivalSound
    <3>4. x.asm \in Assessments /\ x.op \in {"save", "complete"}
      BY TxnKinds DEF Replaces, SaveTxn, CompleteTxn
    <3>5. RowsOf(y.op, y.asm)' = (RowsOf(x.op, x.asm) \ x.deleted) \cup Content(x)
      BY <2>5, <3>4 DEF Rivals
    <3>6. QED
      BY <2>1, <2>2, <2>3, <2>5, <3>3, <3>5 DEF Rivals, Replaces
  <2>6. CASE ~Rivals(x, y)
    <3>1. z = y
      BY <2>4, <2>6 DEF AfterCommit, Rivals, Replaces, Idle
    <3>2. y.asm \in Assessments /\ y.op \in {"save", "complete"}
      BY <2>4, <3>1, TxnKinds DEF Replaces, SaveTxn, CompleteTxn
    <3>3. RowsOf(y.op, y.asm)' = RowsOf(y.op, y.asm)
      BY <2>6, <3>2 DEF Rivals
    <3>4. Sound(y, RowsOf(y.op, y.asm))
      BY <2>2, <3>2 DEF WritersInv, WritersSound, Replaces, Stored, RowsOf
    <3>5. QED
      BY <2>1, <2>2, <2>3, <2>4, <3>1, <3>3, <3>4
  <2>7. QED
    BY <2>5, <2>6
<1>3. WritersSound'
  <2>1. ASSUME NEW u \in Reqs, Replaces(txn'[u])
        PROVE  Sound(txn'[u], Stored(txn[u])')
    <3>1. Stored(txn[u])' = RowsOf(txn[u].op, txn[u].asm)'
      BY <1>2, <2>1 DEF Stored, RowsOf
    <3>2. QED
      BY <1>2, <2>1, <3>1
  <2>2. QED
    BY <2>1 DEF WritersSound
<1>4. WritersApart'
  <2>1. ASSUME NEW u \in Reqs, NEW v \in Reqs, u # v, Rivals(txn'[u], txn'[v])
        PROVE  Taken(txn'[u]) \cap Taken(txn'[v]) = {}
    <3>1. Replaces(txn'[u]) /\ Replaces(txn'[v])
      BY <2>1 DEF Rivals, Replaces
    <3>2. Rivals(txn[u], txn[v])
      BY <1>2, <2>1, <3>1 DEF Rivals
    <3>3. QED
      BY <1>2, <2>1, <3>1, <3>2 DEF WritersInv, WritersApart
  <2>2. QED
    BY <2>1 DEF WritersApart
<1>5. QED
  BY <1>3, <1>4 DEF WritersInv

\* A request that commits has looked, and has inserted all of its rows.
LEMMA ReadyToCommit ==
    ASSUME TypeOK, WritersInv, NEW t \in Reqs, SaveCommit(t) \/ CompleteCommit(t)
    PROVE  /\ txn[t] \in Txn /\ Replaces(txn[t]) /\ Looked(txn[t])
           /\ txn[t].asm \in Assessments
           /\ Content(txn[t]) \subseteq txn[t].inserted
           /\ Sound(txn[t], RowsOf(txn[t].op, txn[t].asm))
<1>1. txn[t] \in Txn /\ Replaces(txn[t])
  BY DEF TypeOK, Replaces, SaveCommit, CompleteCommit
<1>2. txn[t].asm \in Assessments
  BY <1>1, TxnKinds DEF Replaces, SaveTxn, CompleteTxn
<1>3. Sound(txn[t], RowsOf(txn[t].op, txn[t].asm))
  BY <1>1 DEF WritersInv, WritersSound, Stored, RowsOf
<1>4. CASE SaveCommit(t)
  BY <1>1, <1>2, <1>3, <1>4 DEF SaveCommit, Written, Todo, Looked
<1>5. CASE CompleteCommit(t)
  BY <1>1, <1>2, <1>3, <1>5 DEF CompleteCommit, Sound, Looked
<1>6. QED
  BY <1>4, <1>5

LEMMA SaveCommitSound ==
    ASSUME TypeOK, WritersInv, NEW t \in Reqs, SaveCommit(t)
    PROVE  WritersInv'
<1>1. PICK x \in Txn : x = txn[t] /\ x.op = "save" /\ Looked(x) /\ Replaces(x)
                       /\ x.asm \in Assessments /\ Content(x) \subseteq x.inserted
                       /\ Content(x) = DOMAIN x.payload
  BY ReadyToCommit DEF SaveCommit, Content
<1>2. \A u \in Reqs : txn'[u] = IF u = t THEN Idle ELSE
                         AfterCommit(txn[u], x.op, x.asm, x.deleted, Content(x))
  BY <1>1 DEF SaveCommit
<1>3. /\ responses' = [responses EXCEPT ![x.asm] = Replace(@, x.deleted, x.payload)]
      /\ recs' = recs
  BY <1>1 DEF SaveCommit
<1>4. /\ \A a \in Assessments \ {x.asm} : responses'[a] = responses[a]
      /\ DOMAIN responses'[x.asm] = (DOMAIN responses[x.asm] \ x.deleted) \cup Content(x)
  BY <1>1, <1>3 DEF TypeOK, Replace
<1>5. \A op \in {"save", "complete"}, a \in Assessments :
          RowsOf(op, a)' = IF op = x.op /\ a = x.asm
                               THEN (RowsOf(op, a) \ x.deleted) \cup Content(x)
                               ELSE RowsOf(op, a)
  BY <1>1, <1>3, <1>4 DEF RowsOf
<1>6. QED
  BY <1>1, <1>2, <1>5, CommitSound

LEMMA CompleteCommitSound ==
    ASSUME TypeOK, WritersInv, NEW t \in Reqs, CompleteCommit(t)
    PROVE  WritersInv'
<1>1. PICK x \in Txn : x = txn[t] /\ x.op = "complete" /\ Looked(x) /\ Replaces(x)
                       /\ x.asm \in Assessments /\ Content(x) \subseteq x.inserted
                       /\ Content(x) = Evaluate[x.facts]
  BY ReadyToCommit DEF CompleteCommit, Content
<1>2. \A u \in Reqs : txn'[u] = IF u = t THEN Idle ELSE
                         AfterCommit(txn[u], x.op, x.asm, x.deleted, Content(x))
  BY <1>1 DEF CompleteCommit
<1>3. /\ responses' = responses
      /\ recs' = [recs EXCEPT ![x.asm] =
                     Replace(@, x.deleted, [r \in Evaluate[x.facts] |-> Draft])]
  BY <1>1 DEF CompleteCommit
<1>4. /\ \A a \in Assessments \ {x.asm} : recs'[a] = recs[a]
      /\ DOMAIN recs'[x.asm] = (DOMAIN recs[x.asm] \ x.deleted) \cup Content(x)
  BY <1>1, <1>3 DEF TypeOK, Replace
<1>5. \A op \in {"save", "complete"}, a \in Assessments :
          RowsOf(op, a)' = IF op = x.op /\ a = x.asm
                               THEN (RowsOf(op, a) \ x.deleted) \cup Content(x)
                               ELSE RowsOf(op, a)
  BY <1>1, <1>3, <1>4 DEF RowsOf
<1>6. QED
  BY <1>1, <1>2, <1>5, CommitSound

LEMMA BeginSound ==
    ASSUME TypeOK, WritersInv, NEW t \in Reqs, NEW u \in Users, NEW o \in Orgs,
           NEW a \in Assessments, Begin(t, u, o, a)
    PROVE  WritersInv'
<1>1. TypeOK'
  BY SaveBeginType, CompleteBeginType, PatchBeginType DEF Begin
<1>2. PICK y : /\ txn' = [txn EXCEPT ![t] = y] /\ UNCHANGED <<responses, recs>>
               /\ Replaces(y) => Taken(y) = {} /\ Sound(y, RowsOf(y.op, y.asm))
  <2>1. ASSUME NEW payload \in Answers, NEW order, SaveBegin(t, u, o, a, payload, order)
        PROVE  \E y : /\ txn' = [txn EXCEPT ![t] = y] /\ UNCHANGED <<responses, recs>>
                      /\ Replaces(y) => Taken(y) = {} /\ Sound(y, RowsOf(y.op, y.asm))
    <3> DEFINE y == [op |-> "save", user |-> u, asm |-> a, payload |-> payload,
                     order |-> order, victims |-> DOMAIN responses[a], deleted |-> {},
                     inserted |-> {}, since |-> {}]
    <3>1. txn' = [txn EXCEPT ![t] = y] /\ UNCHANGED <<responses, recs>>
      BY <2>1 DEF SaveBegin, data
    <3>2. Taken(y) = {} /\ Sound(y, RowsOf(y.op, y.asm))
      BY DEF Taken, Sound, Looked, RowsOf
    <3>3. QED
      BY <3>1, <3>2
  <2>2. ASSUME CompleteBegin(t, u, o, a)
        PROVE  \E y : /\ txn' = [txn EXCEPT ![t] = y] /\ UNCHANGED <<responses, recs>>
                      /\ Replaces(y) => Taken(y) = {} /\ Sound(y, RowsOf(y.op, y.asm))
    <3> DEFINE y == [op |-> "complete", pc |-> "evaluated", user |-> u, asm |-> a,
                     facts |-> responses[a], victims |-> {}, deleted |-> {},
                     inserted |-> {}, since |-> {}]
    <3>1. txn' = [txn EXCEPT ![t] = y] /\ UNCHANGED <<responses, recs>>
      BY <2>2 DEF CompleteBegin
    <3>2. Taken(y) = {} /\ Sound(y, RowsOf(y.op, y.asm))
      BY DEF Taken, Sound, Looked
    <3>3. QED
      BY <3>1, <3>2
  <2>3. ASSUME NEW r \in Rules, NEW edit, NEW verdict, PatchBegin(t, u, o, a, r, edit, verdict)
        PROVE  \E y : txn' = [txn EXCEPT ![t] = y] /\ UNCHANGED <<responses, recs>> /\ ~Replaces(y)
    <3> DEFINE y == [op |-> "patch", pc |-> "loaded", user |-> u, asm |-> a, rule |-> r,
                     edit |-> edit, verdict |-> verdict,
                     new |-> Target(recs[a][r], u, edit, verdict), cols |-> {}]
    <3>1. txn' = [txn EXCEPT ![t] = y] /\ UNCHANGED <<responses, recs>>
      BY <2>3 DEF PatchBegin, data
    <3>2. ~Replaces(y)
      BY DEF Replaces
    <3>3. QED
      BY <3>1, <3>2
  <2>4. QED
    BY <2>1, <2>2, <2>3 DEF Begin
<1>4. SameRows
  BY <1>2 DEF SameRows
<1>3. y \in Txn
  BY <1>1, <1>2 DEF TypeOK
<1>5. QED
  BY <1>2, <1>3, <1>4, MoveSound DEF Rivals

LEMMA PatchStepSound ==
    ASSUME TypeOK, WritersInv, NEW t \in Reqs, PatchStep(t)
    PROVE  WritersInv'
<1>1. SameRows
  <2>1. CASE PatchCommit(t)
    BY <2>1 DEF PatchCommit, SameRows, TypeOK
  <2>2. CASE ~PatchCommit(t)
    BY <2>2 DEF PatchStep, PatchMiss, PatchSelect, PatchNoChange, PatchBlock, PatchUpdate,
                PatchReload, data, SameRows
  <2>3. QED
    BY <2>1, <2>2
<1>2. PICK y : txn' = [txn EXCEPT ![t] = y] /\ ~Replaces(y)
  <2>1. CASE PatchMiss(t) \/ PatchCommit(t)
    <3>1. txn' = [txn EXCEPT ![t] = Idle]
      BY <2>1 DEF PatchMiss, PatchCommit, Finish
    <3>2. ~Replaces(Idle)
      BY DEF Idle, Replaces
    <3>3. QED
      BY <3>1, <3>2
  <2>2. CASE ~(PatchMiss(t) \/ PatchCommit(t))
    <3>1. txn[t] \in PatchTxn /\ txn[t].op = "patch"
      BY <2>2, TxnKinds DEF TypeOK, PatchStep, PatchSelect, PatchNoChange, PatchBlock,
                            PatchUpdate, PatchReload, Patching
    <3>2. txn'[t].op = "patch" /\ txn' = [txn EXCEPT ![t] = txn'[t]]
      BY <2>2, <3>1 DEF TypeOK, PatchTxn, PatchStep, PatchSelect, PatchNoChange, PatchBlock,
                        PatchUpdate, PatchReload
    <3>3. QED
      BY <3>2 DEF Replaces
  <2>3. QED
    BY <2>1, <2>2
<1>3. y \in Txn
  BY <1>2, PatchStepType DEF TypeOK
<1>4. QED
  BY <1>1, <1>2, <1>3, OtherMoveSound

LEMMA QuietSound ==
    ASSUME TypeOK, WritersInv, NEW t \in Reqs, Quiet(t)
    PROVE  WritersInv'
<1>1. ASSUME Finish(t), UNCHANGED data
      PROVE  WritersInv'
  <2>1. SameRows /\ Idle \in Txn /\ ~Replaces(Idle)
    BY <1>1 DEF SameRows, data, Txn, Idle, Replaces
  <2>2. QED
    BY <1>1, <2>1, OtherMoveSound DEF Finish
<1>2. QED
  BY <1>1, DeleteRowSound, InsertRowSound, CompleteStepsSound
     DEF Quiet, WriteStep, Clash, Abort, DeadlockVictim

LEMMA NextSound == TypeOK /\ WritersInv /\ [Next]_vars => WritersInv'
<1> SUFFICES ASSUME TypeOK, WritersInv, [Next]_vars PROVE WritersInv'
  OBVIOUS
<1>1. ASSUME UNCHANGED <<responses, recs, txn>>
      PROVE  WritersInv'
  BY <1>1 DEF WritersInv, WritersSound, WritersApart, Stored
<1>2. CASE UNCHANGED vars
  BY <1>1, <1>2 DEF vars, data
<1>3. ASSUME NEW u \in Users, NEW o \in Orgs, NEW tp \in Templates, PublishTemplate(u, o, tp)
      PROVE  WritersInv'
  BY <1>1, <1>3 DEF PublishTemplate
<1>4. ASSUME NEW u \in Users, NEW o \in Orgs, NEW tp \in Templates, NEW a \in Assessments,
             CreateFromTemplate(u, o, tp, a)
      PROVE  WritersInv'
  BY <1>1, <1>4 DEF CreateFromTemplate
<1>5. QED
  BY <1>2, <1>3, <1>4, StepKinds, BeginSound, QuietSound, SaveCommitSound,
     CompleteCommitSound, PatchStepSound

\* The step that NewerRowsSurvive allows.
NewerStep ==
    \A t \in Reqs :
        LET x == txn[t] IN
        /\ SaveCommit(t) => \A k \in x.since :
              k \in DOMAIN responses'[x.asm] /\ responses'[x.asm][k] = responses[x.asm][k]
        /\ CompleteCommit(t) => \A r \in x.since :
              r \in DOMAIN recs'[x.asm] /\ recs'[x.asm][r] = recs[x.asm][r]

LEMMA NextNewer ==
    ASSUME TypeOK, WritersInv, [Next]_vars
    PROVE  NewerStep
<1>1. ASSUME NEW t \in Reqs, SaveCommit(t), NEW k \in txn[t].since
      PROVE  /\ k \in DOMAIN responses'[txn[t].asm]
             /\ responses'[txn[t].asm][k] = responses[txn[t].asm][k]
  <2>1. PICK x : x = txn[t]
    OBVIOUS
  <2>2. /\ x.asm \in Assessments /\ DOMAIN x.payload \subseteq x.inserted
        /\ Sound(x, DOMAIN responses[x.asm]) /\ Looked(x)
    BY <1>1, <2>1, ReadyToCommit DEF SaveCommit, RowsOf, Content
  <2>3. k \in DOMAIN responses[x.asm] \ x.deleted /\ k \notin DOMAIN x.payload
    BY <1>1, <2>1, <2>2 DEF Sound, Taken
  <2>4. responses'[x.asm] = Replace(responses[x.asm], x.deleted, x.payload)
    BY <1>1, <2>1, <2>2 DEF SaveCommit, TypeOK
  <2>5. QED
    BY <2>1, <2>3, <2>4 DEF Replace
<1>2. ASSUME NEW t \in Reqs, CompleteCommit(t), NEW r \in txn[t].since
      PROVE  /\ r \in DOMAIN recs'[txn[t].asm]
             /\ recs'[txn[t].asm][r] = recs[txn[t].asm][r]
  <2>1. PICK x : x = txn[t]
    OBVIOUS
  <2>2. /\ x.asm \in Assessments /\ Evaluate[x.facts] \subseteq x.inserted
        /\ Sound(x, DOMAIN recs[x.asm]) /\ Looked(x)
    BY <1>2, <2>1, ReadyToCommit DEF CompleteCommit, RowsOf, Content
  <2>3. r \in DOMAIN recs[x.asm] \ x.deleted /\ r \notin Evaluate[x.facts]
    BY <1>2, <2>1, <2>2 DEF Sound, Taken
  <2>4. recs'[x.asm] =
            Replace(recs[x.asm], x.deleted, [s \in Evaluate[x.facts] |-> Draft])
    BY <1>2, <2>1, <2>2 DEF CompleteCommit, TypeOK
  <2>5. QED
    BY <2>1, <2>3, <2>4 DEF Replace
<1>3. QED
  BY <1>1, <1>2 DEF NewerStep

\* However saves, or completions, of an assessment overlap, none of them removes
\* or changes a row that another has committed since its DELETE looked.
THEOREM NewerKept == Spec => NewerRowsSurvive
<1>1. Init => WritersInv
  BY DEF Init, WritersInv, WritersSound, WritersApart, Rivals, Replaces, Idle
<1>2. TypeOK /\ WritersInv /\ [Next]_vars => WritersInv'
  BY NextSound
<1>3. TypeOK /\ WritersInv /\ [Next]_vars => [NewerStep]_vars
  BY NextNewer
<1>4. QED
  BY <1>1, <1>2, <1>3, TypeCorrect, PTL DEF Spec, NewerRowsSurvive, NewerStep

-----------------------------------------------------------------------------
(* Circles of waiting. *)

\* In no circle of waiting is there a review: it holds no lock while it waits for
\* one, so only saves and completions can deadlock.
ReviewsNeverStuck == \A S \in SUBSET Reqs : Stuck(S) => \A t \in S : txn[t].op # "patch"

THEOREM ReviewsDoNotDeadlock == Spec => []ReviewsNeverStuck
<1>1. TypeOK => ReviewsNeverStuck
  <2> SUFFICES ASSUME TypeOK, NEW S \in SUBSET Reqs, Stuck(S), NEW v \in S, txn[v].op = "patch"
               PROVE  FALSE
    BY DEF ReviewsNeverStuck
  <2>1. Asks(txn[v]) # {}
    BY DEF Stuck
  <2>2. txn[v].pc = "blocked"
    BY <2>1 DEF Asks, Writing
  <2>3. Held(txn[v]) = {}
    BY <2>2 DEF Held
  <2>4. QED
    BY <2>3 DEF Stuck
<1>2. QED
  BY <1>1, TypeCorrect, PTL
=============================================================================
