---------------------------- MODULE ReportsProofs ----------------------------
(***************************************************************************)
(* Theorems about Reports, for any assessments, rules, texts, requests,    *)
(* workers and bounds, while reviewers take any steps of Workspace.        *)
(***************************************************************************)
EXTENDS Reports, FiniteSetTheorems, TLAPS

-----------------------------------------------------------------------------
(* The inductive invariant *)

\* TypeOK without the bound on the messages in the queue.
Types ==
    /\ status \in [Assessments -> Status]
    /\ recs \in [Assessments -> RowSets]
    /\ report \in [Assessments -> ReportRow \cup {NoReport}]
    /\ object \in [Assessments -> (SUBSET Lines) \cup {NoPdf}]
    /\ queue \in [Assessments -> Nat]
    /\ req \in [Requests -> Request \cup {Free}]
    /\ worker \in [Workers -> Task \cup {Free}]
    /\ requests \in 0 .. MaxRequests
    /\ crashes \in 0 .. MaxCrashes
    /\ failures \in BOOLEAN
    /\ vetted \in [Assessments -> SUBSET Lines]

\* The requests and the workers that are busy with a.
Asking(a) == {q \in Requests : req[q] # Free /\ req[q].asm = a}

Busy(a) == {w \in Workers : worker[w] # Free /\ worker[w].asm = a}

\* Every task, waiting, running or about to be sent, is owed to a request of
\* its own: crashes put back no more than was taken.
TasksAreCounted ==
    \A a \in Assessments :
        /\ IsFiniteSet(Asking(a)) /\ IsFiniteSet(Busy(a))
        /\ queue[a] + Cardinality(Asking(a)) + Cardinality(Busy(a)) <= requests

\* The row of a report is one of two, and belongs to a completed assessment.
RowsAreConsistent ==
    \A a \in Assessments : report[a] # NoReport =>
        /\ status[a] = "completed"
        /\ report[a] \in {Queued, Published}
        /\ report[a] = Published => object[a] # NoPdf

\* What a request has read may be stale, but it was a row.
RequestsAreHonest ==
    \A q \in Requests : req[q] # Free =>
        /\ status[req[q].asm] = "completed"
        /\ req[q].seen # NoReport => req[q].seen \in {Queued, Published}
        /\ req[q].pc = "committed" \/ req[q].seen # NoReport => report[req[q].asm] # NoReport

\* A task is sent after the commit of its row, and reads the row after the
\* object is stored.
TasksAreHonest ==
    /\ \A a \in Assessments : queue[a] > 0 => report[a] # NoReport
    /\ \A w \in Workers : worker[w] # Free =>
          /\ report[worker[w].asm] # NoReport
          /\ worker[w].pc \in {"stored", "read", "committed"} => object[worker[w].asm] # NoPdf
          /\ worker[w].pc = "read" => worker[w].seen \in {Queued, Published}

\* Approved text is vetted, before it is stored and after.
LinesAreVetted ==
    /\ \A a \in Assessments : Approved(recs[a]) \subseteq vetted[a]
    /\ \A w \in Workers : worker[w] # Free => worker[w].lines \subseteq vetted[worker[w].asm]
    /\ PdfIsVetted

IInv ==
    /\ Types
    /\ TasksAreCounted
    /\ RowsAreConsistent
    /\ RequestsAreHonest
    /\ TasksAreHonest
    /\ LinesAreVetted

-----------------------------------------------------------------------------
(* Lemmas about rows *)

\* A recommendation replaced, or a first set of them, makes a table again.
LEMMA TableType ==
    /\ \A S \in SUBSET Rules : [r \in S |-> Draft] \in RowSets
    /\ \A f \in RowSets, r \in Rules, row \in Row : [f EXCEPT ![r] = row] \in RowSets
<1>1. Draft \in Row
  BY RowsAssumption DEF Draft, Row, ReviewStatus
<1>2. ASSUME NEW S \in SUBSET Rules
      PROVE  [r \in S |-> Draft] \in RowSets
  <2>1. [r \in S |-> Draft] \in [S -> Row]
    BY <1>1
  <2>2. QED
    BY <2>1 DEF RowSets
<1>3. ASSUME NEW f \in RowSets, NEW r \in Rules, NEW row \in Row
      PROVE  [f EXCEPT ![r] = row] \in RowSets
  <2>1. PICK S \in SUBSET Rules : f \in [S -> Row]
    BY DEF RowSets
  <2>2. [f EXCEPT ![r] = row] \in [S -> Row]
    BY <2>1
  <2>3. QED
    BY <2>2 DEF RowSets
<1>4. QED
  BY <1>2, <1>3

\* What is approved are lines of rules and texts.
LEMMA ApprovedType ==
    ASSUME NEW rows \in RowSets
    PROVE  Approved(rows) \subseteq Lines
<1>1. PICK S \in SUBSET Rules : rows \in [S -> Row]
  BY DEF RowSets
<1>2. QED
  BY <1>1 DEF Approved, Lines, Row

\* A commit that read a row, however stale, leaves a row: a request "queued" if
\* it read "published" and what is there otherwise, a task "published" if it
\* read "queued" and what is there otherwise.
LEMMA UpdateEffect ==
    ASSUME NEW row \in {Queued, Published}
    PROVE  /\ Update(row, Queued, Queued) = row
           /\ Update(row, Published, Queued) = Queued
           /\ Update(row, Queued, Published) = Published
           /\ Update(row, Published, Published) = row
           /\ Queued # Published /\ {Queued, Published} \subseteq ReportRow
           /\ NoReport \notin {Queued, Published}
           /\ Queued.status = "queued" /\ Published.status = "published"
           /\ ~Queued.key /\ Published.key
<1>1. {Queued, Published} \subseteq ReportRow
  BY DEF Queued, Published, ReportRow
<1>2. QED
  BY <1>1, ReportsAssumption DEF Update, Queued, Published

-----------------------------------------------------------------------------
(* Lemmas about counting *)

\* A request that goes on is still asked; one that ends is not.
LEMMA AskingMoves ==
    ASSUME Types, NEW q \in Requests, req[q] # Free, NEW x, x # Free, x.asm = req[q].asm,
           req' = [req EXCEPT ![q] = x]
    PROVE  \A a \in Assessments : Asking(a)' = Asking(a)
BY DEF Asking, Types

LEMMA AskingEnds ==
    ASSUME IInv, NEW q \in Requests, req[q] # Free, req' = [req EXCEPT ![q] = Free]
    PROVE  \A a \in Assessments :
              /\ IsFiniteSet(Asking(a)') /\ Cardinality(Asking(a)') \in Nat
              /\ Cardinality(Asking(a)') + (IF a = req[q].asm THEN 1 ELSE 0) = Cardinality(Asking(a))
<1> SUFFICES ASSUME NEW a \in Assessments
             PROVE  /\ IsFiniteSet(Asking(a)') /\ Cardinality(Asking(a)') \in Nat
                    /\ Cardinality(Asking(a)') + (IF a = req[q].asm THEN 1 ELSE 0)
                          = Cardinality(Asking(a))
  OBVIOUS
<1>1. IsFiniteSet(Asking(a)) /\ Cardinality(Asking(a)) \in Nat
  BY FS_CardinalityType DEF IInv, TasksAreCounted
<1>2. CASE a = req[q].asm
  <2>1. q \in Asking(a) /\ Asking(a)' = Asking(a) \ {q}
    BY <1>2 DEF Asking, IInv, Types
  <2>2. IsFiniteSet(Asking(a)') /\ Cardinality(Asking(a)') = Cardinality(Asking(a)) - 1
    BY <1>1, <2>1, FS_RemoveElement
  <2>3. Cardinality(Asking(a)') \in Nat
    BY <2>2, FS_CardinalityType
  <2>4. QED
    BY <1>1, <1>2, <2>2, <2>3
<1>3. CASE a # req[q].asm
  <2>1. Asking(a)' = Asking(a)
    BY <1>3 DEF Asking, IInv, Types
  <2>2. QED
    BY <1>1, <1>3, <2>1
<1>4. QED
  BY <1>2, <1>3

\* The same of tasks.
LEMMA BusyMoves ==
    ASSUME Types, NEW w \in Workers, worker[w] # Free, NEW x, x # Free, x.asm = worker[w].asm,
           worker' = [worker EXCEPT ![w] = x]
    PROVE  \A a \in Assessments : Busy(a)' = Busy(a)
BY DEF Busy, Types

LEMMA BusyEnds ==
    ASSUME IInv, NEW w \in Workers, worker[w] # Free, worker' = [worker EXCEPT ![w] = Free]
    PROVE  \A a \in Assessments :
              /\ IsFiniteSet(Busy(a)') /\ Cardinality(Busy(a)') \in Nat
              /\ Cardinality(Busy(a)') + (IF a = worker[w].asm THEN 1 ELSE 0) = Cardinality(Busy(a))
<1> SUFFICES ASSUME NEW a \in Assessments
             PROVE  /\ IsFiniteSet(Busy(a)') /\ Cardinality(Busy(a)') \in Nat
                    /\ Cardinality(Busy(a)') + (IF a = worker[w].asm THEN 1 ELSE 0)
                          = Cardinality(Busy(a))
  OBVIOUS
<1>1. IsFiniteSet(Busy(a)) /\ Cardinality(Busy(a)) \in Nat
  BY FS_CardinalityType DEF IInv, TasksAreCounted
<1>2. CASE a = worker[w].asm
  <2>1. w \in Busy(a) /\ Busy(a)' = Busy(a) \ {w}
    BY <1>2 DEF Busy, IInv, Types
  <2>2. IsFiniteSet(Busy(a)') /\ Cardinality(Busy(a)') = Cardinality(Busy(a)) - 1
    BY <1>1, <2>1, FS_RemoveElement
  <2>3. Cardinality(Busy(a)') \in Nat
    BY <2>2, FS_CardinalityType
  <2>4. QED
    BY <1>1, <1>2, <2>2, <2>3
<1>3. CASE a # worker[w].asm
  <2>1. Busy(a)' = Busy(a)
    BY <1>3 DEF Busy, IInv, Types
  <2>2. QED
    BY <1>1, <1>3, <2>1
<1>4. QED
  BY <1>2, <1>3

\* The counts are numbers.
LEMMA CountsAreNumbers ==
    ASSUME IInv, NEW a \in Assessments
    PROVE  /\ queue[a] \in Nat /\ requests \in Nat
           /\ Cardinality(Asking(a)) \in Nat /\ Cardinality(Busy(a)) \in Nat
BY FS_CardinalityType, ReportsAssumption DEF IInv, Types, TasksAreCounted

-----------------------------------------------------------------------------
(* Reviewers *)

\* Whatever reviewers do, a completed assessment stays completed, and what they
\* approve is vetted.
LEMMA WorkspaceKeeps ==
    ASSUME IInv, WorkspaceStep
    PROVE  IInv'
<1>1. /\ W!Next /\ vetted' = [a \in Assessments |-> vetted[a] \cup Approved(recs'[a])]
      /\ UNCHANGED <<report, object, queue, req, worker, requests, crashes, failures>>
  BY DEF WorkspaceStep, counters
<1>2. PICK a \in Assessments :
          \/ W!Create(a)
          \/ \E findings \in SUBSET Rules : W!Complete(a, findings)
          \/ \E r \in Rules, row \in [text : Texts, status : ReviewStatus, by : Users] :
                W!Review(a, r, row)
  BY <1>1 DEF W!Next, W!ReviewStatus, ReviewStatus
<1>3. /\ status' \in [Assessments -> Status]
      /\ \A b \in Assessments : status[b] = "completed" => status'[b] = "completed"
  BY <1>2 DEF W!Create, W!Complete, W!Review, IInv, Types, Status
<1>4. recs' \in [Assessments -> RowSets]
  <2>1. CASE W!Create(a)
    BY <2>1 DEF W!Create, IInv, Types
  <2>2. ASSUME NEW findings \in SUBSET Rules, W!Complete(a, findings)
        PROVE  recs' \in [Assessments -> RowSets]
    <3>1. [r \in findings |-> Draft] \in RowSets
      BY TableType
    <3>2. recs' = [recs EXCEPT ![a] = [r \in findings |-> Draft]]
      BY <2>2 DEF W!Complete, W!Draft, Draft
    <3>3. QED
      BY <3>1, <3>2 DEF IInv, Types
  <2>3. ASSUME NEW r \in Rules, NEW row \in [text : Texts, status : ReviewStatus, by : Users],
               W!Review(a, r, row)
        PROVE  recs' \in [Assessments -> RowSets]
    <3>1. row \in Row
      BY DEF Row
    <3>2. [recs[a] EXCEPT ![r] = row] \in RowSets
      BY <3>1, TableType DEF IInv, Types
    <3>3. recs' = [recs EXCEPT ![a] = [recs[a] EXCEPT ![r] = row]]
      BY <2>3 DEF W!Review
    <3>4. QED
      BY <3>2, <3>3 DEF IInv, Types
  <2>4. QED
    BY <1>2, <2>1, <2>2, <2>3
<1>5. vetted' \in [Assessments -> SUBSET Lines]
  BY <1>1, <1>4, ApprovedType DEF IInv, Types
<1>6. Types'
  BY <1>1, <1>3, <1>4, <1>5 DEF IInv, Types
<1>7. TasksAreCounted'
  BY <1>1 DEF IInv, TasksAreCounted, Asking, Busy
<1>8. RowsAreConsistent'
  BY <1>1, <1>3 DEF IInv, RowsAreConsistent
<1>9. RequestsAreHonest'
  BY <1>1, <1>3 DEF IInv, RequestsAreHonest, Types, Request
<1>10. TasksAreHonest'
  BY <1>1 DEF IInv, TasksAreHonest
<1>11. LinesAreVetted'
  <2>1. \A b \in Assessments : vetted[b] \subseteq vetted'[b] /\ Approved(recs'[b]) \subseteq vetted'[b]
    BY <1>1
  <2>2. \A w \in Workers : worker[w] # Free => worker[w].asm \in Assessments
    BY DEF IInv, Types, Task
  <2>3. QED
    BY <1>1, <2>1, <2>2 DEF IInv, LinesAreVetted, PdfIsVetted
<1>12. QED
  BY <1>6, <1>7, <1>8, <1>9, <1>10, <1>11 DEF IInv

-----------------------------------------------------------------------------
(* Requests *)

\* A request that passes the gate asks for a task of its own.
LEMMA RequestReportKeeps ==
    ASSUME IInv, NEW q \in Requests, NEW u \in Users, NEW o \in Orgs, NEW a \in Assessments,
           RequestReport(q, u, o, a)
    PROVE  IInv'
<1> DEFINE x == [pc |-> "validated", asm |-> a, seen |-> NoReport]
<1>1. /\ req[q] = Free /\ requests < MaxRequests /\ status[a] = "completed"
      /\ req' = [req EXCEPT ![q] = x] /\ requests' = requests + 1
      /\ UNCHANGED <<status, recs, vetted, report, object, queue, worker, crashes, failures>>
  BY DEF RequestReport, Publishable, workspace
<1>2. x \in Request /\ x # Free /\ x.asm = a /\ x.pc = "validated" /\ x.seen = NoReport
  BY DEF Request, Free
<1> HIDE DEF x
<1>3. Types'
  BY <1>1, <1>2, ReportsAssumption DEF IInv, Types
<1>4. TasksAreCounted'
  <2> SUFFICES ASSUME NEW b \in Assessments
               PROVE  /\ IsFiniteSet(Asking(b)') /\ IsFiniteSet(Busy(b)')
                      /\ queue'[b] + Cardinality(Asking(b)') + Cardinality(Busy(b)') <= requests'
    BY DEF TasksAreCounted
  <2>1. /\ IsFiniteSet(Asking(b)) /\ IsFiniteSet(Busy(b))
        /\ queue[b] + Cardinality(Asking(b)) + Cardinality(Busy(b)) <= requests
    BY DEF IInv, TasksAreCounted
  <2>2. Busy(b)' = Busy(b)
    BY <1>1 DEF Busy
  <2>3. CASE b = a
    <3>1. Asking(b)' = Asking(b) \cup {q}
      BY <1>1, <1>2, <2>3 DEF Asking, IInv, Types
    <3>2. q \notin Asking(b)
      BY <1>1 DEF Asking
    <3>3. IsFiniteSet(Asking(b)') /\ Cardinality(Asking(b)') = Cardinality(Asking(b)) + 1
      BY <2>1, <3>1, <3>2, FS_AddElement
    <3>4. QED
      BY <1>1, <2>1, <2>2, <3>3, CountsAreNumbers
  <2>4. CASE b # a
    <3>1. Asking(b)' = Asking(b)
      BY <1>1, <1>2, <2>4 DEF Asking, IInv, Types
    <3>2. QED
      BY <1>1, <2>1, <2>2, <3>1, CountsAreNumbers
  <2>5. QED
    BY <2>3, <2>4
<1>5. RowsAreConsistent'
  BY <1>1 DEF IInv, RowsAreConsistent
<1>6. RequestsAreHonest'
  BY <1>1, <1>2 DEF IInv, RequestsAreHonest, Types
<1>7. TasksAreHonest'
  BY <1>1 DEF IInv, TasksAreHonest
<1>8. LinesAreVetted'
  BY <1>1 DEF IInv, LinesAreVetted, PdfIsVetted, Approved
<1>9. QED
  BY <1>3, <1>4, <1>5, <1>6, <1>7, <1>8 DEF IInv

\* A request that reads reads a row, or that there is none.
LEMMA RequestReadsKeeps ==
    ASSUME IInv, NEW q \in Requests, RequestReads(q)
    PROVE  IInv'
<1> DEFINE x == [req[q] EXCEPT !.pc = "read", !.seen = report[req[q].asm]]
<1>1. /\ req[q].pc = "validated" /\ req' = [req EXCEPT ![q] = x]
      /\ UNCHANGED <<status, recs, vetted, report, object, queue, worker, requests, crashes, failures>>
  BY DEF RequestReads, workspace, counters
<1>2. req[q] # Free /\ req[q] \in Request
  BY <1>1 DEF Free, IInv, Types
<1>3. /\ x \in Request /\ x # Free /\ x.asm = req[q].asm
      /\ x.pc = "read" /\ x.seen = report[x.asm]
  BY <1>2 DEF Request, Free, IInv, Types
<1> HIDE DEF x
<1>4. Types'
  BY <1>1, <1>3 DEF IInv, Types
<1>5. TasksAreCounted'
  <2>1. \A a \in Assessments : Asking(a)' = Asking(a)
    BY <1>1, <1>2, <1>3, AskingMoves DEF IInv
  <2>2. \A a \in Assessments : Busy(a)' = Busy(a)
    BY <1>1 DEF Busy
  <2>3. QED
    BY <1>1, <2>1, <2>2 DEF IInv, TasksAreCounted
<1>6. RowsAreConsistent'
  BY <1>1 DEF IInv, RowsAreConsistent
<1>7. RequestsAreHonest'
  <2>1. x.asm \in Assessments
    BY <1>3 DEF Request
  <2>2. x.seen # NoReport => x.seen \in {Queued, Published} /\ report[x.asm] # NoReport
    BY <1>3, <2>1 DEF IInv, RowsAreConsistent
  <2>3. status[x.asm] = "completed"
    BY <1>2, <1>3 DEF IInv, RequestsAreHonest
  <2>4. QED
    BY <1>1, <1>3, <2>2, <2>3 DEF IInv, RequestsAreHonest, Types
<1>8. TasksAreHonest'
  BY <1>1 DEF IInv, TasksAreHonest
<1>9. LinesAreVetted'
  BY <1>1 DEF IInv, LinesAreVetted, PdfIsVetted, Approved
<1>10. QED
  BY <1>4, <1>5, <1>6, <1>7, <1>8, <1>9 DEF IInv

\* What the commit of a request does to its row.
LEMMA RequestCommitsEffect ==
    ASSUME IInv, NEW q \in Requests, RequestCommits(q)
    PROVE  /\ req[q] # Free /\ req[q].asm \in Assessments
           /\ \/ UNCHANGED report
              \/ report' = [report EXCEPT ![req[q].asm] = Queued]
           /\ report'[req[q].asm] # NoReport
<1> DEFINE a == req[q].asm
           seen == req[q].seen
<1>1. /\ req[q].pc = "read"
      /\ seen = NoReport => report[a] = NoReport
      /\ report' = [report EXCEPT ![a] = IF seen = NoReport THEN Queued
                                         ELSE Update(report[a], seen, Queued)]
  BY DEF RequestCommits
<1>2. req[q] # Free /\ a \in Assessments
  BY <1>1 DEF Free, IInv, Types, Request
<1>3. report \in [Assessments -> ReportRow \cup {NoReport}]
  BY DEF IInv, Types
<1>4. Queued # NoReport /\ Queued \in ReportRow
  BY UpdateEffect
<1>5. CASE seen = NoReport
  BY <1>1, <1>2, <1>3, <1>4, <1>5
<1>6. CASE seen # NoReport
  <2>1. seen \in {Queued, Published} /\ report[a] # NoReport
    BY <1>2, <1>6 DEF IInv, RequestsAreHonest
  <2>2. report[a] \in {Queued, Published}
    BY <1>2, <2>1 DEF IInv, RowsAreConsistent
  <2>3. Update(report[a], seen, Queued) \in {report[a], Queued}
    BY <2>1, <2>2, UpdateEffect
  <2>4. report' = [report EXCEPT ![a] = report[a]] \/ report' = [report EXCEPT ![a] = Queued]
    BY <1>1, <1>6, <2>3
  <2>5. QED
    BY <1>2, <1>3, <1>4, <2>1, <2>4
<1>7. QED
  BY <1>2, <1>5, <1>6

\* The commit of a request leaves a row, of its completed assessment.
LEMMA RequestCommitsKeeps ==
    ASSUME IInv, NEW q \in Requests, RequestCommits(q)
    PROVE  IInv'
<1> DEFINE x == [req[q] EXCEPT !.pc = "committed"]
<1>1. /\ req[q].pc = "read" /\ req' = [req EXCEPT ![q] = x]
      /\ UNCHANGED <<status, recs, vetted, object, queue, worker, requests, crashes, failures>>
  BY DEF RequestCommits, workspace, counters
<1>2. req[q] # Free /\ req[q] \in Request
  BY <1>1 DEF Free, IInv, Types
<1>3. /\ x \in Request /\ x # Free /\ x.asm = req[q].asm
      /\ x.pc = "committed" /\ x.seen = req[q].seen
  BY <1>2 DEF Request, Free
<1> HIDE DEF x
<1>4. /\ req[q].asm \in Assessments /\ report'[req[q].asm] # NoReport
      /\ \/ UNCHANGED report
         \/ report' = [report EXCEPT ![req[q].asm] = Queued]
  BY RequestCommitsEffect
<1>5. /\ report' \in [Assessments -> ReportRow \cup {NoReport}]
      /\ \A a \in Assessments : /\ report[a] # NoReport => report'[a] # NoReport
                                /\ \/ report'[a] = report[a]
                                   \/ report'[a] = Queued /\ a = req[q].asm
  BY <1>4, UpdateEffect DEF IInv, Types
<1>6. Types'
  BY <1>1, <1>3, <1>5 DEF IInv, Types
<1>7. TasksAreCounted'
  <2>1. \A a \in Assessments : Asking(a)' = Asking(a)
    BY <1>1, <1>2, <1>3, AskingMoves DEF IInv
  <2>2. \A a \in Assessments : Busy(a)' = Busy(a)
    BY <1>1 DEF Busy
  <2>3. QED
    BY <1>1, <2>1, <2>2 DEF IInv, TasksAreCounted
<1>8. RowsAreConsistent'
  <2>1. status[req[q].asm] = "completed"
    BY <1>2 DEF IInv, RequestsAreHonest
  <2>2. QED
    BY <1>1, <1>5, <2>1, UpdateEffect DEF IInv, RowsAreConsistent
<1>9. RequestsAreHonest'
  BY <1>1, <1>2, <1>3, <1>4, <1>5 DEF IInv, RequestsAreHonest, Types, Request
<1>10. TasksAreHonest'
  <2>1. \A w \in Workers : worker[w] # Free => worker[w].asm \in Assessments
    BY DEF IInv, Types, Task
  <2>2. QED
    BY <1>1, <1>5, <2>1 DEF IInv, TasksAreHonest
<1>11. LinesAreVetted'
  BY <1>1 DEF IInv, LinesAreVetted, PdfIsVetted, Approved
<1>12. QED
  BY <1>6, <1>7, <1>8, <1>9, <1>10, <1>11 DEF IInv

\* A request that ends leaves a task, whose row is there, or nothing.
LEMMA RequestEndsKeeps ==
    ASSUME IInv, NEW q \in Requests, RequestEnqueues(q) \/ RequestFails(q)
    PROVE  IInv'
<1> DEFINE a == req[q].asm
<1>1. /\ req[q] # Free /\ req' = [req EXCEPT ![q] = Free]
      /\ \/ queue' = [queue EXCEPT ![a] = queue[a] + 1] /\ req[q].pc = "committed"
         \/ queue' = queue
      /\ failures' \in {failures, TRUE}
      /\ UNCHANGED <<status, recs, vetted, report, object, worker, requests, crashes>>
  <2>1. CASE RequestEnqueues(q)
    BY <2>1 DEF RequestEnqueues, workspace, counters, Free
  <2>2. CASE RequestFails(q)
    BY <2>2 DEF RequestFails, workspace
  <2>3. QED
    BY <2>1, <2>2
<1>2. a \in Assessments
  BY <1>1 DEF IInv, Types, Request
<1>3. queue' \in [Assessments -> Nat]
  BY <1>1, <1>2 DEF IInv, Types
<1>4. Types'
  BY <1>1, <1>3 DEF IInv, Types
<1>5. TasksAreCounted'
  <2> SUFFICES ASSUME NEW b \in Assessments
               PROVE  /\ IsFiniteSet(Asking(b)') /\ IsFiniteSet(Busy(b)')
                      /\ queue'[b] + Cardinality(Asking(b)') + Cardinality(Busy(b)') <= requests'
    BY DEF TasksAreCounted
  <2>1. /\ IsFiniteSet(Busy(b))
        /\ queue[b] + Cardinality(Asking(b)) + Cardinality(Busy(b)) <= requests
    BY DEF IInv, TasksAreCounted
  <2>2. /\ IsFiniteSet(Asking(b)') /\ Cardinality(Asking(b)') \in Nat
        /\ Cardinality(Asking(b)') + (IF b = a THEN 1 ELSE 0) = Cardinality(Asking(b))
    BY <1>1, AskingEnds
  <2>3. Busy(b)' = Busy(b)
    BY <1>1 DEF Busy
  <2>4. queue'[b] \in Nat /\ queue'[b] <= queue[b] + (IF b = a THEN 1 ELSE 0)
    BY <1>1, <1>2, <1>3, CountsAreNumbers DEF IInv, Types
  <2>5. QED
    BY <1>1, <2>1, <2>2, <2>3, <2>4, CountsAreNumbers
<1>6. RowsAreConsistent'
  BY <1>1 DEF IInv, RowsAreConsistent
<1>7. RequestsAreHonest'
  BY <1>1 DEF IInv, RequestsAreHonest, Types
<1>8. TasksAreHonest'
  <2>1. req[q].pc = "committed" => report[a] # NoReport
    BY <1>1 DEF IInv, RequestsAreHonest
  <2>2. \A b \in Assessments : queue'[b] > 0 => report[b] # NoReport
    BY <1>1, <1>2, <2>1 DEF IInv, TasksAreHonest, Types
  <2>3. QED
    BY <1>1, <2>2 DEF IInv, TasksAreHonest
<1>9. LinesAreVetted'
  BY <1>1 DEF IInv, LinesAreVetted, PdfIsVetted, Approved
<1>10. QED
  BY <1>4, <1>5, <1>6, <1>7, <1>8, <1>9 DEF IInv

-----------------------------------------------------------------------------
(* Tasks *)

\* A task that is taken was waiting.
LEMMA TakeKeeps ==
    ASSUME IInv, NEW w \in Workers, NEW a \in Assessments, Take(w, a)
    PROVE  IInv'
<1> DEFINE x == [pc |-> "taken", asm |-> a, lines |-> {}, seen |-> NoReport]
<1>1. /\ worker[w] = Free /\ queue[a] > 0 /\ worker' = [worker EXCEPT ![w] = x]
      /\ queue' = [queue EXCEPT ![a] = queue[a] - 1]
      /\ UNCHANGED <<status, recs, vetted, report, object, req, requests, crashes, failures>>
  BY DEF Take, workspace, counters
<1>2. x \in Task /\ x # Free /\ x.asm = a /\ x.pc = "taken" /\ x.lines = {}
  BY DEF Task, Free
<1> HIDE DEF x
<1>3. queue' \in [Assessments -> Nat]
  BY <1>1 DEF IInv, Types
<1>4. Types'
  BY <1>1, <1>2, <1>3 DEF IInv, Types
<1>5. TasksAreCounted'
  <2> SUFFICES ASSUME NEW b \in Assessments
               PROVE  /\ IsFiniteSet(Asking(b)') /\ IsFiniteSet(Busy(b)')
                      /\ queue'[b] + Cardinality(Asking(b)') + Cardinality(Busy(b)') <= requests'
    BY DEF TasksAreCounted
  <2>1. /\ IsFiniteSet(Asking(b)) /\ IsFiniteSet(Busy(b))
        /\ queue[b] + Cardinality(Asking(b)) + Cardinality(Busy(b)) <= requests
    BY DEF IInv, TasksAreCounted
  <2>2. Asking(b)' = Asking(b)
    BY <1>1 DEF Asking
  <2>3. CASE b = a
    <3>1. Busy(b)' = Busy(b) \cup {w} /\ w \notin Busy(b)
      BY <1>1, <1>2, <2>3 DEF Busy, IInv, Types
    <3>2. IsFiniteSet(Busy(b)') /\ Cardinality(Busy(b)') = Cardinality(Busy(b)) + 1
      BY <2>1, <3>1, FS_AddElement
    <3>3. queue'[b] = queue[b] - 1
      BY <1>1, <2>3 DEF IInv, Types
    <3>4. QED
      BY <1>1, <2>1, <2>2, <3>2, <3>3, CountsAreNumbers
  <2>4. CASE b # a
    <3>1. Busy(b)' = Busy(b) /\ queue'[b] = queue[b]
      BY <1>1, <1>2, <2>4 DEF Busy, IInv, Types
    <3>2. QED
      BY <1>1, <2>1, <2>2, <3>1
  <2>5. QED
    BY <2>3, <2>4
<1>6. RowsAreConsistent'
  BY <1>1 DEF IInv, RowsAreConsistent
<1>7. RequestsAreHonest'
  BY <1>1 DEF IInv, RequestsAreHonest
<1>8. TasksAreHonest'
  <2>1. report[a] # NoReport
    BY <1>1 DEF IInv, TasksAreHonest
  <2>2. \A b \in Assessments : queue'[b] > 0 => queue[b] > 0
    BY <1>1 DEF IInv, Types
  <2>3. QED
    BY <1>1, <1>2, <2>1, <2>2 DEF IInv, TasksAreHonest, Types
<1>9. LinesAreVetted'
  BY <1>1, <1>2 DEF IInv, LinesAreVetted, PdfIsVetted, Approved, Types
<1>10. QED
  BY <1>4, <1>5, <1>6, <1>7, <1>8, <1>9 DEF IInv

\* A task that goes on carries vetted lines, may store them, and publishes its
\* row only when there is an object.
LEMMA TaskMovesKeeps ==
    ASSUME IInv, NEW w \in Workers, worker[w] # Free,
           NEW x \in Task, x # Free, x.asm = worker[w].asm, x.lines \subseteq vetted[x.asm],
           worker' = [worker EXCEPT ![w] = x],
           UNCHANGED <<status, recs, vetted, queue, req, requests, crashes, failures>>,
           object' = object \/ object' = [object EXCEPT ![x.asm] = x.lines],
           \/ report' = report
           \/ report' = [report EXCEPT ![x.asm] = Published] /\ object'[x.asm] # NoPdf,
           x.pc \in {"stored", "read", "committed"} => object'[x.asm] # NoPdf,
           x.pc = "read" => x.seen \in {Queued, Published}
    PROVE  IInv'
<1> DEFINE a == x.asm
<1>1. a \in Assessments /\ x.lines \subseteq Lines /\ x.lines # NoPdf
  BY ReportsAssumption DEF Task
<1>2. /\ object' \in [Assessments -> (SUBSET Lines) \cup {NoPdf}]
      /\ \A b \in Assessments : object[b] # NoPdf => object'[b] # NoPdf
      /\ \A b \in Assessments : object'[b] = object[b] \/ (b = a /\ object'[b] = x.lines)
  <2>1. CASE object' = object
    BY <2>1 DEF IInv, Types
  <2>2. CASE object' = [object EXCEPT ![x.asm] = x.lines]
    BY <1>1, <2>2 DEF IInv, Types
  <2>3. QED
    BY <2>1, <2>2
<1>3. report[a] # NoReport
  BY DEF IInv, TasksAreHonest
<1>4. /\ report' \in [Assessments -> ReportRow \cup {NoReport}]
      /\ \A b \in Assessments : report[b] # NoReport <=> report'[b] # NoReport
      /\ \A b \in Assessments :
            report'[b] = report[b] \/ (b = a /\ report'[b] = Published /\ object'[b] # NoPdf)
  BY <1>1, <1>3, UpdateEffect DEF IInv, Types
<1>5. Types'
  BY <1>2, <1>4 DEF IInv, Types
<1>6. TasksAreCounted'
  <2>1. \A b \in Assessments : Busy(b)' = Busy(b)
    BY BusyMoves DEF IInv
  <2>2. \A b \in Assessments : Asking(b)' = Asking(b)
    BY DEF Asking
  <2>3. QED
    BY <2>1, <2>2 DEF IInv, TasksAreCounted
<1>7. RowsAreConsistent'
  BY <1>2, <1>4, UpdateEffect DEF IInv, RowsAreConsistent
<1>8. RequestsAreHonest'
  <2>1. \A q \in Requests : req[q] # Free => req[q].asm \in Assessments
    BY DEF IInv, Types, Request
  <2>2. QED
    BY <1>4, <2>1 DEF IInv, RequestsAreHonest
<1>9. TasksAreHonest'
  <2>1. \A v \in Workers : worker[v] # Free => worker[v].asm \in Assessments
    BY DEF IInv, Types, Task
  <2>2. QED
    BY <1>1, <1>2, <1>3, <1>4, <2>1 DEF IInv, TasksAreHonest, Types
<1>10. LinesAreVetted'
  <2>1. PdfIsVetted'
    BY <1>2 DEF IInv, LinesAreVetted, PdfIsVetted
  <2>2. \A v \in Workers : worker'[v] # Free => worker'[v].lines \subseteq vetted'[worker'[v].asm]
    BY DEF IInv, LinesAreVetted, Types
  <2>3. QED
    BY <2>1, <2>2 DEF IInv, LinesAreVetted, Approved
<1>11. QED
  BY <1>5, <1>6, <1>7, <1>8, <1>9, <1>10 DEF IInv

\* A task that ends, in whatever way, is put back at most once.
LEMMA TaskEndsKeeps ==
    ASSUME IInv, NEW w \in Workers, Refuse(w) \/ Ack(w) \/ TaskFails(w) \/ Crash(w)
    PROVE  IInv'
<1> DEFINE a == worker[w].asm
<1>1. /\ worker[w] # Free /\ worker' = [worker EXCEPT ![w] = Free]
      /\ \/ queue' = [queue EXCEPT ![a] = queue[a] + 1]
         \/ queue' = queue
      /\ failures' \in {failures, TRUE} /\ crashes' \in 0 .. MaxCrashes
      /\ UNCHANGED <<status, recs, vetted, report, object, req, requests>>
  <2>1. crashes \in 0 .. MaxCrashes
    BY DEF IInv, Types
  <2>2. CASE Refuse(w)
    BY <2>1, <2>2 DEF Refuse, workspace, counters, Free
  <2>3. CASE Ack(w)
    BY <2>1, <2>3 DEF Ack, workspace, counters, Free
  <2>4. CASE TaskFails(w)
    BY <2>1, <2>4 DEF TaskFails, workspace, Free
  <2>5. CASE Crash(w)
    BY <2>1, <2>5, ReportsAssumption DEF Crash, workspace
  <2>6. QED
    BY <2>2, <2>3, <2>4, <2>5
<1>2. a \in Assessments
  BY <1>1 DEF IInv, Types, Task
<1>3. queue' \in [Assessments -> Nat]
  BY <1>1, <1>2 DEF IInv, Types
<1>4. Types'
  BY <1>1, <1>3 DEF IInv, Types
<1>5. TasksAreCounted'
  <2> SUFFICES ASSUME NEW b \in Assessments
               PROVE  /\ IsFiniteSet(Asking(b)') /\ IsFiniteSet(Busy(b)')
                      /\ queue'[b] + Cardinality(Asking(b)') + Cardinality(Busy(b)') <= requests'
    BY DEF TasksAreCounted
  <2>1. /\ IsFiniteSet(Asking(b))
        /\ queue[b] + Cardinality(Asking(b)) + Cardinality(Busy(b)) <= requests
    BY DEF IInv, TasksAreCounted
  <2>2. /\ IsFiniteSet(Busy(b)') /\ Cardinality(Busy(b)') \in Nat
        /\ Cardinality(Busy(b)') + (IF b = a THEN 1 ELSE 0) = Cardinality(Busy(b))
    BY <1>1, BusyEnds
  <2>3. Asking(b)' = Asking(b)
    BY <1>1 DEF Asking
  <2>4. queue'[b] \in Nat /\ queue'[b] <= queue[b] + (IF b = a THEN 1 ELSE 0)
    BY <1>1, <1>2, <1>3, CountsAreNumbers DEF IInv, Types
  <2>5. QED
    BY <1>1, <2>1, <2>2, <2>3, <2>4, CountsAreNumbers
<1>6. RowsAreConsistent'
  BY <1>1 DEF IInv, RowsAreConsistent
<1>7. RequestsAreHonest'
  BY <1>1 DEF IInv, RequestsAreHonest
<1>8. TasksAreHonest'
  <2>1. report[a] # NoReport
    BY <1>1 DEF IInv, TasksAreHonest
  <2>2. \A b \in Assessments : queue'[b] > 0 => report[b] # NoReport
    BY <1>1, <1>2, <2>1 DEF IInv, TasksAreHonest, Types
  <2>3. QED
    BY <1>1, <2>2 DEF IInv, TasksAreHonest, Types
<1>9. LinesAreVetted'
  BY <1>1 DEF IInv, LinesAreVetted, PdfIsVetted, Approved, Types
<1>10. QED
  BY <1>4, <1>5, <1>6, <1>7, <1>8, <1>9 DEF IInv

\* What the commit of a task does to its row: published, or as it was.
LEMMA PublishEffect ==
    ASSUME IInv, NEW w \in Workers, Publish(w)
    PROVE  /\ worker[w] # Free /\ worker[w].asm \in Assessments
           /\ \/ report' = report
              \/ report' = [report EXCEPT ![worker[w].asm] = Published]
<1> DEFINE a == worker[w].asm
           seen == worker[w].seen
<1>1. /\ worker[w].pc = "read"
      /\ report' = [report EXCEPT ![a] = Update(report[a], seen, Published)]
  BY DEF Publish
<1>2. worker[w] # Free /\ a \in Assessments
  BY <1>1 DEF Free, IInv, Types, Task
<1>3. seen \in {Queued, Published} /\ report[a] # NoReport
  BY <1>1, <1>2 DEF IInv, TasksAreHonest
<1>4. report[a] \in {Queued, Published}
  BY <1>2, <1>3 DEF IInv, RowsAreConsistent
<1>5. Update(report[a], seen, Published) \in {report[a], Published}
  BY <1>3, <1>4, UpdateEffect
<1>6. QED
  BY <1>1, <1>2, <1>5 DEF IInv, Types

\* The steps of a task between its start and its end.
LEMMA TaskStepsKeep ==
    ASSUME IInv, NEW w \in Workers,
           Validate(w) \/ List(w) \/ Store(w) \/ Read(w) \/ Publish(w)
    PROVE  IInv'
<1> DEFINE t == worker[w]
           a == t.asm
<1>1. t # Free /\ t \in Task /\ a \in Assessments
  BY DEF Validate, List, Store, Read, Publish, Free, IInv, Types, Task
<1>2. /\ t.lines \subseteq vetted[a] /\ report[a] # NoReport
      /\ t.pc \in {"stored", "read", "committed"} => object[a] # NoPdf
      /\ t.pc = "read" => t.seen \in {Queued, Published}
  BY <1>1 DEF IInv, LinesAreVetted, TasksAreHonest
<1>3. \A x \in Task : x # Free
  BY DEF Task, Free
<1>4. CASE Validate(w)
  <2> DEFINE x == [t EXCEPT !.pc = "validated"]
  <2>1. x \in Task /\ x.asm = a /\ x.lines = t.lines /\ x.pc = "validated"
    BY <1>1 DEF Task
  <2>2. worker' = [worker EXCEPT ![w] = x]
    BY <1>4 DEF Validate
  <2>3. /\ object' = object /\ report' = report
        /\ UNCHANGED <<status, recs, vetted, queue, req, requests, crashes, failures>>
    BY <1>4 DEF Validate, workspace, counters
  <2> HIDE DEF x
  <2>4. QED
    BY <1>1, <1>2, <1>3, <2>1, <2>2, <2>3, TaskMovesKeeps
<1>5. CASE List(w)
  <2> DEFINE x == [t EXCEPT !.pc = "listed", !.lines = Approved(recs[a])]
  <2>1. Approved(recs[a]) \subseteq Lines /\ Approved(recs[a]) \subseteq vetted[a]
    BY <1>1, ApprovedType DEF IInv, Types, LinesAreVetted
  <2>2. x \in Task /\ x.asm = a /\ x.lines \subseteq vetted[a] /\ x.pc = "listed"
    BY <1>1, <2>1 DEF Task
  <2>3. worker' = [worker EXCEPT ![w] = x]
    BY <1>5 DEF List
  <2>4. /\ object' = object /\ report' = report
        /\ UNCHANGED <<status, recs, vetted, queue, req, requests, crashes, failures>>
    BY <1>5 DEF List, workspace, counters
  <2> HIDE DEF x
  <2>5. QED
    BY <1>1, <1>3, <2>2, <2>3, <2>4, TaskMovesKeeps
<1>6. CASE Store(w)
  <2> DEFINE x == [t EXCEPT !.pc = "stored"]
  <2>1. x \in Task /\ x.asm = a /\ x.lines = t.lines /\ x.pc = "stored"
    BY <1>1 DEF Task
  <2>2. worker' = [worker EXCEPT ![w] = x]
    BY <1>6 DEF Store
  <2>3. /\ object' = [object EXCEPT ![x.asm] = x.lines] /\ report' = report
        /\ UNCHANGED <<status, recs, vetted, queue, req, requests, crashes, failures>>
    BY <1>6, <2>1 DEF Store, workspace, counters
  <2>4. object'[x.asm] # NoPdf
    BY <1>1, <2>1, <2>3, ReportsAssumption DEF Task, IInv, Types
  <2> HIDE DEF x
  <2>5. QED
    BY <1>1, <1>2, <1>3, <2>1, <2>2, <2>3, <2>4, TaskMovesKeeps
<1>7. CASE Read(w)
  <2> DEFINE x == [t EXCEPT !.pc = "read", !.seen = report[a]]
  <2>1. report[a] \in {Queued, Published} /\ report[a] \in ReportRow \cup {NoReport}
    BY <1>1, <1>2 DEF IInv, Types, RowsAreConsistent
  <2>2. x \in Task /\ x.asm = a /\ x.lines = t.lines /\ x.pc = "read" /\ x.seen = report[a]
    BY <1>1, <2>1 DEF Task
  <2>3. worker' = [worker EXCEPT ![w] = x]
    BY <1>7 DEF Read
  <2>4. /\ object' = object /\ report' = report /\ t.pc = "stored"
        /\ UNCHANGED <<status, recs, vetted, queue, req, requests, crashes, failures>>
    BY <1>7 DEF Read, workspace, counters
  <2> HIDE DEF x
  <2>5. QED
    BY <1>1, <1>2, <1>3, <2>1, <2>2, <2>3, <2>4, TaskMovesKeeps
<1>8. CASE Publish(w)
  <2> DEFINE x == [t EXCEPT !.pc = "committed"]
  <2>1. x \in Task /\ x.asm = a /\ x.lines = t.lines /\ x.pc = "committed"
    BY <1>1 DEF Task
  <2>2. worker' = [worker EXCEPT ![w] = x]
    BY <1>8 DEF Publish
  <2>3. /\ object' = object /\ t.pc = "read"
        /\ UNCHANGED <<status, recs, vetted, queue, req, requests, crashes, failures>>
    BY <1>8 DEF Publish, workspace, counters
  <2>4. report' = report \/ report' = [report EXCEPT ![x.asm] = Published]
    BY <1>8, <2>1, PublishEffect
  <2> HIDE DEF x
  <2>5. QED
    BY <1>1, <1>2, <1>3, <2>1, <2>2, <2>3, <2>4, TaskMovesKeeps
<1>9. QED
  BY <1>4, <1>5, <1>6, <1>7, <1>8

-----------------------------------------------------------------------------
(* The theorems *)

LEMMA InitGood ==
    ASSUME Init
    PROVE  IInv
<1>1. /\ status = [a \in Assessments |-> "absent"] /\ recs = [a \in Assessments |-> Empty]
      /\ report = [a \in Assessments |-> NoReport] /\ object = [a \in Assessments |-> NoPdf]
      /\ queue = [a \in Assessments |-> 0] /\ requests = 0 /\ crashes = 0 /\ failures = FALSE
      /\ req = [q \in Requests |-> Free] /\ worker = [w \in Workers |-> Free]
      /\ vetted = [a \in Assessments |-> {}]
  BY DEF Init, W!Init, W!Empty, Empty
<1>2. Empty \in RowSets /\ Approved(Empty) = {}
  <2>1. Empty \in [{} -> Row] /\ {} \in SUBSET Rules
    BY DEF Empty
  <2>2. Empty \in RowSets
    BY <2>1 DEF RowSets
  <2>3. Approved(Empty) = {}
    BY DEF Empty, Approved
  <2>4. QED
    BY <2>2, <2>3
<1>3. Types
  <2>1. requests \in 0 .. MaxRequests /\ crashes \in 0 .. MaxCrashes
    BY <1>1, ReportsAssumption
  <2>2. status \in [Assessments -> Status] /\ recs \in [Assessments -> RowSets]
    BY <1>1, <1>2 DEF Status
  <2>3. QED
    BY <1>1, <2>1, <2>2 DEF Types
<1>4. TasksAreCounted
  <2>1. \A a \in Assessments : Asking(a) = {} /\ Busy(a) = {} /\ queue[a] = 0
    BY <1>1 DEF Asking, Busy
  <2>2. QED
    BY <1>1, <2>1, FS_EmptySet DEF TasksAreCounted
<1>5. RowsAreConsistent /\ RequestsAreHonest /\ TasksAreHonest /\ LinesAreVetted
  BY <1>1, <1>2
  DEF RowsAreConsistent, RequestsAreHonest, TasksAreHonest, LinesAreVetted, PdfIsVetted
<1>6. QED
  BY <1>3, <1>4, <1>5 DEF IInv

LEMMA NextKeeps ==
    ASSUME IInv, [Next]_vars
    PROVE  IInv'
<1>1. CASE UNCHANGED vars
  BY <1>1
  DEF vars, workspace, counters, IInv, Types, TasksAreCounted, Asking, Busy, RowsAreConsistent,
      RequestsAreHonest, TasksAreHonest, LinesAreVetted, PdfIsVetted, Approved
<1>2. CASE WorkspaceStep
  BY <1>2, WorkspaceKeeps
<1>3. ASSUME NEW q \in Requests, NEW u \in Users, NEW o \in Orgs, NEW a \in Assessments,
             RequestReport(q, u, o, a)
      PROVE  IInv'
  BY <1>3, RequestReportKeeps
<1>4. ASSUME NEW q \in Requests, RequestStep(q) \/ RequestFails(q)
      PROVE  IInv'
  BY <1>4, RequestReadsKeeps, RequestCommitsKeeps, RequestEndsKeeps DEF RequestStep
<1>5. ASSUME NEW w \in Workers, NEW a \in Assessments, Take(w, a)
      PROVE  IInv'
  BY <1>5, TakeKeeps
<1>6. ASSUME NEW w \in Workers, Validate(w) \/ List(w) \/ Store(w) \/ Read(w) \/ Publish(w)
      PROVE  IInv'
  BY <1>6, TaskStepsKeep
<1>7. ASSUME NEW w \in Workers, Refuse(w) \/ Ack(w) \/ TaskFails(w) \/ Crash(w)
      PROVE  IInv'
  BY <1>7, TaskEndsKeeps
<1>8. QED
  BY <1>1, <1>2, <1>3, <1>4, <1>5, <1>6, <1>7 DEF Next, TaskStep

LEMMA ReportsAreGood == Spec => []IInv
BY InitGood, NextKeeps, PTL DEF Spec

\* The types of all variables, for any bounds: no queue ever holds more tasks
\* than reports were requested.
THEOREM TypeCorrect == Spec => []TypeOK
<1>1. ASSUME IInv
      PROVE  TypeOK
  <2>1. ASSUME NEW a \in Assessments
        PROVE  queue[a] \in 0 .. MaxRequests
    <3>1. queue[a] + Cardinality(Asking(a)) + Cardinality(Busy(a)) <= requests
      BY <1>1 DEF IInv, TasksAreCounted
    <3>2. requests <= MaxRequests
      BY <1>1, ReportsAssumption DEF IInv, Types
    <3>3. QED
      BY <1>1, <3>1, <3>2, CountsAreNumbers, ReportsAssumption
  <2>2. queue \in [Assessments -> 0 .. MaxRequests]
    BY <1>1, <2>1 DEF IInv, Types
  <2>3. QED
    BY <1>1, <2>2 DEF IInv, Types, TypeOK
<1>2. QED
  BY <1>1, ReportsAreGood, PTL

\* A reader who is told "published" gets a PDF of a completed assessment,
\* whatever stale rows overlapping requests, duplicates and redeliveries write.
THEOREM Downloadable == Spec => []PublishedIsDownloadable
<1>1. ASSUME IInv
      PROVE  PublishedIsDownloadable
  <2>1. ASSUME NEW a \in Assessments, report[a] # NoReport
        PROVE  /\ status[a] = "completed"
               /\ report[a].key <=> report[a].status = "published"
               /\ report[a].key => object[a] # NoPdf
    <3>1. /\ status[a] = "completed" /\ report[a] \in {Queued, Published}
          /\ report[a] = Published => object[a] # NoPdf
      BY <1>1, <2>1 DEF IInv, RowsAreConsistent
    <3>2. CASE report[a] = Queued
      BY <3>1, <3>2, UpdateEffect
    <3>3. CASE report[a] = Published
      BY <3>1, <3>3, UpdateEffect
    <3>4. QED
      BY <3>1, <3>2, <3>3
  <2>2. QED
    BY <2>1 DEF PublishedIsDownloadable
<1>2. QED
  BY <1>1, ReportsAreGood, PTL

\* Only text that a consultant approved is ever in storage.
THEOREM Vetted == Spec => []PdfIsVetted
<1>1. IInv => PdfIsVetted
  BY DEF IInv, LinesAreVetted
<1>2. QED
  BY <1>1, ReportsAreGood, PTL

\* Only the commits of requests and of tasks change a row.
LEMMA OthersLeaveReports ==
    ASSUME [Next]_vars
    PROVE  \/ report' = report
           \/ \E q \in Requests : RequestCommits(q)
           \/ \E w \in Workers : Publish(w)
<1>1. CASE UNCHANGED vars \/ WorkspaceStep
  BY <1>1 DEF vars, WorkspaceStep
<1>2. ASSUME NEW q \in Requests, NEW u \in Users, NEW o \in Orgs, NEW a \in Assessments,
             RequestReport(q, u, o, a)
      PROVE  report' = report
  BY <1>2 DEF RequestReport
<1>3. ASSUME NEW q \in Requests, RequestReads(q) \/ RequestEnqueues(q) \/ RequestFails(q)
      PROVE  report' = report
  BY <1>3 DEF RequestReads, RequestEnqueues, RequestFails
<1>4. ASSUME NEW w \in Workers, NEW a \in Assessments, Take(w, a)
      PROVE  report' = report
  BY <1>4 DEF Take
<1>5. ASSUME NEW w \in Workers,
             \/ Validate(w) \/ Refuse(w) \/ List(w) \/ Store(w) \/ Read(w)
             \/ Ack(w) \/ TaskFails(w) \/ Crash(w)
      PROVE  report' = report
  BY <1>5 DEF Validate, Refuse, List, Store, Read, Ack, TaskFails, Crash
<1>6. QED
  BY <1>1, <1>2, <1>3, <1>4, <1>5 DEF Next, RequestStep, TaskStep

\* A duplicate or a late commit never undoes another: only a request makes a
\* row "queued" again, only a task makes a queued row "published".
THEOREM Lifecycle == Spec => LifecycleIsHonoured
<1> DEFINE Honoured(a) ==
              report'[a] # report[a] =>
                 \/ report'[a] = Queued
                    /\ \E q \in Requests : req[q] # Free /\ req[q].asm = a /\ req'[q] # req[q]
                 \/ report[a] = Queued /\ report'[a] = Published
                    /\ \E w \in Workers : worker[w] # Free /\ worker[w].asm = a /\ worker'[w] # worker[w]
<1>1. ASSUME IInv, [Next]_vars, NEW a \in Assessments
      PROVE  Honoured(a)
  <2>1. CASE report' = report
    BY <2>1
  <2>2. ASSUME NEW q \in Requests, RequestCommits(q)
        PROVE  Honoured(a)
    <3>1. /\ req[q] # Free /\ req[q].asm \in Assessments
          /\ report' = report \/ report' = [report EXCEPT ![req[q].asm] = Queued]
      BY <1>1, <2>2, RequestCommitsEffect
    <3>2. req'[q] # req[q]
      <4>1. req[q].pc = "read" /\ req' = [req EXCEPT ![q].pc = "committed"]
        BY <2>2 DEF RequestCommits
      <4>2. req[q] \in Request /\ req \in [Requests -> Request \cup {Free}]
        BY <1>1, <3>1 DEF IInv, Types
      <4>3. req'[q].pc = "committed"
        BY <4>1, <4>2 DEF Request
      <4>4. QED
        BY <4>1, <4>3
    <3>3. report[a] # report'[a] => a = req[q].asm /\ report'[a] = Queued
      BY <1>1, <3>1 DEF IInv, Types
    <3>4. QED
      BY <3>1, <3>2, <3>3
  <2>3. ASSUME NEW w \in Workers, Publish(w)
        PROVE  Honoured(a)
    <3>1. /\ worker[w] # Free /\ worker[w].asm \in Assessments
          /\ report' = report \/ report' = [report EXCEPT ![worker[w].asm] = Published]
      BY <1>1, <2>3, PublishEffect
    <3>2. worker'[w] # worker[w]
      <4>1. worker[w].pc = "read" /\ worker' = [worker EXCEPT ![w].pc = "committed"]
        BY <2>3 DEF Publish
      <4>2. worker[w] \in Task /\ worker \in [Workers -> Task \cup {Free}]
        BY <1>1, <3>1 DEF IInv, Types
      <4>3. worker'[w].pc = "committed"
        BY <4>1, <4>2 DEF Task
      <4>4. QED
        BY <4>1, <4>3
    <3>3. report[a] # report'[a] => a = worker[w].asm /\ report'[a] = Published
      BY <1>1, <3>1 DEF IInv, Types
    <3>4. report[worker[w].asm] \in {Queued, Published}
      BY <1>1, <3>1 DEF IInv, TasksAreHonest, RowsAreConsistent
    <3>5. QED
      BY <3>1, <3>2, <3>3, <3>4
  <2>4. QED
    BY <1>1, <2>1, <2>2, <2>3, OthersLeaveReports
<1>2. ASSUME IInv, [Next]_vars
      PROVE  [\A a \in Assessments : Honoured(a)]_vars
  BY <1>1, <1>2
<1>3. Spec => [][\A a \in Assessments : Honoured(a)]_vars
  BY <1>2, ReportsAreGood, PTL DEF Spec
<1>4. QED
  BY <1>3 DEF LifecycleIsHonoured
=============================================================================
