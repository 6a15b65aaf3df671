------------------------------ MODULE Reports -------------------------------
(***************************************************************************)
(* Report publication (app/reports/service.py, app/api/v1/reports.py,      *)
(* app/worker/tasks.py): a request validates the approval gate, commits a  *)
(* "queued" row and then puts a task on the Celery queue; a worker         *)
(* validates again, lists the approved recommendations, renders them,      *)
(* stores the PDF under the one key of the assessment and commits the row  *)
(* as "published".  Consultants go on reviewing all the while: the steps   *)
(* of Workspace interleave with those of requests and workers.             *)
(*                                                                         *)
(* Broker and workers fail as Celery is configured to let them (acks_late, *)
(* reject_on_worker_lost): the task of a worker that dies is delivered     *)
(* again, the task of a handler that raises is acknowledged and gone.      *)
(***************************************************************************)
EXTENDS Rows

CONSTANTS
    Requests,     \* slots of API requests in flight
    Workers,      \* Celery worker processes
    MaxRequests,  \* bound on the report requests made
    MaxCrashes,   \* bound on the worker processes lost
    NoReport,     \* there is no report row
    NoPdf         \* there is no object under the key

VARIABLES
    status, recs,  \* the rows of Workspace
    report,        \* report[a]: the row "report:<a>", or NoReport
    object,        \* object[a]: the lines of the PDF stored under the key of a
    queue,         \* queue[a]: tasks for a that wait in the broker
    req,           \* req[q]: the API request in slot q
    worker,        \* worker[w]: the task that w runs
    requests,      \* report requests made so far
    crashes,       \* worker processes lost so far
    failures,      \* a request or a task has failed with an exception
    vetted         \* vetted[a]: history, the lines that were approved at some time

W == INSTANCE Workspace

workspace == <<status, recs, vetted>>
counters == <<requests, crashes, failures>>
vars == <<workspace, report, object, queue, req, worker, counters>>

ReportRow == [status : {"queued", "published"}, key : BOOLEAN]

Lines == Rules \X Texts

ASSUME ReportsAssumption ==
    /\ MaxRequests \in Nat
    /\ MaxCrashes \in Nat
    /\ NoReport \notin ReportRow
    /\ \A lines \in SUBSET Lines : NoPdf # lines

Free == [pc |-> "free"]

Request ==
    [pc : {"validated", "read", "committed"}, asm : Assessments, seen : ReportRow \cup {NoReport}]

Task ==
    [pc : {"taken", "validated", "listed", "stored", "read", "committed"},
     asm : Assessments, lines : SUBSET Lines, seen : ReportRow \cup {NoReport}]

TypeOK ==
    /\ status \in [Assessments -> Status]
    /\ recs \in [Assessments -> RowSets]
    /\ report \in [Assessments -> ReportRow \cup {NoReport}]
    /\ object \in [Assessments -> (SUBSET Lines) \cup {NoPdf}]
    /\ queue \in [Assessments -> 0 .. MaxRequests]
    /\ req \in [Requests -> Request \cup {Free}]
    /\ worker \in [Workers -> Task \cup {Free}]
    /\ requests \in 0 .. MaxRequests
    /\ crashes \in 0 .. MaxCrashes
    /\ failures \in BOOLEAN
    /\ vetted \in [Assessments -> SUBSET Lines]

Init ==
    /\ W!Init
    /\ report = [a \in Assessments |-> NoReport]
    /\ object = [a \in Assessments |-> NoPdf]
    /\ queue = [a \in Assessments |-> 0]
    /\ req = [q \in Requests |-> Free]
    /\ worker = [w \in Workers |-> Free]
    /\ requests = 0
    /\ crashes = 0
    /\ failures = FALSE
    /\ vetted = [a \in Assessments |-> {}]

-----------------------------------------------------------------------------
(* The approval gate and the report row. *)

Approved(rows) == {<<r, rows[r].text>> : r \in {x \in DOMAIN rows : rows[x].status = "approved"}}

Pending(a) == {r \in DOMAIN recs[a] : recs[a][r].status \in {"draft", "edited"}}

\* validate_publishable; the row of a completed assessment never changes, so
\* its two queries are one step.
Publishable(a) == status[a] = "completed" /\ Pending(a) = {}

Queued == [status |-> "queued", key |-> FALSE]

Published == [status |-> "published", key |-> TRUE]

\* Mutant of Update: the status is written even when it has not changed.
UpdateStatusAlways(row, seen, new) ==
    [status |-> new.status, key |-> IF new.key # seen.key THEN new.key ELSE row.key]

\* SqlReportRepository.save, the UPDATE: of the new row, the columns that differ
\* from the row read before.
Update(row, seen, new) ==
    [status |-> IF new.status # seen.status THEN new.status ELSE row.status,
     key    |-> IF new.key # seen.key THEN new.key ELSE row.key]

-----------------------------------------------------------------------------
(* POST /assessments/{id}/report *)

RequestReport(q, u, o, a) ==
    /\ req[q] = Free /\ requests < MaxRequests
    /\ HasPermission(u, "report:publish", o) /\ OrgOf[a] = o
    /\ Publishable(a)
    /\ req' = [req EXCEPT ![q] = [pc |-> "validated", asm |-> a, seen |-> NoReport]]
    /\ requests' = requests + 1
    /\ UNCHANGED <<workspace, report, object, queue, worker, crashes, failures>>

RequestReads(q) ==
    /\ req[q].pc = "validated"
    /\ req' = [req EXCEPT ![q].pc = "read", ![q].seen = report[req[q].asm]]
    /\ UNCHANGED <<workspace, report, object, queue, worker, counters>>

RequestCommits(q) ==
    LET a == req[q].asm
        seen == req[q].seen
    IN
    /\ req[q].pc = "read"
    /\ seen = NoReport => report[a] = NoReport
    /\ report' = [report EXCEPT ![a] = IF seen = NoReport THEN Queued ELSE Update(@, seen, Queued)]
    /\ req' = [req EXCEPT ![q].pc = "committed"]
    /\ UNCHANGED <<workspace, object, queue, worker, counters>>

\* The task is sent after the commit.
RequestEnqueues(q) ==
    /\ req[q].pc = "committed"
    /\ queue' = [queue EXCEPT ![req[q].asm] = @ + 1]
    /\ req' = [req EXCEPT ![q] = Free]
    /\ UNCHANGED <<workspace, report, object, worker, counters>>

\* Two first requests insert the same primary key and one gets an
\* IntegrityError; the process dies; the broker refuses the task.
RequestFails(q) ==
    /\ req[q] # Free
    /\ req' = [req EXCEPT ![q] = Free]
    /\ failures' = TRUE
    /\ UNCHANGED <<workspace, report, object, queue, worker, requests, crashes>>

-----------------------------------------------------------------------------
(* The task reports.generate *)

Take(w, a) ==
    /\ worker[w] = Free /\ queue[a] > 0
    /\ queue' = [queue EXCEPT ![a] = @ - 1]
    /\ worker' = [worker EXCEPT ![w] =
          [pc |-> "taken", asm |-> a, lines |-> {}, seen |-> NoReport]]
    /\ UNCHANGED <<workspace, report, object, req, counters>>

Validate(w) ==
    /\ worker[w].pc = "taken" /\ Publishable(worker[w].asm)
    /\ worker' = [worker EXCEPT ![w].pc = "validated"]
    /\ UNCHANGED <<workspace, report, object, queue, req, counters>>

\* Mutant of Refuse: the task that finds the gate closed resets the row.
RefuseResets(w) ==
    /\ worker[w].pc = "taken" /\ ~Publishable(worker[w].asm)
    /\ report' = [report EXCEPT ![worker[w].asm] = Queued]
    /\ worker' = [worker EXCEPT ![w] = Free]
    /\ UNCHANGED <<workspace, object, queue, req, counters>>

\* Conflict: the task fails and is acknowledged; nothing retries it, though it
\* declares max_retries, for only self.retry() or autoretry_for would.
Refuse(w) ==
    /\ worker[w].pc = "taken" /\ ~Publishable(worker[w].asm)
    /\ worker' = [worker EXCEPT ![w] = Free]
    /\ UNCHANGED <<workspace, report, object, queue, req, counters>>

\* Mutant of List: only the rejected recommendations are left out.
ListUnrejected(w) ==
    LET rows == recs[worker[w].asm]
        kept == {r \in DOMAIN rows : rows[r].status # "rejected"}
    IN
    /\ worker[w].pc = "validated"
    /\ worker' = [worker EXCEPT ![w].pc = "listed", ![w].lines = {<<r, rows[r].text>> : r \in kept}]
    /\ UNCHANGED <<workspace, report, object, queue, req, counters>>

\* The recommendations are listed anew, then rendered.
List(w) ==
    /\ worker[w].pc = "validated"
    /\ worker' = [worker EXCEPT ![w].pc = "listed", ![w].lines = Approved(recs[worker[w].asm])]
    /\ UNCHANGED <<workspace, report, object, queue, req, counters>>

Store(w) ==
    /\ worker[w].pc = "listed"
    /\ object' = [object EXCEPT ![worker[w].asm] = worker[w].lines]
    /\ worker' = [worker EXCEPT ![w].pc = "stored"]
    /\ UNCHANGED <<workspace, report, queue, req, counters>>

Read(w) ==
    /\ worker[w].pc = "stored"
    /\ worker' = [worker EXCEPT ![w].pc = "read", ![w].seen = report[worker[w].asm]]
    /\ UNCHANGED <<workspace, report, object, queue, req, counters>>

Publish(w) ==
    LET a == worker[w].asm IN
    /\ worker[w].pc = "read"
    /\ report' = [report EXCEPT ![a] = Update(@, worker[w].seen, Published)]
    /\ worker' = [worker EXCEPT ![w].pc = "committed"]
    /\ UNCHANGED <<workspace, object, queue, req, counters>>

Ack(w) ==
    /\ worker[w].pc = "committed"
    /\ worker' = [worker EXCEPT ![w] = Free]
    /\ UNCHANGED <<workspace, report, object, queue, req, counters>>

\* The renderer, the storage or the database raises: rolled back, acknowledged.
TaskFails(w) ==
    /\ worker[w].pc \in {"validated", "listed", "stored", "read"}
    /\ worker' = [worker EXCEPT ![w] = Free]
    /\ failures' = TRUE
    /\ UNCHANGED <<workspace, report, object, queue, req, requests, crashes>>

\* Mutant of Crash: the task was acknowledged when it was taken (no acks_late).
CrashForgets(w) ==
    /\ worker[w] # Free /\ crashes < MaxCrashes
    /\ crashes' = crashes + 1
    /\ worker' = [worker EXCEPT ![w] = Free]
    /\ UNCHANGED <<workspace, report, object, queue, req, requests, failures>>

\* Mutant of Crash: the broker and the retry both deliver the task again.
CrashDeliversTwice(w) ==
    /\ worker[w] # Free /\ crashes < MaxCrashes
    /\ crashes' = crashes + 1
    /\ queue' = [queue EXCEPT ![worker[w].asm] = @ + 2]
    /\ worker' = [worker EXCEPT ![w] = Free]
    /\ UNCHANGED <<workspace, report, object, req, requests, failures>>

\* The worker process dies before it acknowledges: the broker delivers again.
Crash(w) ==
    /\ worker[w] # Free /\ crashes < MaxCrashes
    /\ crashes' = crashes + 1
    /\ queue' = [queue EXCEPT ![worker[w].asm] = @ + 1]
    /\ worker' = [worker EXCEPT ![w] = Free]
    /\ UNCHANGED <<workspace, report, object, req, requests, failures>>

-----------------------------------------------------------------------------
WorkspaceStep ==
    /\ W!Next
    /\ vetted' = [a \in Assessments |-> vetted[a] \cup Approved(recs'[a])]
    /\ UNCHANGED <<report, object, queue, req, worker, counters>>

RequestStep(q) == RequestReads(q) \/ RequestCommits(q) \/ RequestEnqueues(q)

TaskStep(w) ==
    \/ \E a \in Assessments : Take(w, a)
    \/ Validate(w) \/ Refuse(w) \/ List(w) \/ Store(w) \/ Read(w) \/ Publish(w) \/ Ack(w)

Next ==
    \/ WorkspaceStep
    \/ \E q \in Requests :
          \/ \E u \in Users, o \in Orgs, a \in Assessments : RequestReport(q, u, o, a)
          \/ RequestStep(q) \/ RequestFails(q)
    \/ \E w \in Workers : TaskStep(w) \/ TaskFails(w) \/ Crash(w)

Spec == Init /\ [][Next]_vars

\* Threads of the API and worker processes are scheduled; nobody has to ask for
\* a report or to review a recommendation.
FairSpec ==
    /\ Spec
    /\ \A q \in Requests : WF_vars(RequestStep(q))
    /\ \A w \in Workers : WF_vars(TaskStep(w))

-----------------------------------------------------------------------------
(* Properties *)

\* A reader who is told "published" gets a PDF: the row names the key exactly
\* when it says so, the object is there, and the assessment was completed,
\* whatever stale rows overlapping requests, duplicate tasks and redeliveries
\* write back (get_report signs the key; save() writes changed columns only).
PublishedIsDownloadable ==
    \A a \in Assessments : report[a] # NoReport =>
        /\ status[a] = "completed"
        /\ report[a].key <=> report[a].status = "published"
        /\ report[a].key => object[a] # NoPdf

\* Only text that a consultant has approved is ever in storage, although the
\* object is written before the row is committed and the tasks race with
\* reviews (Recommendation: "only 'approved' ones reach a published report").
PdfIsVetted ==
    \A a \in Assessments : object[a] # NoPdf => object[a] \subseteq vetted[a]

\* A report is published only by a task, and goes back to "queued" only by a
\* request: a duplicate or a late commit never undoes the other.
LifecycleIsHonoured ==
    [][\A a \in Assessments : report'[a] # report[a] =>
         \/ report'[a] = Queued /\ \E q \in Requests : req[q] # Free /\ req[q].asm = a /\ req'[q] # req[q]
         \/ report[a] = Queued /\ report'[a] = Published
               /\ \E w \in Workers : worker[w] # Free /\ worker[w].asm = a /\ worker'[w] # worker[w]]_vars

\* Tasks are not lost by crashes ("don't lose a job if a worker dies
\* mid-render"): a task in the queue of an assessment that reviewers leave
\* alone ends in a published report, unless some handler raises.
CrashesLoseNoReport ==
    \A a \in Assessments :
        [](queue[a] > 0 /\ []Publishable(a) => <>(report[a] = Published \/ failures))

-----------------------------------------------------------------------------
(* Statements of the source that the code does not satisfy. *)

\* "a report cannot be published while any recommendation is still awaiting
\* consultant review" (validate_publishable).
GateHolds ==
    [][\A a \in Assessments :
         report[a] # Published /\ report'[a] = Published => Pending(a) = {}]_vars

\* "The worker flips the report to 'published'", "the client polls until
\* published" (reports.py): a queued report gets published, if the reviewers
\* end with every recommendation decided and no handler raises.
QueuedIsPublished ==
    \A a \in Assessments :
        <>[]Publishable(a) => (report[a] = Queued ~> (report[a] = Published \/ failures))
=============================================================================
