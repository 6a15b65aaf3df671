----------------------------- MODULE Documents ------------------------------
(***************************************************************************)
(* Documents (app/services/document_service.py, app/api/v1/documents.py,   *)
(* app/domain/uploads.py, scan_document in app/worker/tasks.py): an upload *)
(* is validated, its object is stored, its row is committed as "pending"   *)
(* and then a scan task is sent; a worker makes the row "clean"; a         *)
(* download signs a link to the object of a clean row.  Every step of the  *)
(* chain may be the last one of its request or of its worker process.      *)
(***************************************************************************)
EXTENDS Access, Naturals, FiniteSets

CONSTANTS
    Docs,         \* the document ids that uploads may mint
    Assessments,  \* the assessments, which exist all along
    OrgOf,        \* OrgOf[a]: the organization that owns assessment a
    Workers,      \* Celery worker processes
    MaxBytes,     \* max_upload_bytes
    MaxCrashes,   \* bound on the worker processes lost
    NoRow         \* there is no documents row, no object, no task, no document

VARIABLES
    object,   \* object[d]: the object under the storage key of d
    row,      \* row[d]: the documents row
    upload,   \* upload[d]: the request that uploads d
    queue,    \* queue[d]: scan tasks for d that wait in the broker
    worker,   \* worker[w]: the task that w runs
    links,    \* the signed links that have not expired
    failed,   \* the documents whose scan has failed with an exception
    crashes   \* worker processes lost so far

vars == <<object, row, upload, queue, worker, links, failed, crashes>>

-----------------------------------------------------------------------------
(* validate_upload *)

MimeTypes == {"pdf", "wordprocessing", "zip", "octet-stream", "html"}

\* A file as it arrives: its name, what the client says, how it begins, its size.
File == [ext : {"pdf", "docx", "exe"}, declared : MimeTypes, magic : {"%PDF", "PK", "MZ"},
         size : 0 .. MaxBytes + 1]

AllowedTypes == [pdf |-> {"pdf"}, docx |-> {"wordprocessing", "zip", "octet-stream"}]

Magic == [pdf |-> "%PDF", docx |-> "PK"]

\* Mutant of Accepts: a declared type is trusted, the first bytes are not read.
AcceptsDeclared(f) ==
    /\ f.size \in 1 .. MaxBytes
    /\ f.ext \in DOMAIN Magic /\ f.declared \in AllowedTypes[f.ext]

\* More than MaxBytes is refused with 413, the rest with 422.
Accepts(f) ==
    /\ f.size \in 1 .. MaxBytes
    /\ f.ext \in DOMAIN Magic /\ f.declared \in AllowedTypes[f.ext]
    /\ f.magic = Magic[f.ext]

-----------------------------------------------------------------------------
Object == [type : MimeTypes, magic : {"%PDF", "PK", "MZ"}, size : Nat]

DocumentRow == [org : Orgs, asm : Assessments, type : MimeTypes, size : Nat,
                scan : {"pending", "clean"}]

Upload == [pc : {"stored", "committed", "done", "failed"}, user : Users, org : Orgs, asm : Assessments]

Task == [pc : {"taken", "read", "committed"}, doc : Docs, scope : Orgs]

Link == [doc : Docs, user : Users, org : Orgs]

ASSUME DocumentsAssumption ==
    /\ OrgOf \in [Assessments -> Orgs]
    /\ MaxBytes \in Nat
    /\ MaxCrashes \in Nat
    /\ NoRow \notin Object \cup DocumentRow \cup Upload \cup Task
    /\ NoRow \notin [org : Orgs, scan : {"pending", "clean"}]

TypeOK ==
    /\ object \in [Docs -> Object \cup {NoRow}]
    /\ row \in [Docs -> DocumentRow \cup {NoRow}]
    /\ upload \in [Docs -> Upload \cup {NoRow}]
    /\ queue \in [Docs -> 0 .. 2]
    /\ worker \in [Workers -> Task \cup {NoRow}]
    /\ links \in SUBSET Link
    /\ failed \in SUBSET Docs
    /\ crashes \in 0 .. MaxCrashes

Init ==
    /\ object = [d \in Docs |-> NoRow]
    /\ row = [d \in Docs |-> NoRow]
    /\ upload = [d \in Docs |-> NoRow]
    /\ queue = [d \in Docs |-> 0]
    /\ worker = [w \in Workers |-> NoRow]
    /\ links = {}
    /\ failed = {}
    /\ crashes = 0

-----------------------------------------------------------------------------
(* POST /assessments/{id}/documents *)

\* The type that is recorded is next(iter(...)) of the types allowed: of a set
\* of strings, so that it depends on the hash seed of the process.
UploadStores(d, u, o, a) ==
    /\ upload[d] = NoRow
    /\ HasPermission(u, "assessment:complete", o) /\ OrgOf[a] = o
    /\ \E f \in File : Accepts(f) /\ \E t \in AllowedTypes[f.ext] :
          object' = [object EXCEPT ![d] = [type |-> t, magic |-> f.magic, size |-> f.size]]
    /\ upload' = [upload EXCEPT ![d] = [pc |-> "stored", user |-> u, org |-> o, asm |-> a]]
    /\ UNCHANGED <<row, queue, worker, links, failed, crashes>>

NewRow(d) ==
    [org |-> upload[d].org, asm |-> upload[d].asm, type |-> object[d].type,
     size |-> object[d].size, scan |-> "pending"]

UploadCommits(d) ==
    /\ upload[d] # NoRow /\ upload[d].pc = "stored"
    /\ row' = [row EXCEPT ![d] = NewRow(d)]
    /\ upload' = [upload EXCEPT ![d].pc = "committed"]
    /\ UNCHANGED <<object, queue, worker, links, failed, crashes>>

\* Mutant of UploadEnqueues: the task is sent before the commit.
UploadEnqueuesEarly(d) ==
    /\ upload[d] # NoRow /\ upload[d].pc \in {"stored", "committed"}
    /\ \E n \in 1 .. 2 : queue' = [queue EXCEPT ![d] = n]
    /\ upload' = [upload EXCEPT ![d].pc = "done"]
    /\ UNCHANGED <<object, row, worker, links, failed, crashes>>

\* A publication that Celery retries may be delivered twice.
UploadEnqueues(d) ==
    /\ upload[d] # NoRow /\ upload[d].pc = "committed"
    /\ \E n \in 1 .. 2 : queue' = [queue EXCEPT ![d] = n]
    /\ upload' = [upload EXCEPT ![d].pc = "done"]
    /\ UNCHANGED <<object, row, worker, links, failed, crashes>>

\* Mutant of UploadFails: a cleanup deletes the object, whether or not its row
\* has been committed.
UploadFailsCleaning(d) ==
    /\ upload[d] # NoRow /\ upload[d].pc \in {"stored", "committed"}
    /\ object' = [object EXCEPT ![d] = NoRow]
    /\ upload' = [upload EXCEPT ![d].pc = "failed"]
    /\ UNCHANGED <<row, queue, worker, links, failed, crashes>>

\* The database or the broker refuses, or the process dies: the object stays
\* without a row, or the row without a task; no code comes back to either.
UploadFails(d) ==
    /\ upload[d] # NoRow /\ upload[d].pc \in {"stored", "committed"}
    /\ upload' = [upload EXCEPT ![d].pc = "failed"]
    /\ UNCHANGED <<object, row, queue, worker, links, failed, crashes>>

-----------------------------------------------------------------------------
(* The task documents.scan *)

\* The task carries the organization of the caller, which scopes its session.
Take(w, d) ==
    /\ worker[w] = NoRow /\ queue[d] > 0
    /\ queue' = [queue EXCEPT ![d] = @ - 1]
    /\ worker' = [worker EXCEPT ![w] = [pc |-> "taken", doc |-> d, scope |-> upload[d].org]]
    /\ UNCHANGED <<object, row, upload, links, failed, crashes>>

Visible(w) == row[worker[w].doc] # NoRow /\ row[worker[w].doc].org = worker[w].scope

ScanReads(w) ==
    /\ worker[w] # NoRow /\ worker[w].pc = "taken" /\ Visible(w)
    /\ worker' = [worker EXCEPT ![w].pc = "read"]
    /\ UNCHANGED <<object, row, upload, queue, links, failed, crashes>>

\* The stub approves whatever it is given.
ScanCommits(w) ==
    /\ worker[w] # NoRow /\ worker[w].pc = "read"
    /\ row' = [row EXCEPT ![worker[w].doc].scan = "clean"]
    /\ worker' = [worker EXCEPT ![w].pc = "committed"]
    /\ UNCHANGED <<object, upload, queue, links, failed, crashes>>

Ack(w) ==
    /\ worker[w] # NoRow /\ worker[w].pc = "committed"
    /\ worker' = [worker EXCEPT ![w] = NoRow]
    /\ UNCHANGED <<object, row, upload, queue, links, failed, crashes>>

\* The handler raises: rolled back and acknowledged, for nothing calls retry().
ScanFails(w) ==
    /\ worker[w] # NoRow /\ worker[w].pc \in {"taken", "read"}
    /\ failed' = failed \cup {worker[w].doc}
    /\ worker' = [worker EXCEPT ![w] = NoRow]
    /\ UNCHANGED <<object, row, upload, queue, links, crashes>>

\* Mutant of Crash: the task was acknowledged when it was taken (no acks_late).
CrashForgets(w) ==
    /\ worker[w] # NoRow /\ crashes < MaxCrashes
    /\ crashes' = crashes + 1
    /\ worker' = [worker EXCEPT ![w] = NoRow]
    /\ UNCHANGED <<object, row, upload, queue, links, failed>>

\* Mutant of Crash: the broker and the retry both deliver the task again.
CrashDeliversTwice(w) ==
    /\ worker[w] # NoRow /\ crashes < MaxCrashes
    /\ crashes' = crashes + 1
    /\ queue' = [queue EXCEPT ![worker[w].doc] = @ + 2]
    /\ worker' = [worker EXCEPT ![w] = NoRow]
    /\ UNCHANGED <<object, row, upload, links, failed>>

\* The worker process dies before it acknowledges: the broker delivers again.
Crash(w) ==
    /\ worker[w] # NoRow /\ crashes < MaxCrashes
    /\ crashes' = crashes + 1
    /\ queue' = [queue EXCEPT ![worker[w].doc] = @ + 1]
    /\ worker' = [worker EXCEPT ![w] = NoRow]
    /\ UNCHANGED <<object, row, upload, links, failed>>

-----------------------------------------------------------------------------
(* GET /documents/{id}/download *)

\* Mutant of Download: the gate stops infected documents only.
DownloadUninfected(d, u, o) ==
    /\ HasPermission(u, "assessment:read", o)
    /\ row[d] # NoRow /\ row[d].org = o /\ row[d].scan # "infected"
    /\ links' = links \cup {[doc |-> d, user |-> u, org |-> o]}
    /\ UNCHANGED <<object, row, upload, queue, worker, failed, crashes>>

Download(d, u, o) ==
    /\ HasPermission(u, "assessment:read", o)
    /\ row[d] # NoRow /\ row[d].org = o /\ row[d].scan = "clean"
    /\ links' = links \cup {[doc |-> d, user |-> u, org |-> o]}
    /\ UNCHANGED <<object, row, upload, queue, worker, failed, crashes>>

LinkExpires(l) ==
    /\ links' = links \ {l}
    /\ UNCHANGED <<object, row, upload, queue, worker, failed, crashes>>

-----------------------------------------------------------------------------
UploadStep(d) == UploadCommits(d) \/ UploadEnqueues(d)

TaskStep(w) == (\E d \in Docs : Take(w, d)) \/ ScanReads(w) \/ ScanCommits(w) \/ Ack(w)

Next ==
    \/ \E d \in Docs :
          \/ \E u \in Users, o \in Orgs :
                Download(d, u, o) \/ \E a \in Assessments : UploadStores(d, u, o, a)
          \/ UploadStep(d) \/ UploadFails(d)
    \/ \E w \in Workers : TaskStep(w) \/ ScanFails(w) \/ Crash(w)
    \/ \E l \in links : LinkExpires(l)

Spec == Init /\ [][Next]_vars

\* Worker processes are scheduled and the broker hands out what it has; an
\* upload may stop anywhere, so that its steps need no fairness.
FairSpec == Spec /\ \A w \in Workers : WF_vars(TaskStep(w))

-----------------------------------------------------------------------------
(* Properties *)

\* Who holds a link gets a file of the type that was vetted, out of the caller's
\* organization, after its scan (security-review: "extension + MIME + magic
\* bytes", "never servable until a scan marks it clean"): the link is made from
\* the row alone, the object was stored by another request long before.
ServedAreVetted ==
    \A l \in links :
        /\ row[l.doc] # NoRow /\ row[l.doc].org = l.org /\ row[l.doc].scan = "clean"
        /\ OrgOf[row[l.doc].asm] = l.org
        /\ object[l.doc] # NoRow
        /\ \E ext \in DOMAIN Magic :
              object[l.doc].magic = Magic[ext] /\ object[l.doc].type \in AllowedTypes[ext]

\* A committed row never names a missing object, wherever its upload stopped;
\* the converse does not hold, as no code collects the objects of failed uploads.
RowsNameObjects ==
    \A d \in Docs : row[d] # NoRow =>
        /\ object[d] # NoRow
        /\ row[d].type = object[d].type /\ row[d].size = object[d].size
        /\ upload[d].pc \in {"committed", "done", "failed"}

\* A scan task, also one that was delivered twice or again, finds its row under
\* the row-level security of its own session.
TasksFindTheirRow ==
    /\ \A w \in Workers : worker[w] # NoRow => Visible(w)
    /\ \A d \in Docs : queue[d] > 0 => row[d] # NoRow /\ row[d].org = upload[d].org

\* "don't lose a job if a worker dies": a document whose task reached the broker
\* becomes clean, whichever workers die, unless a handler raises.
CrashesLoseNoScan ==
    \A d \in Docs :
        queue[d] > 0 ~> (row[d] # NoRow /\ row[d].scan = "clean") \/ d \in failed

Gate ==
    INSTANCE ScanGate WITH
        NoDoc <- NoRow,
        doc <- [d \in Docs |-> IF row[d] = NoRow THEN NoRow
                               ELSE [org |-> row[d].org, scan |-> row[d].scan]],
        served <- {<<l.org, l.doc>> : l \in links}

\* Uploads, tasks and downloads together keep the promise of ScanGate.
ImplementsScanGate == Gate!Spec
=============================================================================
