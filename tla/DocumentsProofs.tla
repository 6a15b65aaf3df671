-------------------------- MODULE DocumentsProofs ---------------------------
(***************************************************************************)
(* Theorems about Documents, for any tenants, roles, files, workers and    *)
(* number of lost workers.                                                 *)
(***************************************************************************)
EXTENDS Documents, FiniteSetTheorems, TLAPS

-----------------------------------------------------------------------------
(* The inductive invariant *)

\* TypeOK without its bounds, which no other part of this invariant rests on.
Types ==
    /\ object \in [Docs -> Object \cup {NoRow}]
    /\ row \in [Docs -> DocumentRow \cup {NoRow}]
    /\ upload \in [Docs -> Upload \cup {NoRow}]
    /\ queue \in [Docs -> Nat]
    /\ worker \in [Workers -> Task \cup {NoRow}]
    /\ links \in SUBSET Link

\* What validate_upload lets through.
IsVetted(o) ==
    \E ext \in DOMAIN Magic : o.magic = Magic[ext] /\ o.type \in AllowedTypes[ext]

\* An upload that has begun has stored a vetted object, for an assessment of
\* its organization, and no row before it commits.
UploadsStoreFirst ==
    \A d \in Docs : upload[d] # NoRow =>
        /\ object[d] # NoRow /\ IsVetted(object[d])
        /\ OrgOf[upload[d].asm] = upload[d].org
        /\ upload[d].pc = "stored" => row[d] = NoRow
        /\ upload[d].pc \in {"committed", "done"} => row[d] # NoRow

\* A row is what its upload wanted, about the object that it stored.
RowsComeFromUploads ==
    \A d \in Docs : row[d] # NoRow =>
        /\ upload[d] # NoRow /\ upload[d].pc # "stored"
        /\ row[d].org = upload[d].org /\ row[d].asm = upload[d].asm
        /\ row[d].type = object[d].type /\ row[d].size = object[d].size

LinksAreToCleanRows ==
    \A l \in links :
        row[l.doc] # NoRow /\ row[l.doc].org = l.org /\ row[l.doc].scan = "clean"

IInv ==
    /\ Types
    /\ UploadsStoreFirst
    /\ RowsComeFromUploads
    /\ TasksFindTheirRow
    /\ LinksAreToCleanRows

-----------------------------------------------------------------------------
(* Lemmas about single steps *)

\* An accepted file makes a vetted object, whatever type is recorded.
LEMMA AcceptedIsVetted ==
    ASSUME NEW f \in File, Accepts(f), NEW t \in AllowedTypes[f.ext]
    PROVE  LET o == [type |-> t, magic |-> f.magic, size |-> f.size]
           IN o \in Object /\ IsVetted(o)
<1>1. f.ext \in DOMAIN Magic /\ f.magic = Magic[f.ext]
  BY DEF Accepts
<1>2. f.ext \in {"pdf", "docx"}
  BY <1>1 DEF Magic
<1>3. t \in MimeTypes
  BY <1>2 DEF AllowedTypes, MimeTypes
<1>4. f.magic \in {"%PDF", "PK", "MZ"} /\ f.size \in Nat
  BY DocumentsAssumption DEF File
<1>5. QED
  BY <1>1, <1>3, <1>4 DEF Object, IsVetted

\* An upload that stores keeps the invariant.
LEMMA StoresKeeps ==
    ASSUME IInv, NEW d \in Docs, NEW u \in Users, NEW o \in Orgs, NEW a \in Assessments,
           UploadStores(d, u, o, a)
    PROVE  IInv'
<1>1. PICK obj \in Object : IsVetted(obj) /\ object' = [object EXCEPT ![d] = obj]
  BY AcceptedIsVetted DEF UploadStores
<1>2. DEFINE up == [pc |-> "stored", user |-> u, org |-> o, asm |-> a]
<1>3. /\ upload[d] = NoRow /\ OrgOf[a] = o /\ upload' = [upload EXCEPT ![d] = up]
      /\ UNCHANGED <<row, queue, worker, links>>
  BY DEF UploadStores
<1>4. up \in Upload /\ up.pc = "stored" /\ up.org = o /\ up.asm = a
  BY DEF Upload
<1> HIDE DEF up
<1>5. Types'
  BY <1>1, <1>3, <1>4 DEF IInv, Types
<1>6. row[d] = NoRow
  BY <1>3 DEF IInv, RowsComeFromUploads
<1>7. \A e \in Docs : e # d => upload'[e] = upload[e] /\ object'[e] = object[e]
  BY <1>1, <1>3 DEF IInv, Types
<1>8. upload'[d] = up /\ object'[d] = obj
  BY <1>1, <1>3 DEF IInv, Types
<1>9. UploadsStoreFirst'
  <2>1. obj # NoRow
    BY <1>1, DocumentsAssumption
  <2>2. QED
    BY <1>1, <1>3, <1>4, <1>6, <1>7, <1>8, <2>1 DEF IInv, UploadsStoreFirst
<1>10. RowsComeFromUploads'
  BY <1>3, <1>6, <1>7 DEF IInv, RowsComeFromUploads
<1>11. TasksFindTheirRow'
  BY <1>3, <1>6, <1>7 DEF IInv, TasksFindTheirRow, Visible
<1>12. LinksAreToCleanRows'
  BY <1>3 DEF IInv, LinksAreToCleanRows
<1>13. QED
  BY <1>5, <1>9, <1>10, <1>11, <1>12 DEF IInv

\* An upload that commits keeps the invariant.
LEMMA CommitsKeeps ==
    ASSUME IInv, NEW d \in Docs, UploadCommits(d)
    PROVE  IInv'
<1>1. /\ upload[d] # NoRow /\ upload[d].pc = "stored"
      /\ row' = [row EXCEPT ![d] = NewRow(d)]
      /\ upload' = [upload EXCEPT ![d].pc = "committed"]
      /\ UNCHANGED <<object, queue, worker, links>>
  BY DEF UploadCommits
<1>2. upload[d] \in Upload /\ object[d] \in Object /\ row[d] = NoRow
  BY <1>1 DEF IInv, Types, UploadsStoreFirst
<1>3. /\ NewRow(d) \in DocumentRow /\ NewRow(d).org = upload[d].org /\ NewRow(d).asm = upload[d].asm
      /\ NewRow(d).type = object[d].type /\ NewRow(d).size = object[d].size
      /\ NewRow(d).scan = "pending"
  BY <1>2 DEF NewRow, DocumentRow, Upload, Object
<1>4. /\ row'[d] = NewRow(d) /\ \A e \in Docs : e # d => row'[e] = row[e]
  BY <1>1 DEF IInv, Types
<1>5. /\ upload'[d] = [upload[d] EXCEPT !.pc = "committed"]
      /\ \A e \in Docs : e # d => upload'[e] = upload[e]
  BY <1>1 DEF IInv, Types
<1>6. upload'[d] \in Upload /\ upload'[d].pc = "committed" /\ upload'[d].org = upload[d].org
      /\ upload'[d].asm = upload[d].asm
  BY <1>2, <1>5 DEF Upload
<1>7. NewRow(d) # NoRow /\ upload'[d] # NoRow
  BY <1>3, <1>6, DocumentsAssumption
<1>8. Types'
  BY <1>1, <1>3, <1>5, <1>6 DEF IInv, Types
<1>9. UploadsStoreFirst'
  BY <1>1, <1>4, <1>5, <1>6, <1>7 DEF IInv, UploadsStoreFirst
<1>10. RowsComeFromUploads'
  BY <1>1, <1>3, <1>4, <1>5, <1>6, <1>7 DEF IInv, RowsComeFromUploads
<1>11. TasksFindTheirRow'
  <2>1. queue[d] = 0
    BY <1>2 DEF IInv, Types, TasksFindTheirRow
  <2>2. \A w \in Workers : worker[w] # NoRow => worker[w].doc # d /\ worker[w].doc \in Docs
    BY <1>2 DEF IInv, Types, TasksFindTheirRow, Visible, Task
  <2>3. QED
    BY <1>1, <1>4, <1>5, <2>1, <2>2 DEF IInv, TasksFindTheirRow, Visible
<1>12. LinksAreToCleanRows'
  <2>1. \A l \in links : l.doc # d /\ l.doc \in Docs
    BY <1>2 DEF IInv, Types, LinksAreToCleanRows, Link
  <2>2. QED
    BY <1>1, <1>4, <2>1 DEF IInv, LinksAreToCleanRows
<1>13. QED
  BY <1>8, <1>9, <1>10, <1>11, <1>12 DEF IInv

\* The end of an upload, good or bad, keeps the invariant.
LEMMA UploadEndKeeps ==
    ASSUME IInv, NEW d \in Docs, upload[d] # NoRow, NEW end \in {"done", "failed"},
           end = "done" => upload[d].pc = "committed",
           upload' = [upload EXCEPT ![d].pc = end],
           NEW n \in Nat, queue' = [queue EXCEPT ![d] = n],
           n > 0 => upload[d].pc = "committed" \/ queue[d] > 0,
           UNCHANGED <<object, row, worker, links>>
    PROVE  IInv'
<1>1. upload[d] \in Upload
  BY DEF IInv, Types
<1>2. /\ upload'[d] = [upload[d] EXCEPT !.pc = end]
      /\ \A e \in Docs : e # d => upload'[e] = upload[e]
  BY DEF IInv, Types
<1>3. upload'[d] \in Upload /\ upload'[d].pc = end /\ upload'[d].org = upload[d].org
      /\ upload'[d].asm = upload[d].asm
  BY <1>1, <1>2 DEF Upload
<1>4. Types'
  BY <1>2, <1>3 DEF IInv, Types
<1>5. UploadsStoreFirst'
  BY <1>2, <1>3 DEF IInv, UploadsStoreFirst
<1>6. upload'[d] # NoRow
  BY <1>3, DocumentsAssumption
<1>7. RowsComeFromUploads'
  BY <1>2, <1>3, <1>6 DEF IInv, RowsComeFromUploads
<1>8. TasksFindTheirRow'
  <2>1. n > 0 => row[d] # NoRow /\ row[d].org = upload[d].org
    BY DEF IInv, UploadsStoreFirst, RowsComeFromUploads, TasksFindTheirRow
  <2>2. queue'[d] = n /\ \A e \in Docs : e # d => queue'[e] = queue[e]
    BY DEF IInv, Types
  <2>3. QED
    BY <1>2, <1>3, <2>1, <2>2 DEF IInv, TasksFindTheirRow, Visible
<1>9. LinksAreToCleanRows'
  BY DEF IInv, LinksAreToCleanRows
<1>10. QED
  BY <1>4, <1>5, <1>7, <1>8, <1>9 DEF IInv

\* A step of a worker that leaves all rows alone keeps the invariant, if the
\* tasks it leaves behind were there before.
LEMMA WorkerKeeps ==
    ASSUME IInv, UNCHANGED <<object, row, upload, links>>,
           queue' \in [Docs -> Nat], worker' \in [Workers -> Task \cup {NoRow}],
           \A d \in Docs : queue'[d] > 0 =>
               queue[d] > 0 \/ \E w \in Workers : worker[w] # NoRow /\ worker[w].doc = d,
           \A w \in Workers : worker'[w] # NoRow =>
               \/ worker[w] # NoRow /\ worker'[w].doc = worker[w].doc /\ worker'[w].scope = worker[w].scope
               \/ queue[worker'[w].doc] > 0 /\ worker'[w].scope = upload[worker'[w].doc].org
    PROVE  IInv'
<1>1. Types' /\ UploadsStoreFirst' /\ RowsComeFromUploads' /\ LinksAreToCleanRows'
  BY DEF IInv, Types, UploadsStoreFirst, RowsComeFromUploads, LinksAreToCleanRows
<1>2. \A w \in Workers : worker'[w] # NoRow => worker'[w].doc \in Docs
  BY DEF Task
<1>3. TasksFindTheirRow'
  <2>1. ASSUME NEW w \in Workers, worker'[w] # NoRow
        PROVE  row[worker'[w].doc] # NoRow /\ row[worker'[w].doc].org = worker'[w].scope
    BY <1>2, <2>1 DEF IInv, TasksFindTheirRow, Visible
  <2>2. ASSUME NEW d \in Docs, queue'[d] > 0
        PROVE  row[d] # NoRow /\ row[d].org = upload[d].org
    BY <2>2 DEF IInv, TasksFindTheirRow, Visible, RowsComeFromUploads
  <2>3. QED
    BY <2>1, <2>2 DEF TasksFindTheirRow, Visible
<1>4. QED
  BY <1>1, <1>3 DEF IInv

\* The commit of a scan keeps the invariant.
LEMMA ScanCommitsKeeps ==
    ASSUME IInv, NEW w \in Workers, ScanCommits(w)
    PROVE  IInv'
<1> DEFINE d == worker[w].doc
<1>1. /\ worker[w] # NoRow
      /\ row' = [row EXCEPT ![d].scan = "clean"]
      /\ worker' = [worker EXCEPT ![w].pc = "committed"]
      /\ UNCHANGED <<object, upload, queue, links>>
  BY DEF ScanCommits
<1>2. worker[w] \in Task /\ d \in Docs
  BY <1>1 DEF IInv, Types, Task
<1>3. row[d] # NoRow /\ row[d] \in DocumentRow
  BY <1>1, <1>2 DEF IInv, Types, TasksFindTheirRow, Visible
<1>4. /\ row'[d] = [row[d] EXCEPT !.scan = "clean"]
      /\ \A e \in Docs : e # d => row'[e] = row[e]
  BY <1>1, <1>2 DEF IInv, Types
<1>5. /\ row'[d] \in DocumentRow /\ row'[d].scan = "clean" /\ row'[d].org = row[d].org
      /\ row'[d].asm = row[d].asm /\ row'[d].type = row[d].type /\ row'[d].size = row[d].size
  BY <1>3, <1>4 DEF DocumentRow
<1>6. row'[d] # NoRow
  BY <1>5, DocumentsAssumption
<1>7. /\ worker'[w] = [worker[w] EXCEPT !.pc = "committed"]
      /\ \A v \in Workers : v # w => worker'[v] = worker[v]
  BY <1>1 DEF IInv, Types
<1>8. worker'[w] \in Task /\ worker'[w].doc = d /\ worker'[w].scope = worker[w].scope
  BY <1>2, <1>7 DEF Task
<1> HIDE DEF d
<1>9. Types'
  BY <1>1, <1>2, <1>4, <1>5, <1>7, <1>8 DEF IInv, Types
<1>10. UploadsStoreFirst'
  BY <1>1, <1>2, <1>3, <1>4, <1>6 DEF IInv, UploadsStoreFirst
<1>11. RowsComeFromUploads'
  BY <1>1, <1>3, <1>4, <1>5 DEF IInv, RowsComeFromUploads
<1>12. \A e \in Docs : row[e] # NoRow => row'[e] # NoRow /\ row'[e].org = row[e].org
  BY <1>4, <1>5, <1>6
<1>13. TasksFindTheirRow'
  <2>1. ASSUME NEW v \in Workers, worker'[v] # NoRow
        PROVE  row'[worker'[v].doc] # NoRow /\ row'[worker'[v].doc].org = worker'[v].scope
    <3>1. worker[v] # NoRow /\ worker'[v].doc = worker[v].doc /\ worker'[v].scope = worker[v].scope
      BY <1>1, <1>7, <1>8, <2>1 DEF d
    <3>2. worker[v].doc \in Docs
      BY <3>1 DEF IInv, Types, Task
    <3>3. QED
      BY <1>12, <3>1, <3>2 DEF IInv, TasksFindTheirRow, Visible
  <2>2. QED
    BY <1>1, <1>12, <2>1 DEF IInv, TasksFindTheirRow, Visible
<1>14. LinksAreToCleanRows'
  <2>1. \A l \in links : l.doc \in Docs
    BY DEF IInv, Types, Link
  <2>2. QED
    BY <1>1, <1>4, <1>5, <1>12, <2>1 DEF IInv, LinksAreToCleanRows
<1>15. QED
  BY <1>9, <1>10, <1>11, <1>13, <1>14 DEF IInv

-----------------------------------------------------------------------------
(* The invariant *)

\* The invariant holds at the start.
LEMMA InitGood == ASSUME Init PROVE IInv
BY DEF Init, IInv, Types, UploadsStoreFirst, RowsComeFromUploads, TasksFindTheirRow, LinksAreToCleanRows

\* Every step of an upload or a download keeps the invariant.
LEMMA RequestsKeep ==
    ASSUME IInv, NEW d \in Docs,
           \/ \E u \in Users, o \in Orgs :
                Download(d, u, o) \/ \E a \in Assessments : UploadStores(d, u, o, a)
           \/ UploadStep(d) \/ UploadFails(d)
    PROVE  IInv'
<1>1. ASSUME NEW u \in Users, NEW o \in Orgs, Download(d, u, o)
      PROVE  IInv'
  <2>1. /\ row[d] # NoRow /\ row[d].org = o /\ row[d].scan = "clean"
        /\ links' = links \cup {[doc |-> d, user |-> u, org |-> o]}
        /\ UNCHANGED <<object, row, upload, queue, worker>>
    BY <1>1 DEF Download
  <2>2. [doc |-> d, user |-> u, org |-> o] \in Link
    BY DEF Link
  <2>3. Types' /\ UploadsStoreFirst' /\ RowsComeFromUploads' /\ TasksFindTheirRow'
    BY <2>1, <2>2 DEF IInv, Types, UploadsStoreFirst, RowsComeFromUploads, TasksFindTheirRow, Visible
  <2>4. LinksAreToCleanRows'
    BY <2>1 DEF IInv, LinksAreToCleanRows
  <2>5. QED
    BY <2>3, <2>4 DEF IInv
<1>2. CASE UploadCommits(d)
  BY <1>2, CommitsKeeps
<1>3. CASE UploadEnqueues(d)
  <2>1. PICK n \in 1 .. 2 : queue' = [queue EXCEPT ![d] = n]
    BY <1>3 DEF UploadEnqueues
  <2>2. n \in Nat
    OBVIOUS
  <2>3. /\ upload[d] # NoRow /\ upload[d].pc = "committed" /\ upload' = [upload EXCEPT ![d].pc = "done"]
        /\ UNCHANGED <<object, row, worker, links>>
    BY <1>3 DEF UploadEnqueues
  <2>4. QED
    BY <2>1, <2>2, <2>3, UploadEndKeeps
<1>4. CASE UploadFails(d)
  <2>1. /\ upload[d] # NoRow /\ upload' = [upload EXCEPT ![d].pc = "failed"]
        /\ UNCHANGED <<object, row, queue, worker, links>>
    BY <1>4 DEF UploadFails
  <2>2. queue[d] \in Nat /\ queue' = [queue EXCEPT ![d] = queue[d]]
    BY <2>1 DEF IInv, Types
  <2>3. "failed" # "done"
    OBVIOUS
  <2>4. QED
    BY <2>1, <2>2, <2>3, UploadEndKeeps
<1>5. QED
  BY <1>1, <1>2, <1>3, <1>4, StoresKeeps DEF UploadStep

\* Every step of a worker keeps the invariant.
LEMMA WorkersKeep ==
    ASSUME IInv, NEW w \in Workers, TaskStep(w) \/ ScanFails(w) \/ Crash(w)
    PROVE  IInv'
<1>1. ASSUME NEW d \in Docs, Take(w, d)
      PROVE  IInv'
  <2>1. DEFINE task == [pc |-> "taken", doc |-> d, scope |-> upload[d].org]
  <2>2. /\ worker[w] = NoRow /\ queue[d] > 0
        /\ queue' = [queue EXCEPT ![d] = queue[d] - 1] /\ worker' = [worker EXCEPT ![w] = task]
        /\ UNCHANGED <<object, row, upload, links>>
    BY <1>1 DEF Take
  <2>3. upload[d] \in Upload
    BY <2>2 DEF IInv, Types, TasksFindTheirRow, RowsComeFromUploads
  <2>4. task \in Task /\ task.doc = d /\ task.scope = upload[d].org
    BY <2>3 DEF Upload, Task
  <2> HIDE DEF task
  <2>5. queue' \in [Docs -> Nat] /\ \A e \in Docs : queue'[e] > 0 => queue[e] > 0
    BY <2>2 DEF IInv, Types
  <2>6. /\ worker' \in [Workers -> Task \cup {NoRow}] /\ worker'[w] = task
        /\ \A v \in Workers : v # w => worker'[v] = worker[v]
    BY <2>2, <2>4 DEF IInv, Types
  <2>7. QED
    BY <2>2, <2>4, <2>5, <2>6, WorkerKeeps
<1>2. CASE ScanReads(w)
  <2>1. /\ worker[w] # NoRow /\ worker' = [worker EXCEPT ![w].pc = "read"]
        /\ UNCHANGED <<object, row, upload, queue, links>>
    BY <1>2 DEF ScanReads
  <2>2. /\ worker'[w] = [worker[w] EXCEPT !.pc = "read"] /\ worker[w] \in Task
        /\ \A v \in Workers : v # w => worker'[v] = worker[v]
    BY <2>1 DEF IInv, Types
  <2>3. worker'[w] \in Task /\ worker'[w].doc = worker[w].doc /\ worker'[w].scope = worker[w].scope
    BY <2>2 DEF Task
  <2>4. worker' \in [Workers -> Task \cup {NoRow}] /\ queue' \in [Docs -> Nat]
    BY <2>1, <2>2, <2>3 DEF IInv, Types
  <2>5. QED
    BY <2>1, <2>2, <2>3, <2>4, WorkerKeeps
<1>3. CASE ScanCommits(w)
  BY <1>3, ScanCommitsKeeps
<1>4. ASSUME worker' = [worker EXCEPT ![w] = NoRow], UNCHANGED <<object, row, upload, queue, links>>
      PROVE  IInv'
  <2>1. worker' \in [Workers -> Task \cup {NoRow}] /\ queue' \in [Docs -> Nat]
    BY <1>4 DEF IInv, Types
  <2>2. \A v \in Workers : worker'[v] # NoRow => worker'[v] = worker[v]
    BY <1>4 DEF IInv, Types
  <2>3. QED
    BY <1>4, <2>1, <2>2, WorkerKeeps
<1>5. CASE Crash(w)
  <2>1. DEFINE d == worker[w].doc
  <2>2. /\ worker[w] # NoRow /\ queue' = [queue EXCEPT ![d] = queue[d] + 1]
        /\ worker' = [worker EXCEPT ![w] = NoRow]
        /\ UNCHANGED <<object, row, upload, links>>
    BY <1>5 DEF Crash
  <2>3. d \in Docs
    BY <2>2 DEF IInv, Types, Task
  <2>4. /\ worker' \in [Workers -> Task \cup {NoRow}] /\ queue' \in [Docs -> Nat]
        /\ \A e \in Docs : e # d => queue'[e] = queue[e]
        /\ \A v \in Workers : worker'[v] # NoRow => worker'[v] = worker[v]
    BY <2>2, <2>3 DEF IInv, Types
  <2>5. QED
    BY <2>2, <2>4, WorkerKeeps
<1>6. CASE Ack(w) \/ ScanFails(w)
  BY <1>4, <1>6 DEF Ack, ScanFails
<1>7. QED
  BY <1>1, <1>2, <1>3, <1>5, <1>6 DEF TaskStep

\* Every step keeps the invariant.
LEMMA NextKeeps == ASSUME IInv, [Next]_vars PROVE IInv'
<1>1. ASSUME NEW l \in links, LinkExpires(l)
      PROVE  IInv'
  BY <1>1 DEF LinkExpires, IInv, Types, UploadsStoreFirst, RowsComeFromUploads, TasksFindTheirRow,
              Visible, LinksAreToCleanRows
<1>2. CASE UNCHANGED vars
  BY <1>2 DEF vars, IInv, Types, UploadsStoreFirst, RowsComeFromUploads, TasksFindTheirRow,
              Visible, LinksAreToCleanRows
<1>3. QED
  BY <1>1, <1>2, RequestsKeep, WorkersKeep DEF Next

\* The invariant holds throughout.
LEMMA DocumentsAreGood == Spec => []IInv
<1>1. Init => IInv
  BY InitGood
<1>2. IInv /\ [Next]_vars => IInv'
  BY NextKeeps
<1>3. QED
  BY <1>1, <1>2, PTL DEF Spec

-----------------------------------------------------------------------------
(* Theorems *)

\* Who holds a link gets a vetted file of the caller's organization, scanned.
THEOREM ServedVetted == Spec => []ServedAreVetted
<1>1. IInv => ServedAreVetted
  <2>1. SUFFICES ASSUME IInv, NEW l \in links
                 PROVE  /\ row[l.doc] # NoRow /\ row[l.doc].org = l.org /\ row[l.doc].scan = "clean"
                        /\ OrgOf[row[l.doc].asm] = l.org
                        /\ object[l.doc] # NoRow /\ IsVetted(object[l.doc])
    BY DEF ServedAreVetted, IsVetted
  <2>2. l.doc \in Docs
    BY <2>1 DEF IInv, Types, Link
  <2>3. QED
    BY <2>1, <2>2 DEF IInv, LinksAreToCleanRows, RowsComeFromUploads, UploadsStoreFirst
<1>2. QED
  BY <1>1, DocumentsAreGood, PTL

\* A committed row never names a missing object.
THEOREM RowsHaveObjects == Spec => []RowsNameObjects
<1>1. IInv => RowsNameObjects
  <2>1. SUFFICES ASSUME IInv, NEW d \in Docs, row[d] # NoRow
                 PROVE  /\ object[d] # NoRow
                        /\ row[d].type = object[d].type /\ row[d].size = object[d].size
                        /\ upload[d].pc \in {"committed", "done", "failed"}
    BY DEF RowsNameObjects
  <2>2. upload[d] # NoRow /\ upload[d].pc # "stored"
    BY <2>1 DEF IInv, RowsComeFromUploads
  <2>3. upload[d].pc \in {"stored", "committed", "done", "failed"}
    BY <2>1, <2>2 DEF IInv, Types, Upload
  <2>4. QED
    BY <2>1, <2>2, <2>3 DEF IInv, RowsComeFromUploads, UploadsStoreFirst
<1>2. QED
  BY <1>1, DocumentsAreGood, PTL

\* A scan task finds its row, however often it is delivered.
THEOREM TasksFind == Spec => []TasksFindTheirRow
<1>1. IInv => TasksFindTheirRow
  BY DEF IInv
<1>2. QED
  BY <1>1, DocumentsAreGood, PTL

-----------------------------------------------------------------------------
(* The bound of the queue: what TypeOK says beyond the invariant *)

\* The workers that are busy with d.
Busy(d) == {w \in Workers : worker[w] # NoRow /\ worker[w].doc = d}

\* A scan is delivered at most twice at a time, redeliveries included, and not
\* before its upload sends it.
TasksAreCounted ==
    \A d \in Docs :
        /\ IsFiniteSet(Busy(d)) /\ queue[d] + Cardinality(Busy(d)) <= 2
        /\ upload[d] # NoRow /\ upload[d].pc = "committed" => queue[d] = 0 /\ Busy(d) = {}

Bounded ==
    /\ TasksAreCounted
    /\ failed \in SUBSET Docs
    /\ crashes \in 0 .. MaxCrashes

\* A document without a row has no tasks.
LEMMA NoRowNoTask ==
    ASSUME IInv, NEW d \in Docs, row[d] = NoRow
    PROVE  queue[d] = 0 /\ Busy(d) = {}
<1>1. queue[d] = 0
  BY DEF IInv, Types, TasksFindTheirRow
<1>2. Busy(d) = {}
  BY DEF IInv, TasksFindTheirRow, Visible, Busy
<1>3. QED
  BY <1>1, <1>2

\* The steps that leave the tasks of all documents where they are.
LEMMA CountsStay ==
    ASSUME Bounded, \A d \in Docs : Busy(d)' = Busy(d), UNCHANGED <<queue, failed, crashes>>,
           \A d \in Docs : upload'[d] # NoRow /\ upload'[d].pc = "committed" =>
               \/ upload[d] # NoRow /\ upload[d].pc = "committed"
               \/ queue[d] = 0 /\ Busy(d) = {}
    PROVE  Bounded'
<1>1. TasksAreCounted'
  BY DEF Bounded, TasksAreCounted
<1>2. QED
  BY <1>1 DEF Bounded

\* A worker that ends its task, and puts it back at most once.
LEMMA EndCounts ==
    ASSUME IInv, Bounded, NEW w \in Workers, worker[w] # NoRow,
           worker' = [worker EXCEPT ![w] = NoRow], UNCHANGED upload,
           \/ queue' = queue
           \/ queue' = [queue EXCEPT ![worker[w].doc] = queue[worker[w].doc] + 1]
    PROVE  TasksAreCounted'
<1>1. PICK d \in Docs : d = worker[w].doc
  BY DEF IInv, Types, Task
<1>2. w \in Busy(d) /\ queue \in [Docs -> Nat]
  BY <1>1 DEF IInv, Types, Busy
<1>3. ~(upload[d] # NoRow /\ upload[d].pc = "committed")
  BY <1>2 DEF Bounded, TasksAreCounted
<1>4. IsFiniteSet(Busy(d)) /\ queue[d] + Cardinality(Busy(d)) <= 2
  BY <1>2 DEF Bounded, TasksAreCounted
<1>5. Busy(d)' = Busy(d) \ {w}
  BY <1>1 DEF Busy, IInv, Types
<1>6. /\ IsFiniteSet(Busy(d)') /\ Cardinality(Busy(d)') = Cardinality(Busy(d)) - 1
      /\ Cardinality(Busy(d)) \in Nat
  BY <1>2, <1>4, <1>5, FS_RemoveElement, FS_CardinalityType
<1>7. queue'[d] \in {queue[d], queue[d] + 1}
  BY <1>1, <1>2
<1>8. queue'[d] + Cardinality(Busy(d)') <= 2
  BY <1>2, <1>4, <1>6, <1>7
<1>9. \A e \in Docs \ {d} : Busy(e)' = Busy(e) /\ queue'[e] = queue[e]
  BY <1>1, <1>2 DEF Busy, IInv, Types
<1>10. QED
  BY <1>3, <1>6, <1>8, <1>9 DEF Bounded, TasksAreCounted

\* An upload that sends its task sends the first one, twice at most.
LEMMA EnqueueCounts ==
    ASSUME IInv, Bounded, NEW d \in Docs, UploadEnqueues(d)
    PROVE  Bounded'
<1>1. PICK n \in 1 .. 2 : queue' = [queue EXCEPT ![d] = n]
  BY DEF UploadEnqueues
<1>2. /\ upload[d] # NoRow /\ upload[d].pc = "committed"
      /\ upload' = [upload EXCEPT ![d].pc = "done"]
      /\ UNCHANGED <<worker, failed, crashes>>
  BY DEF UploadEnqueues
<1>3. Busy(d) = {}
  BY <1>2 DEF Bounded, TasksAreCounted
<1>4. \A e \in Docs : Busy(e)' = Busy(e)
  BY <1>2 DEF Busy
<1>5. queue'[d] = n /\ \A e \in Docs \ {d} : queue'[e] = queue[e]
  BY <1>1 DEF IInv, Types
<1>6. upload'[d].pc = "done" /\ \A e \in Docs \ {d} : upload'[e] = upload[e]
  BY <1>2 DEF IInv, Types, Upload
<1>7. IsFiniteSet(Busy(d)') /\ Cardinality(Busy(d)') = 0
  BY <1>3, <1>4, FS_EmptySet
<1>8. queue'[d] + Cardinality(Busy(d)') <= 2
  BY <1>5, <1>7
<1>9. TasksAreCounted'
  BY <1>4, <1>5, <1>6, <1>7, <1>8 DEF Bounded, TasksAreCounted
<1>10. QED
  BY <1>2, <1>9 DEF Bounded

\* A task that is taken was waiting.
LEMMA TakeCounts ==
    ASSUME IInv, Bounded, NEW w \in Workers, NEW d \in Docs, Take(w, d)
    PROVE  Bounded'
<1> DEFINE task == [pc |-> "taken", doc |-> d, scope |-> upload[d].org]
<1>1. /\ worker[w] = NoRow /\ queue[d] > 0 /\ worker' = [worker EXCEPT ![w] = task]
      /\ queue' = [queue EXCEPT ![d] = queue[d] - 1]
      /\ UNCHANGED <<upload, failed, crashes>>
  BY DEF Take
<1>2. task \in Task
  <2>1. upload[d] \in Upload
    BY <1>1 DEF IInv, Types, TasksFindTheirRow, RowsComeFromUploads
  <2>2. QED
    BY <2>1 DEF Upload, Task
<1>3. task # NoRow /\ task.doc = d
  BY <1>2, DocumentsAssumption
<1> HIDE DEF task
<1>4. Busy(d)' = Busy(d) \cup {w} /\ w \notin Busy(d)
  BY <1>1, <1>3 DEF Busy, IInv, Types
<1>5. IsFiniteSet(Busy(d)) /\ queue[d] + Cardinality(Busy(d)) <= 2
  BY DEF Bounded, TasksAreCounted
<1>6. /\ IsFiniteSet(Busy(d)') /\ Cardinality(Busy(d)') = Cardinality(Busy(d)) + 1
      /\ Cardinality(Busy(d)) \in Nat
  BY <1>4, <1>5, FS_AddElement, FS_CardinalityType
<1>7. queue'[d] = queue[d] - 1 /\ queue[d] \in Nat
  BY <1>1 DEF IInv, Types
<1>8. queue'[d] + Cardinality(Busy(d)') <= 2
  BY <1>5, <1>6, <1>7
<1>9. ~(upload[d] # NoRow /\ upload[d].pc = "committed")
  BY <1>1, <1>7 DEF Bounded, TasksAreCounted
<1>10. \A e \in Docs \ {d} : Busy(e)' = Busy(e) /\ queue'[e] = queue[e]
  BY <1>1, <1>3 DEF Busy, IInv, Types
<1>11. TasksAreCounted'
  BY <1>1, <1>6, <1>8, <1>9, <1>10 DEF Bounded, TasksAreCounted
<1>12. QED
  BY <1>1, <1>11 DEF Bounded

LEMMA UploadCounts ==
    ASSUME IInv, Bounded, NEW d \in Docs,
           \/ \E u \in Users, o \in Orgs, a \in Assessments : UploadStores(d, u, o, a)
           \/ UploadCommits(d) \/ UploadFails(d)
    PROVE  Bounded'
<1>1. \A e \in Docs : Busy(e)' = Busy(e)
  BY DEF UploadStores, UploadCommits, UploadFails, Busy
<1>2. UNCHANGED <<queue, failed, crashes>>
  BY DEF UploadStores, UploadCommits, UploadFails
<1>3. CASE \E u \in Users, o \in Orgs, a \in Assessments : UploadStores(d, u, o, a)
  <2>1. PICK u \in Users, o \in Orgs, a \in Assessments :
            upload' = [upload EXCEPT ![d] = [pc |-> "stored", user |-> u, org |-> o, asm |-> a]]
    BY <1>3 DEF UploadStores
  <2>2. upload'[d].pc = "stored" /\ \A e \in Docs \ {d} : upload'[e] = upload[e]
    BY <2>1 DEF IInv, Types
  <2>3. QED
    BY <1>1, <1>2, <2>2, CountsStay
<1>4. CASE UploadCommits(d)
  <2>1. /\ upload[d] # NoRow /\ upload[d].pc = "stored"
        /\ upload' = [upload EXCEPT ![d].pc = "committed"]
    BY <1>4 DEF UploadCommits
  <2>2. queue[d] = 0 /\ Busy(d) = {}
    BY <2>1, NoRowNoTask DEF IInv, UploadsStoreFirst
  <2>3. \A e \in Docs \ {d} : upload'[e] = upload[e]
    BY <2>1 DEF IInv, Types
  <2>4. QED
    BY <1>1, <1>2, <2>2, <2>3, CountsStay
<1>5. CASE UploadFails(d)
  <2>1. upload[d] # NoRow /\ upload' = [upload EXCEPT ![d].pc = "failed"]
    BY <1>5 DEF UploadFails
  <2>2. upload'[d].pc = "failed" /\ \A e \in Docs \ {d} : upload'[e] = upload[e]
    BY <2>1 DEF IInv, Types, Upload
  <2>3. QED
    BY <1>1, <1>2, <2>2, CountsStay
<1>6. QED
  BY <1>3, <1>4, <1>5

LEMMA WorkerCounts ==
    ASSUME IInv, Bounded, NEW w \in Workers,
           ScanReads(w) \/ ScanCommits(w) \/ Ack(w) \/ ScanFails(w) \/ Crash(w)
    PROVE  Bounded'
<1>1. worker[w] # NoRow /\ worker[w] \in Task /\ worker[w].doc \in Docs
  BY DEF ScanReads, ScanCommits, Ack, ScanFails, Crash, IInv, Types, Task
<1>2. CASE ScanReads(w) \/ ScanCommits(w)
  <2>1. PICK pc \in {"read", "committed"} : worker' = [worker EXCEPT ![w].pc = pc]
    BY <1>2 DEF ScanReads, ScanCommits
  <2>2. /\ worker'[w] \in Task /\ worker'[w].doc = worker[w].doc
        /\ \A v \in Workers \ {w} : worker'[v] = worker[v]
    BY <1>1, <2>1 DEF IInv, Types, Task
  <2>3. worker'[w] # NoRow
    BY <2>2, DocumentsAssumption
  <2>4. \A e \in Docs : Busy(e)' = Busy(e)
    BY <1>1, <2>2, <2>3 DEF Busy
  <2>5. UNCHANGED <<queue, upload, failed, crashes>>
    BY <1>2 DEF ScanReads, ScanCommits
  <2>6. QED
    BY <2>4, <2>5, CountsStay
<1>3. CASE Ack(w) \/ ScanFails(w)
  <2>1. /\ worker' = [worker EXCEPT ![w] = NoRow] /\ UNCHANGED <<upload, queue, crashes>>
        /\ failed' \in SUBSET Docs
    BY <1>1, <1>3 DEF Ack, ScanFails, Bounded
  <2>2. QED
    BY <1>1, <2>1, EndCounts DEF Bounded
<1>4. CASE Crash(w)
  <2>1. /\ worker' = [worker EXCEPT ![w] = NoRow] /\ UNCHANGED <<upload, failed>>
        /\ queue' = [queue EXCEPT ![worker[w].doc] = queue[worker[w].doc] + 1]
        /\ crashes' = crashes + 1 /\ crashes < MaxCrashes
    BY <1>4 DEF Crash
  <2>2. crashes' \in 0 .. MaxCrashes
    BY <2>1, DocumentsAssumption DEF Bounded
  <2>3. QED
    BY <1>1, <2>1, <2>2, EndCounts DEF Bounded
<1>5. QED
  BY <1>2, <1>3, <1>4

LEMMA NextCounts ==
    ASSUME IInv, Bounded, [Next]_vars
    PROVE  Bounded'
<1>1. ASSUME UNCHANGED <<upload, queue, worker, failed, crashes>>
      PROVE  Bounded'
  BY <1>1, CountsStay DEF Busy
<1>2. ASSUME NEW d \in Docs, NEW u \in Users, NEW o \in Orgs, Download(d, u, o)
      PROVE  Bounded'
  BY <1>1, <1>2 DEF Download
<1>3. ASSUME NEW l \in links, LinkExpires(l)
      PROVE  Bounded'
  BY <1>1, <1>3 DEF LinkExpires
<1>4. CASE UNCHANGED vars
  BY <1>1, <1>4 DEF vars
<1>5. ASSUME NEW w \in Workers, TaskStep(w) \/ ScanFails(w) \/ Crash(w)
      PROVE  Bounded'
  BY <1>5, TakeCounts, WorkerCounts DEF TaskStep
<1>6. QED
  BY <1>2, <1>3, <1>4, <1>5, EnqueueCounts, UploadCounts DEF Next, UploadStep

\* The types of all variables: a scan never waits in the broker more than twice,
\* however often its publication was retried and workers died.
THEOREM TypeCorrect == Spec => []TypeOK
<1>1. Init => Bounded
  <2>1. Init => \A d \in Docs : Busy(d) = {} /\ queue[d] = 0 /\ upload[d] = NoRow
    BY DEF Init, Busy
  <2>2. QED
    BY <2>1, FS_EmptySet, DocumentsAssumption DEF Init, Bounded, TasksAreCounted
<1>2. IInv /\ Bounded /\ [Next]_vars => Bounded'
  BY NextCounts
<1>3. ASSUME IInv, Bounded
      PROVE  TypeOK
  <2>1. ASSUME NEW d \in Docs
        PROVE  queue[d] \in 0 .. 2
    <3>1. queue[d] \in Nat /\ queue[d] + Cardinality(Busy(d)) <= 2 /\ IsFiniteSet(Busy(d))
      BY <1>3 DEF IInv, Types, Bounded, TasksAreCounted
    <3>2. QED
      BY <3>1, FS_CardinalityType
  <2>2. queue \in [Docs -> 0 .. 2]
    BY <1>3, <2>1 DEF IInv, Types
  <2>3. QED
    BY <1>3, <2>2 DEF IInv, Types, Bounded, TypeOK
<1>4. QED
  BY <1>1, <1>2, <1>3, DocumentsAreGood, PTL DEF Spec

-----------------------------------------------------------------------------
(* The refinement *)

DocOf == [d \in Docs |-> IF row[d] = NoRow THEN NoRow ELSE [org |-> row[d].org, scan |-> row[d].scan]]

Served == {<<l.org, l.doc>> : l \in links}

\* What the abstract actions are, in terms of the variables of Documents.
LEMMA AbstractSteps ==
    /\ Gate!Init <=> DocOf = [d \in Docs |-> NoRow] /\ Served = {}
    /\ \A d, o : Gate!Accept(d, o) <=>
          /\ DocOf[d] = NoRow
          /\ DocOf' = [DocOf EXCEPT ![d] = [org |-> o, scan |-> "pending"]]
          /\ UNCHANGED Served
    /\ \A d : Gate!Clear(d) <=>
          /\ DocOf[d] # NoRow
          /\ DocOf' = [DocOf EXCEPT ![d].scan = "clean"]
          /\ UNCHANGED Served
    /\ \A d : Gate!Serve(d) <=>
          /\ DocOf[d] # NoRow /\ DocOf[d].scan = "clean"
          /\ Served' = Served \cup {<<DocOf[d].org, d>>}
          /\ UNCHANGED DocOf
    /\ \A link : Gate!Expire(link) <=> Served' = Served \ {link} /\ UNCHANGED DocOf
    /\ Gate!Next <=>
          \/ \E d \in Docs : Gate!Clear(d) \/ Gate!Serve(d) \/ \E o \in Orgs : Gate!Accept(d, o)
          \/ \E link \in Served : Gate!Expire(link)
    /\ UNCHANGED Gate!vars <=> UNCHANGED <<DocOf, Served>>
<1>1. Gate!Init <=> DocOf = [d \in Docs |-> NoRow] /\ Served = {}
  BY DEF Gate!Init, DocOf, Served
<1>2. ASSUME NEW d, NEW o
      PROVE  Gate!Accept(d, o) <=>
                /\ DocOf[d] = NoRow
                /\ DocOf' = [DocOf EXCEPT ![d] = [org |-> o, scan |-> "pending"]]
                /\ UNCHANGED Served
  BY DEF Gate!Accept, DocOf, Served
<1>3. ASSUME NEW d
      PROVE  Gate!Clear(d) <=>
                /\ DocOf[d] # NoRow
                /\ DocOf' = [DocOf EXCEPT ![d].scan = "clean"]
                /\ UNCHANGED Served
  BY DEF Gate!Clear, DocOf, Served
<1>4. ASSUME NEW d
      PROVE  Gate!Serve(d) <=>
                /\ DocOf[d] # NoRow /\ DocOf[d].scan = "clean"
                /\ Served' = Served \cup {<<DocOf[d].org, d>>}
                /\ UNCHANGED DocOf
  BY DEF Gate!Serve, DocOf, Served
<1>5. ASSUME NEW link
      PROVE  Gate!Expire(link) <=> Served' = Served \ {link} /\ UNCHANGED DocOf
  BY DEF Gate!Expire, DocOf, Served
<1>6. Gate!Next <=>
          \/ \E d \in Docs : Gate!Clear(d) \/ Gate!Serve(d) \/ \E o \in Orgs : Gate!Accept(d, o)
          \/ \E link \in Served : Gate!Expire(link)
  BY DEF Gate!Next, Served
<1>7. UNCHANGED Gate!vars <=> UNCHANGED <<DocOf, Served>>
  BY DEF Gate!vars, DocOf, Served
<1>8. QED
  BY <1>1, <1>2, <1>3, <1>4, <1>5, <1>6, <1>7

\* A row that is there is a document of ScanGate.
LEMMA RowIsDocument ==
    ASSUME IInv, NEW d \in Docs, row[d] # NoRow
    PROVE  /\ DocOf[d] # NoRow /\ DocOf[d].org = row[d].org /\ DocOf[d].scan = row[d].scan
           /\ row[d] \in DocumentRow
<1>1. row[d] \in DocumentRow
  BY DEF IInv, Types
<1>2. DocOf[d] = [org |-> row[d].org, scan |-> row[d].scan]
  BY DEF DocOf
<1>3. [org |-> row[d].org, scan |-> row[d].scan] \in [org : Orgs, scan : {"pending", "clean"}]
  BY <1>1 DEF DocumentRow
<1>4. QED
  BY <1>1, <1>2, <1>3, DocumentsAssumption

\* The commit of an upload is an Accept step.
LEMMA CommitAccepts ==
    ASSUME IInv, NEW d \in Docs, UploadCommits(d)
    PROVE  Gate!Next
<1>1. /\ upload[d] # NoRow /\ upload[d].pc = "stored"
      /\ row' = [row EXCEPT ![d] = NewRow(d)] /\ UNCHANGED links
  BY DEF UploadCommits
<1>2. upload[d] \in Upload /\ object[d] \in Object /\ row[d] = NoRow
  BY <1>1 DEF IInv, Types, UploadsStoreFirst
<1>3. /\ NewRow(d) \in DocumentRow /\ NewRow(d).org = upload[d].org
      /\ NewRow(d).scan = "pending" /\ upload[d].org \in Orgs
  BY <1>2 DEF NewRow, DocumentRow, Upload, Object
<1>4. NewRow(d) # NoRow
  BY <1>3, DocumentsAssumption
<1>5. /\ row'[d] = NewRow(d) /\ \A e \in Docs : e # d => row'[e] = row[e]
  BY <1>1 DEF IInv, Types
<1>6. DocOf[d] = NoRow
  BY <1>2 DEF DocOf
<1>7. PICK o \in Orgs : o = upload[d].org
  BY <1>3
<1>8. DocOf' = [DocOf EXCEPT ![d] = [org |-> o, scan |-> "pending"]]
  BY <1>3, <1>4, <1>5, <1>7 DEF DocOf
<1>9. UNCHANGED Served
  BY <1>1 DEF Served
<1>10. Gate!Accept(d, o)
  BY <1>6, <1>8, <1>9, AbstractSteps
<1>11. QED
  BY <1>10, AbstractSteps

\* The commit of a scan is a Clear step.
LEMMA ScanClears ==
    ASSUME IInv, NEW w \in Workers, ScanCommits(w)
    PROVE  Gate!Next
<1>1. PICK d \in Docs : d = worker[w].doc
  BY DEF ScanCommits, IInv, Types, Task
<1>2. worker[w] # NoRow /\ row' = [row EXCEPT ![d].scan = "clean"] /\ UNCHANGED links
  BY <1>1 DEF ScanCommits
<1>3. row[d] # NoRow
  BY <1>1, <1>2 DEF IInv, TasksFindTheirRow, Visible
<1>4. DocOf[d] # NoRow /\ row[d] \in DocumentRow
  BY <1>3, RowIsDocument
<1>5. /\ row'[d] = [row[d] EXCEPT !.scan = "clean"]
      /\ \A e \in Docs : e # d => row'[e] = row[e]
  BY <1>2 DEF IInv, Types
<1>6. row'[d] \in DocumentRow /\ row'[d].scan = "clean" /\ row'[d].org = row[d].org
  BY <1>4, <1>5 DEF DocumentRow
<1>7. row'[d] # NoRow
  BY <1>6, DocumentsAssumption
<1>8. DocOf'[d] = [org |-> row[d].org, scan |-> "clean"]
  BY <1>6, <1>7 DEF DocOf
<1>9. DocOf[d] = [org |-> row[d].org, scan |-> row[d].scan]
  BY <1>3 DEF DocOf
<1>10. DocOf'[d] = [DocOf[d] EXCEPT !.scan = "clean"]
  BY <1>8, <1>9
<1>11. \A e \in Docs : e # d => DocOf'[e] = DocOf[e]
  BY <1>5 DEF DocOf
<1>12. DocOf' = [DocOf EXCEPT ![d].scan = "clean"]
  BY <1>10, <1>11 DEF DocOf
<1>13. UNCHANGED Served
  BY <1>2 DEF Served
<1>14. Gate!Clear(d)
  BY <1>4, <1>12, <1>13, AbstractSteps
<1>15. QED
  BY <1>14, AbstractSteps

\* A download is a Serve step.
LEMMA DownloadServes ==
    ASSUME IInv, NEW d \in Docs, NEW u \in Users, NEW o \in Orgs, Download(d, u, o)
    PROVE  Gate!Next
<1>1. /\ row[d] # NoRow /\ row[d].org = o /\ row[d].scan = "clean"
      /\ links' = links \cup {[doc |-> d, user |-> u, org |-> o]} /\ UNCHANGED row
  BY DEF Download
<1>2. DocOf[d] # NoRow /\ DocOf[d].org = o /\ DocOf[d].scan = "clean"
  BY <1>1, RowIsDocument
<1>3. Served' = Served \cup {<<o, d>>}
  <2> DEFINE link == [doc |-> d, user |-> u, org |-> o]
  <2>1. links' = links \cup {link} /\ link.org = o /\ link.doc = d
    BY <1>1
  <2> HIDE DEF link
  <2>2. QED
    BY <2>1 DEF Served
<1>4. UNCHANGED DocOf
  BY <1>1 DEF DocOf
<1>5. Gate!Serve(d)
  BY <1>2, <1>3, <1>4, AbstractSteps
<1>6. QED
  BY <1>5, AbstractSteps

\* A link that expires is an Expire step, or none if the organization has
\* another one to the same document.
LEMMA LinkExpiryExpires ==
    ASSUME NEW l \in links, LinkExpires(l)
    PROVE  Gate!Next \/ UNCHANGED Gate!vars
<1>1. links' = links \ {l} /\ UNCHANGED row
  BY DEF LinkExpires
<1>2. UNCHANGED DocOf
  BY <1>1 DEF DocOf
<1>3. <<l.org, l.doc>> \in Served
  BY DEF Served
<1>4. CASE \E k \in links : k # l /\ k.org = l.org /\ k.doc = l.doc
  <2>1. Served' = Served
    BY <1>1, <1>4 DEF Served
  <2>2. QED
    BY <1>2, <2>1, AbstractSteps
<1>5. CASE ~ \E k \in links : k # l /\ k.org = l.org /\ k.doc = l.doc
  <2>1. Served' = Served \ {<<l.org, l.doc>>}
    BY <1>1, <1>5 DEF Served
  <2>2. Gate!Expire(<<l.org, l.doc>>)
    BY <1>2, <2>1, AbstractSteps
  <2>3. QED
    BY <1>3, <2>2, AbstractSteps
<1>6. QED
  BY <1>4, <1>5

\* Every step is a step of ScanGate, or none.
LEMMA StepImplements ==
    ASSUME IInv, [Next]_vars
    PROVE  [Gate!Next]_(Gate!vars)
<1>1. ASSUME UNCHANGED <<row, links>>
      PROVE  UNCHANGED Gate!vars
  BY <1>1, AbstractSteps DEF DocOf, Served
<1>2. ASSUME NEW d \in Docs, UploadEnqueues(d) \/ UploadFails(d)
      PROVE  UNCHANGED Gate!vars
  BY <1>1, <1>2 DEF UploadEnqueues, UploadFails
<1>3. ASSUME NEW d \in Docs, NEW u \in Users, NEW o \in Orgs, NEW a \in Assessments,
             UploadStores(d, u, o, a)
      PROVE  UNCHANGED Gate!vars
  BY <1>1, <1>3 DEF UploadStores
<1>4. ASSUME NEW w \in Workers, \/ \E d \in Docs : Take(w, d)
                                \/ ScanReads(w) \/ Ack(w) \/ ScanFails(w) \/ Crash(w)
      PROVE  UNCHANGED Gate!vars
  BY <1>1, <1>4 DEF Take, ScanReads, Ack, ScanFails, Crash
<1>5. CASE UNCHANGED vars
  BY <1>1, <1>5 DEF vars
<1>6. QED
  BY <1>2, <1>3, <1>4, <1>5, CommitAccepts, ScanClears, DownloadServes, LinkExpiryExpires
     DEF Next, UploadStep, TaskStep

\* Uploads, tasks and downloads together implement the gate.
THEOREM Implements == Spec => ImplementsScanGate
<1>1. Init => Gate!Init
  BY AbstractSteps DEF Init, DocOf, Served
<1>2. IInv /\ [Next]_vars => [Gate!Next]_(Gate!vars)
  BY StepImplements
<1>3. QED
  BY <1>1, <1>2, DocumentsAreGood, PTL DEF Spec, ImplementsScanGate, Gate!Spec
=============================================================================
