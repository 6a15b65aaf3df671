---------------------------- MODULE Assessments -----------------------------
(***************************************************************************)
(* The assessment lifecycle and the consultant workspace: templates are    *)
(* published, assessments are created from them, answered, completed (rule *)
(* engine, enhancement, findings stored as recommendations) and reviewed.  *)
(*                                                                         *)
(* Every request runs in a database transaction of its own, on a thread of *)
(* its own or in another replica, so requests interleave statement by      *)
(* statement.  A request in flight is a record of txn; what it wrote       *)
(* becomes visible, all at once, when the route commits (READ COMMITTED:   *)
(* each statement sees what was committed when it started, writers wait    *)
(* for the row locks of other writers).  A request that raises, or whose   *)
(* process dies, leaves no trace in the database.                          *)
(***************************************************************************)
EXTENDS Rows

CONSTANTS
    Templates,    \* the assessment templates
    Keys,         \* the question keys of the templates
    Values,       \* the answers a question accepts
    Evaluate,     \* Evaluate[facts]: the rules that fire on a set of answers
    FindingRank,  \* the stable order, as ranks, in which the engine lists findings
    Reqs,         \* request slots: how many requests may be in flight
    InFlight,     \* InFlight[op]: how many requests of an operation the clients
                  \* of one assessment have in flight at a time, at most
    MaxPasses,    \* bound on the completion passes over one assessment
    Keep          \* a field that a PATCH leaves out

VARIABLES
    published,    \* the published templates
    status,       \* status[a]: of the assessment row, "absent" before it exists
    responses,    \* responses[a]: the stored answers, a function on the answered keys
    recs,         \* recs[a]: the stored recommendations, a function on their rule codes
    completions,  \* completions[a]: audit rows "assessment.completed"
    passes,       \* passes[a]: enhancement passes made; LLM calls are billed here
    txn           \* txn[t]: the transaction of request t

data == <<published, status, responses, recs, completions, passes>>
vars == <<data, txn>>

-----------------------------------------------------------------------------
(* Rows and transactions. *)

Answers == UNION {[S -> Values] : S \in SUBSET Keys}

\* The orders in which a client may list its answers.
Ranks == UNION {[S -> 1 .. Cardinality(Keys)] : S \in SUBSET Keys}

Columns == {"text", "status", "by"}

Idle == [op |-> "idle"]

\* A request that replaces a set of rows: victims are those that its DELETE has
\* seen and still has to delete.  since is history: the rows that others have
\* inserted, and committed, after that.
CompleteTxn == [op : {"complete"}, pc : {"evaluated", "writing", "written"},
                user : Users, asm : Assessments, facts : Answers,
                victims : SUBSET Rules, deleted : SUBSET Rules, inserted : SUBSET Rules,
                since : SUBSET Rules]

SaveTxn == [op : {"save"}, user : Users, asm : Assessments, payload : Answers, order : Ranks,
            victims : SUBSET Keys, deleted : SUBSET Keys, inserted : SUBSET Keys,
            since : SUBSET Keys]

PatchTxn == [op : {"patch"}, pc : {"reload", "loaded", "selected", "blocked", "written"},
             user : Users, asm : Assessments, rule : Rules,
             edit : Texts \cup {Keep}, verdict : Verdict \cup {Keep},
             new : Row, cols : SUBSET Columns]

Txn == {Idle} \cup CompleteTxn \cup SaveTxn \cup PatchTxn

Operations == {"complete", "save", "patch"}

ASSUME AssessmentsAssumption ==
    /\ IsFiniteSet(Keys)
    /\ Evaluate \in [Answers -> SUBSET Rules]
    /\ FindingRank \in [Rules -> Nat]
    /\ InFlight \in [Operations -> Nat]
    /\ MaxPasses \in Nat
    /\ Keep \notin Texts
    /\ Keep \notin Verdict

TypeOK ==
    /\ published \subseteq Templates
    /\ status \in [Assessments -> Status]
    /\ responses \in [Assessments -> Answers]
    /\ recs \in [Assessments -> RowSets]
    /\ completions \in [Assessments -> Nat]
    /\ passes \in [Assessments -> 0 .. MaxPasses]
    /\ txn \in [Reqs -> Txn]

Init ==
    /\ published = {}
    /\ status = [a \in Assessments |-> "absent"]
    /\ responses = [a \in Assessments |-> Empty]
    /\ recs = [a \in Assessments |-> Empty]
    /\ completions = [a \in Assessments |-> 0]
    /\ passes = [a \in Assessments |-> 0]
    /\ txn = [t \in Reqs |-> Idle]

-----------------------------------------------------------------------------
(* Replacing rows.  PUT /responses and POST /complete replace all the      *)
(* answers, or recommendations, of an assessment: a DELETE, then one       *)
(* INSERT after the other, in the order of the list they were given.       *)

On(t, op, a) == txn[t].op = op /\ txn[t].asm = a

Writing(x) == x.op = "save" \/ (x.op = "complete" /\ x.pc = "writing")

\* The rows as they are committed, and the ones that shall replace them.
Stored(x) == IF x.op = "save" THEN DOMAIN responses[x.asm] ELSE DOMAIN recs[x.asm]

Content(x) == IF x.op = "save" THEN DOMAIN x.payload ELSE Evaluate[x.facts]

Todo(x) == Content(x) \ x.inserted

\* Mutant of NextRows: the list comes in no particular order.
NextRowsAnyOrder(x) == Todo(x)

\* The row that is inserted next.
NextRows(x) ==
    LET rank == IF x.op = "save" THEN x.order ELSE FindingRank
    IN  {k \in Todo(x) : \A j \in Todo(x) : rank[k] <= rank[j]}

\* A row of a table, by its primary key.
Table == [save |-> "responses", complete |-> "recommendations", patch |-> "recommendations"]

Tuple(x, k) == <<Table[x.op], x.asm, k>>

\* The row locks and unique keys that a transaction holds until it ends ...
Held(x) ==
    {Tuple(x, k) : k \in CASE x.op \in {"save", "complete"} -> x.deleted \cup x.inserted
                           [] x.op = "patch" /\ x.pc = "written" /\ x.cols # {} -> {x.rule}
                           [] OTHER -> {}}
    \cup IF x.op = "complete" /\ x.pc = "written" THEN {<<"assessments", x.asm>>} ELSE {}

\* ... and those of which its next statement needs one.
Asks(x) ==
    CASE Writing(x) /\ x.victims # {} -> {Tuple(x, k) : k \in x.victims}
      [] Writing(x) /\ x.victims = {} /\ Todo(x) # {} -> {Tuple(x, k) : k \in NextRows(x)}
      [] x.op = "complete" /\ x.pc = "writing" /\ x.victims = {} /\ Todo(x) = {}
             /\ status[x.asm] # "completed" -> {<<"assessments", x.asm>>}
      [] x.op = "patch" /\ x.pc = "blocked" -> {Tuple(x, x.rule)}
      [] OTHER -> {}

Locked(t, row) == \E u \in Reqs \ {t} : row \in Held(txn[u])

\* What x becomes when a transaction commits that has replaced the rows `gone`
\* of a by `new`: a DELETE that waited for them skips them, and does not see the
\* new ones; an UPDATE that waited for one matches no row, which SQLAlchemy
\* reports as StaleDataError.
AfterCommit(x, op, a, gone, new) ==
    IF x.op = op /\ x.asm = a /\ op \in {"save", "complete"}
        THEN [x EXCEPT !.victims = @ \ gone, !.since = (@ \ gone) \cup new]
    ELSE IF op = "complete" /\ x.op = "patch" /\ x.pc = "blocked" /\ x.asm = a /\ x.rule \in gone
        THEN Idle
    ELSE x

\* Mutant of Replace: the DELETE is forgotten.
ReplaceKeepingOld(f, gone, new) ==
    [x \in DOMAIN f \cup DOMAIN new |-> IF x \in DOMAIN new THEN new[x] ELSE f[x]]

\* Mutant of Replace: the DELETE is sent after the INSERTs.
ReplaceDeletingLast(f, gone, new) ==
    [x \in (DOMAIN f \cup DOMAIN new) \ gone |-> IF x \in DOMAIN new THEN new[x] ELSE f[x]]

\* f with the rows `gone` deleted and the rows of `new` inserted.
Replace(f, gone, new) ==
    [x \in (DOMAIN f \ gone) \cup DOMAIN new |-> IF x \in DOMAIN new THEN new[x] ELSE f[x]]

Finish(t) == txn' = [txn EXCEPT ![t] = Idle]

\* The DELETE, row by row: it waits for those that another request holds.
DeleteRow(t) ==
    /\ Writing(txn[t])
    /\ \E k \in txn[t].victims :
          /\ ~Locked(t, Tuple(txn[t], k))
          /\ txn' = [txn EXCEPT ![t].victims = @ \ {k}, ![t].deleted = @ \cup {k}]
    /\ UNCHANGED data

Inserting(t, k) ==
    /\ Writing(txn[t]) /\ txn[t].victims = {}
    /\ k \in NextRows(txn[t])
    /\ ~Locked(t, Tuple(txn[t], k))

Clashes(t, k) == k \in Stored(txn[t]) \ txn[t].deleted

\* Mutant of InsertRow: each row is committed as it is inserted.
InsertRowCommits(t) ==
    \E k \in Rules :
        /\ Inserting(t, k) /\ ~Clashes(t, k) /\ txn[t].op = "complete"
        /\ recs' = [recs EXCEPT ![txn[t].asm] =
              [r \in DOMAIN @ \cup {k} |-> IF r = k THEN Draft ELSE @[r]]]
        /\ txn' = [txn EXCEPT ![t].inserted = @ \cup {k}, ![t].deleted = @ \cup {k}]
        /\ UNCHANGED <<published, status, responses, completions, passes>>

\* Mutant of InsertRow: an upsert, which takes over the row that is there.
InsertRowOverwrites(t) ==
    /\ \E k \in Keys \cup Rules :
          /\ Inserting(t, k)
          /\ txn' = [txn EXCEPT ![t].inserted = @ \cup {k}]
    /\ UNCHANGED data

InsertRow(t) ==
    /\ \E k \in Keys \cup Rules :
          /\ Inserting(t, k) /\ ~Clashes(t, k)
          /\ txn' = [txn EXCEPT ![t].inserted = @ \cup {k}]
    /\ UNCHANGED data

\* A row with the same primary key "<assessment>:<key>" has been committed since
\* the DELETE: IntegrityError, and the request rolls back.
Clash(t) ==
    /\ \E k \in Keys \cup Rules : Inserting(t, k) /\ Clashes(t, k)
    /\ Finish(t)
    /\ UNCHANGED data

\* All rows are replaced.
Written(t) == Writing(txn[t]) /\ txn[t].victims = {} /\ Todo(txn[t]) = {}

\* A row that a transaction waits for is held by one that waits in its turn, and
\* so on in a circle: PostgreSQL ends one of them (deadlock detected).
Stuck(S) ==
    /\ \A t \in S :
          /\ Asks(txn[t]) # {}
          /\ \A row \in Asks(txn[t]) : \E u \in S \ {t} : row \in Held(txn[u])
    /\ \A u \in S : \E t \in S \ {u} : Asks(txn[t]) \cap Held(txn[u]) # {}

DeadlockVictim(t) ==
    /\ \E S \in SUBSET Reqs : t \in S /\ Stuck(S)
    /\ Finish(t)
    /\ UNCHANGED data

MayStart(t, op, a) ==
    /\ txn[t] = Idle
    /\ Cardinality({u \in Reqs : On(u, op, a)}) < InFlight[op]

\* Mutant of Authorized: the query forgets the organization filter.
AuthorizedAnywhere(u, p, o, a) == HasPermission(u, p, o) /\ a \in Assessments

\* authorize(), then the tenant filter of every query: u acts in organization o.
Authorized(u, p, o, a) == HasPermission(u, p, o) /\ OrgOf[a] = o

-----------------------------------------------------------------------------
(* Templates and creation: one short transaction each. *)

PublishTemplate(u, o, tp) ==
    /\ HasPermission(u, "template:manage", o)
    /\ published' = published \cup {tp}
    /\ UNCHANGED <<status, responses, recs, completions, passes, txn>>

CreateFromTemplate(u, o, tp, a) ==
    /\ Authorized(u, "assessment:complete", o, a)
    /\ tp \in published
    /\ status[a] = "absent"  \* a fresh uuid
    /\ status' = [status EXCEPT ![a] = "in_progress"]
    /\ UNCHANGED <<published, responses, recs, completions, passes, txn>>

-----------------------------------------------------------------------------
(* PUT /assessments/{id}/responses *)

\* The DELETE sees the answers that are stored when it starts.
SaveBegin(t, u, o, a, payload, order) ==
    /\ \A j, k \in DOMAIN payload : order[j] = order[k] => j = k
    /\ MayStart(t, "save", a)
    /\ Authorized(u, "assessment:complete", o, a)
    /\ status[a] # "absent"
    /\ txn' = [txn EXCEPT ![t] =
          [op |-> "save", user |-> u, asm |-> a, payload |-> payload, order |-> order,
           victims |-> DOMAIN responses[a], deleted |-> {}, inserted |-> {}, since |-> {}]]
    /\ UNCHANGED data

SaveCommit(t) ==
    LET x == txn[t] IN
    /\ x.op = "save" /\ Written(t)
    /\ responses' = [responses EXCEPT ![x.asm] = Replace(@, x.deleted, x.payload)]
    /\ txn' = [u \in Reqs |->
          IF u = t THEN Idle ELSE AfterCommit(txn[u], "save", x.asm, x.deleted, DOMAIN x.payload)]
    /\ UNCHANGED <<published, status, recs, completions, passes>>

-----------------------------------------------------------------------------
(* POST /assessments/{id}/complete *)

\* Load, the status guard, the rule engine and the enhancement pipeline.  The
\* LLM calls are made here, and are not undone by a rollback.
CompleteBegin(t, u, o, a) ==
    /\ MayStart(t, "complete", a)
    /\ Authorized(u, "assessment:complete", o, a)
    /\ status[a] = "in_progress"
    /\ passes[a] < MaxPasses
    /\ passes' = [passes EXCEPT ![a] = @ + 1]
    /\ txn' = [txn EXCEPT ![t] =
          [op |-> "complete", pc |-> "evaluated", user |-> u, asm |-> a,
           facts |-> responses[a], victims |-> {}, deleted |-> {}, inserted |-> {}, since |-> {}]]
    /\ UNCHANGED <<published, status, responses, recs, completions>>

\* save_for_assessment: its DELETE sees the recommendations committed by now.
CompleteSelect(t) ==
    /\ txn[t].op = "complete" /\ txn[t].pc = "evaluated"
    /\ txn' = [txn EXCEPT ![t].pc = "writing", ![t].victims = DOMAIN recs[txn[t].asm],
                          ![t].since = {}]
    /\ UNCHANGED data

\* set_status, which waits for another completion that has updated the row and
\* updates nothing if it reads "completed", and the audit row.
CompleteSetStatus(t) ==
    /\ txn[t].op = "complete" /\ Written(t)
    /\ status[txn[t].asm] # "completed" => ~Locked(t, <<"assessments", txn[t].asm>>)
    /\ txn' = [txn EXCEPT ![t].pc = "written"]
    /\ UNCHANGED data

\* Mutant of CompleteCommit: the findings are those of the answers stored by now.
CompleteCommitRereads(t) ==
    LET a == txn[t].asm IN
    /\ txn[t].op = "complete" /\ txn[t].pc = "written"
    /\ recs' = [recs EXCEPT ![a] = [r \in Evaluate[responses[a]] |-> Draft]]
    /\ status' = [status EXCEPT ![a] = "completed"]
    /\ completions' = [completions EXCEPT ![a] = @ + 1]
    /\ Finish(t)
    /\ UNCHANGED <<published, responses, passes>>

CompleteCommit(t) ==
    LET x == txn[t]
        findings == [r \in Evaluate[x.facts] |-> Draft]
    IN
    /\ x.op = "complete" /\ x.pc = "written"
    /\ recs' = [recs EXCEPT ![x.asm] = Replace(@, x.deleted, findings)]
    /\ status' = [status EXCEPT ![x.asm] = "completed"]
    /\ completions' = [completions EXCEPT ![x.asm] = @ + 1]
    /\ txn' = [u \in Reqs |->
          IF u = t THEN Idle
          ELSE AfterCommit(txn[u], "complete", x.asm, x.deleted, Evaluate[x.facts])]
    /\ UNCHANGED <<published, responses, passes>>

-----------------------------------------------------------------------------
(* PATCH /recommendations/{id}: an edit round when the patch carries text, *)
(* or nothing at all, and then a verdict round when it carries a status.   *)

EditRound(edit, verdict) == edit # Keep \/ verdict = Keep

\* Mutant of Target: a verdict does not record its reviewer.
TargetUnsigned(row, u, edit, verdict) ==
    IF EditRound(edit, verdict)
        THEN [text |-> IF edit = Keep THEN row.text ELSE edit, status |-> "edited", by |-> u]
        ELSE [row EXCEPT !.status = verdict]

\* Mutant of Target: an edit sends the recommendation back to be reviewed.
TargetReopens(row, u, edit, verdict) ==
    IF EditRound(edit, verdict)
        THEN [text |-> IF edit = Keep THEN row.text ELSE edit, status |-> "draft", by |-> u]
        ELSE [row EXCEPT !.status = verdict, !.by = u]

\* The recommendation that RecommendationService hands to update().
Target(row, u, edit, verdict) ==
    IF EditRound(edit, verdict)
        THEN [text |-> IF edit = Keep THEN row.text ELSE edit, status |-> "edited", by |-> u]
        ELSE [row EXCEPT !.status = verdict, !.by = u]

PatchBegin(t, u, o, a, r, edit, verdict) ==
    /\ MayStart(t, "patch", a)
    /\ Authorized(u, "recommendation:edit", o, a)
    /\ verdict # Keep => HasPermission(u, "recommendation:approve", o)
    /\ r \in DOMAIN recs[a]
    /\ txn' = [txn EXCEPT ![t] =
          [op |-> "patch", pc |-> "loaded", user |-> u, asm |-> a, rule |-> r,
           edit |-> edit, verdict |-> verdict,
           new |-> Target(recs[a][r], u, edit, verdict), cols |-> {}]]
    /\ UNCHANGED data

Patching(t, pcs) == txn[t].op = "patch" /\ txn[t].pc \in pcs

RowGone(t) == txn[t].rule \notin DOMAIN recs[txn[t].asm]

Current(t) == recs[txn[t].asm][txn[t].rule]

\* The row is gone when it is loaded (NotFound), selected again by update()
\* (KeyError) or updated (StaleDataError): the request fails and rolls back.
PatchMiss(t) ==
    /\ Patching(t, {"reload", "loaded", "selected"})
    /\ RowGone(t)
    /\ txn[t].pc = "selected" => txn[t].cols # {}
    /\ Finish(t)
    /\ UNCHANGED data

\* update() selects the row anew and assigns every field of the target to it:
\* the flush will write the columns that differ from what was just read.
PatchSelect(t) ==
    /\ Patching(t, {"loaded"}) /\ ~RowGone(t)
    /\ txn' = [txn EXCEPT ![t].pc = "selected",
                          ![t].cols = {c \in Columns : txn[t].new[c] # Current(t)[c]}]
    /\ UNCHANGED data

\* No column differs: no UPDATE is sent and no lock is taken.
PatchNoChange(t) ==
    /\ Patching(t, {"selected"}) /\ txn[t].cols = {}
    /\ IF EditRound(txn[t].edit, txn[t].verdict) /\ txn[t].verdict # Keep
          THEN txn' = [txn EXCEPT ![t].pc = "reload", ![t].edit = Keep]
          ELSE txn' = [txn EXCEPT ![t].pc = "written"]
    /\ UNCHANGED data

PatchBlock(t) ==
    /\ Patching(t, {"selected"}) /\ txn[t].cols # {} /\ ~RowGone(t)
    /\ Locked(t, Tuple(txn[t], txn[t].rule))
    /\ txn' = [txn EXCEPT ![t].pc = "blocked"]
    /\ UNCHANGED data

\* The UPDATE.  From here the row is locked, so the verdict round of a patch
\* that carries both works on the row this request has just written.
PatchUpdate(t) ==
    /\ Patching(t, {"selected", "blocked"}) /\ txn[t].cols # {} /\ ~RowGone(t)
    /\ ~Locked(t, Tuple(txn[t], txn[t].rule))
    /\ IF txn[t].verdict = Keep
          THEN txn' = [txn EXCEPT ![t].pc = "written"]
          ELSE txn' = [txn EXCEPT ![t].pc = "written",
                                  ![t].new.status = txn[t].verdict,
                                  ![t].cols = IF EditRound(txn[t].edit, txn[t].verdict)
                                                  THEN @ \cup {"status", "by"} ELSE @]
    /\ UNCHANGED data

PatchReload(t) ==
    /\ Patching(t, {"reload"}) /\ ~RowGone(t)
    /\ txn' = [txn EXCEPT ![t].pc = "loaded",
                          ![t].new = Target(Current(t), txn[t].user, txn[t].edit, txn[t].verdict)]
    /\ UNCHANGED data

Merge(row, new, cols) ==
    [text   |-> IF "text" \in cols THEN new.text ELSE row.text,
     status |-> IF "status" \in cols THEN new.status ELSE row.status,
     by     |-> IF "by" \in cols THEN new.by ELSE row.by]

PatchCommit(t) ==
    /\ Patching(t, {"written"})
    /\ IF txn[t].cols = {} THEN UNCHANGED recs
       ELSE recs' = [recs EXCEPT ![txn[t].asm][txn[t].rule] =
                        Merge(Current(t), txn[t].new, txn[t].cols)]
    /\ Finish(t)
    /\ UNCHANGED <<published, status, responses, completions, passes>>

-----------------------------------------------------------------------------
\* Any request in flight may fail: the client or the process goes away, the
\* database connection drops, an uncaught exception ends the route.
Abort(t) ==
    /\ txn[t] # Idle
    /\ Finish(t)
    /\ UNCHANGED data

WriteStep(t) == DeleteRow(t) \/ InsertRow(t) \/ Clash(t)

CompleteStep(t) == CompleteSelect(t) \/ CompleteSetStatus(t) \/ CompleteCommit(t)

PatchStep(t) ==
    \/ PatchMiss(t) \/ PatchSelect(t) \/ PatchNoChange(t) \/ PatchBlock(t)
    \/ PatchUpdate(t) \/ PatchReload(t) \/ PatchCommit(t)

Advance(t) == WriteStep(t) \/ SaveCommit(t) \/ CompleteStep(t) \/ PatchStep(t)

Begin(t, u, o, a) ==
    \/ \E payload \in Answers :
          \E order \in [DOMAIN payload -> 1 .. Cardinality(DOMAIN payload)] :
             SaveBegin(t, u, o, a, payload, order)
    \/ CompleteBegin(t, u, o, a)
    \/ \E r \in Rules, edit \in Texts \cup {Keep}, verdict \in Verdict \cup {Keep} :
          PatchBegin(t, u, o, a, r, edit, verdict)

Next ==
    \/ \E u \in Users, o \in Orgs, tp \in Templates :
          \/ PublishTemplate(u, o, tp)
          \/ \E a \in Assessments : CreateFromTemplate(u, o, tp, a)
    \/ \E t \in Reqs, u \in Users, o \in Orgs, a \in Assessments : Begin(t, u, o, a)
    \/ \E t \in Reqs : Advance(t) \/ Abort(t) \/ DeadlockVictim(t)

Spec == Init /\ [][Next]_vars

-----------------------------------------------------------------------------
(* Properties that hold however requests overlap. *)

\* A completion lands as one whole: recommendations and the audit row are there
\* exactly when the assessment is completed, whatever fails on the way
\* (AssessmentService.complete, "the transaction boundary").
CompletionIsAtomic ==
    \A a \in Assessments :
        /\ DOMAIN recs[a] # {} => status[a] = "completed"
        /\ completions[a] > 0 <=> status[a] = "completed"

\* Nothing but a completion adds or removes a recommendation, and one that
\* commits leaves a row for each of its findings: reviewers never change which
\* rules fired (RecommendationService, "the boundary the consultant cannot cross").
Completes(t, a) ==
    On(t, "complete", a) /\ txn'[t] = Idle /\ completions'[a] = completions[a] + 1

ProvenanceIsFrozen ==
    [][\A a \in Assessments :
         DOMAIN recs'[a] # DOMAIN recs[a] =>
             \E t \in Reqs : Completes(t, a) /\ Evaluate[txn[t].facts] \subseteq DOMAIN recs'[a]]_vars

\* Tenant isolation: an assessment changes only when a request commits whose
\* caller holds, in the organization that owns it, the permission of that
\* operation (authorize() and the organization filter of every query).
NeededFor(x) ==
    CASE x.op = "patch" /\ x.verdict # Keep -> {"recommendation:edit", "recommendation:approve"}
      [] x.op = "patch" -> {"recommendation:edit"}
      [] OTHER -> {"assessment:complete"}

TenantIsolation ==
    [][\A a \in Assessments :
         (recs'[a] # recs[a] \/ responses'[a] # responses[a] \/ completions'[a] # completions[a])
         => \E t \in Reqs :
               /\ txn[t] # Idle /\ txn'[t] = Idle /\ txn[t].asm = a
               /\ NeededFor(txn[t]) \subseteq PermissionsIn(txn[t].user, OrgOf[a])]_vars

\* Only saves can wait for each other in a circle, for they list their rows as
\* the client did (save_responses).  Two completions insert in the order of the
\* engine and lock the assessment last, and where they delete one of them has
\* committed; a review waits for one lock when it holds none.
OnlySavesDeadlock ==
    \A S \in SUBSET Reqs : Stuck(S) => \A t \in S : txn[t].op = "save"

\* No answer and no recommendation is lost to an older request: one that commits
\* leaves alone every row that others have committed since its DELETE looked, or
\* fails on it - which only the unique key tells it (save_responses,
\* save_for_assessment).
NewerRowsSurvive ==
    [][\A t \in Reqs :
         LET x == txn[t] IN
         /\ SaveCommit(t) => \A k \in x.since :
               k \in DOMAIN responses'[x.asm] /\ responses'[x.asm][k] = responses[x.asm][k]
         /\ CompleteCommit(t) => \A r \in x.since :
               r \in DOMAIN recs'[x.asm] /\ recs'[x.asm][r] = recs[x.asm][r]]_vars

\* Review work is lost to nothing but a second completion of the assessment: until
\* one commits, a recommendation that a consultant has touched stays, and does not
\* go back to draft.
ReviewsAreKept ==
    [][\A a \in Assessments : \A r \in DOMAIN recs[a] :
         recs[a][r].status # "draft" =>
             \/ r \in DOMAIN recs'[a] /\ recs'[a][r].status # "draft"
             \/ completions'[a] > 1 /\ completions'[a] # completions[a]]_vars

-----------------------------------------------------------------------------
(* Properties that hold when requests of the same operation on the same    *)
(* assessment, other than reviews, do not overlap.  The code does not      *)
(* enforce that; CompletedOnce shows what happens without it.              *)

\* Assessments implements Workspace: seen through the committed rows, the
\* statements of concurrent requests add up to its atomic steps.
W == INSTANCE Workspace

ImplementsWorkspace == W!Spec

\* "You can't complete twice" (user guide), "idempotency guard" (complete).
CompletedOnce == \A a \in Assessments : completions[a] <= 1

\* The recommendations are the findings of the facts that were evaluated, no
\* more and no less (README: "can be traced to a rule, an input").
RecsAreTheFindings ==
    [][\A a \in Assessments :
         completions'[a] # completions[a] =>
             \E t \in Reqs : Completes(t, a) /\ DOMAIN recs'[a] = Evaluate[txn[t].facts]]_vars

\* A PUT replaces: a save that commits leaves exactly its payload, never a blend
\* of it with the answers it found, and nothing else touches them (save_responses).
AnswersAreOnePayload ==
    [][/\ \A t \in Reqs : SaveCommit(t) => responses'[txn[t].asm] = txn[t].payload
       /\ \A a \in Assessments :
            responses'[a] # responses[a] => \E t \in Reqs : On(t, "save", a) /\ SaveCommit(t)]_vars

\* A reviewed recommendation names a reviewer who may review in that
\* organization, and a draft names nobody, though an UPDATE writes only the
\* columns that changed since it read the row.
ReviewsAreAttributed ==
    \A a \in Assessments : \A r \in DOMAIN recs[a] :
        LET row == recs[a][r] IN
        /\ row.by = NoOne <=> row.status = "draft"
        /\ row.by # NoOne => HasPermission(row.by, "recommendation:edit", OrgOf[a])
        /\ row.status \in Verdict => HasPermission(row.by, "recommendation:approve", OrgOf[a])
=============================================================================
