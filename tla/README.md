# AI Advisory Platform: formal models and proofs

TLA+ models of the backend of the AI Advisory Platform (`src/backend/app`), the
TLC runs that check them on small instances, and theorems about them that TLAPS
checks for every value of the constants.

The platform lets an organization answer an assessment. A deterministic rule
engine turns the answers into findings, an LLM words each finding (with a
deterministic fallback), consultants review the resulting recommendations, and
a worker renders the approved ones into a PDF report. The backend is a FastAPI
process (several threads, several replicas) and Celery workers, around one
PostgreSQL database, an object store and Redis. There is no lock, queue or
shared object inside a process that matters: **what is concurrent is database
transactions, tasks and objects**, and that is what the models are about.

## 1. Inventory

| Component | State it keeps | Operations | Talks to |
|---|---|---|---|
| Authorization kernel (`domain/access.py`, `api/deps.py`) | none (policy table; roles come from the membership rows of the caller, read once per request) | `authorize`, `require` | called first by every route and service |
| Templates (`template_service.py`) | template rows, draft or published | create, publish, read | read by create and save of assessments |
| Assessment lifecycle (`assessment_service.py`) | assessment row (status), response rows, audit rows | create from template, save responses, complete, list | rule engine and LLM pipeline (calls); recommendation rows |
| Rule engine (`domain/rules`) | none | validate, evaluate a condition tree, evaluate a ruleset | called by complete |
| LLM gateway and enhancement (`llm/`) | `llm_calls` rows; `last_call` of the provider | enhance each finding, retry, ground, fall back, record | OpenRouter; called by complete |
| Consultant workspace (`recommendation_service.py`) | recommendation rows (narrative, status, editor) | PATCH: edit, approve, reject | rows that complete inserted |
| Report publication (`reports/service.py`, `worker/tasks.py`) | report row, PDF object, task queue | request, render and publish (worker), read | gate reads recommendations; Celery; object store |
| Documents (`document_service.py`) | document row, object, task queue | upload, scan (worker), download | object store, Celery |
| Accounts and sessions (`auth_service.py`, `infra/auth.py`) | users, verification and reset tokens, `session_version` | sign-up, verify, sign-in, reset, switch organization | e-mail; checked by every request |
| Organizations, members, row-level security (`organization_service.py`, `infra/db.py`, migration 0009) | organizations, memberships; the tenant variable of a transaction | create, invite, remove | source of the roles |
| Rate limiter (`api/middleware.py`) | hit lists, or Redis buckets | allow | every request |
| Evaluation and admin metrics | evaluation runs | run, list, collect | rule engine, LLM; aggregates |
| Notification, configuration, health, report layout, frontend BFF, migrations and seed | none of their own | | |

Hard behaviours, and where they are met:

* *Overlapping requests.* `complete()` reads the status, spends seconds in LLM
  calls and then writes; reviews and saves read, compute and write. No row is
  locked before it is written, so the guard of a request can be stale when it
  writes. (Assessments)
* *Deferred, column-wise writes.* SQLAlchemy writes the columns that differ
  from the row it read last, so two updates of one row merge. (Assessments,
  Reports)
* *Delete and insert under fixed keys.* `save_responses` and
  `save_for_assessment` replace a set of rows whose primary keys are computed
  from the assessment; overlapping replacements wait, fail or blend.
  (Assessments)
* *Three stores, no common transaction.* The report row, the task and the PDF
  change in separate steps: commit before enqueue, object before row. (Reports,
  Documents)
* *Workers die, tasks are delivered again.* `acks_late` and
  `reject_on_worker_lost`. (Reports, Documents)
* *Check far from use.* The approval gate, tokens that are single-use, the
  version of a session. (Reports, Accounts)
* *A second isolation layer that the tests do not have.* The tests run on
  SQLite; the policies of row-level security exist in PostgreSQL only.
  (Accounts, Documents)
* *A service that may answer anything.* Timeouts, retries, replies that are not
  what was asked for, and a `last_call` that outlives its call. (LlmGateway)
* *Data of any type under rules of any shape.* Conditions meet answers they
  were not written for. (RuleEngine)

What makes each part correct: an assessment is completed once and as a whole;
its recommendations are the findings of the answers that were evaluated; review
work is kept and signed; nothing a tenant owns changes on behalf of somebody
without rights there; only approved text is published; a published report can
be downloaded; only a scanned document is; a session ends with its password; the
findings are what the rules say, and a model's prose is in a recommendation only
if it is grounded; a request ends and a task is not lost.

The full list of hazards, each at its line, is in `PROJECT.json`.

## 2. Modules

| Module | What it is |
|---|---|
| `Access` | roles, permissions, policy and the default-deny check, as constants |
| `Rows` | the rows that lifecycle, workspace and reports share |
| `Workspace` | abstract specification: what lifecycle and reviews promise to the rest |
| `Assessments` | the detailed lifecycle and workspace: requests as database transactions |
| `AssessmentsProofs` | theorems about `Assessments`, however requests overlap |
| `SerialProofs` | theorems about `Assessments` when completions of one assessment do not overlap; the refinement of `Workspace` |
| `Reports` | report publication, with `Workspace` as its moving environment |
| `ReportsProofs` | theorems about `Reports` |
| `Accounts` | accounts, sessions, reset tokens, organizations and memberships: requests, browsers and mailboxes |
| `AccountsProofs` | theorems about the sessions of `Accounts` |
| `MembershipProofs` | theorems about its organizations, memberships, scopes and used tokens |
| `ScanGate` | abstract specification: what the document module promises |
| `Documents` | uploads, scan tasks, downloads and links |
| `DocumentsProofs` | theorems about `Documents` |
| `Advice` | abstract specification: what the enhancement pipeline promises, and what it keeps of that |
| `LlmGateway` | posts, retries, replies, grounding, fallback and telemetry over a list of findings |
| `LlmGatewayProofs` | theorems about `LlmGateway` |
| `RuleEngine` | the rule engine and the validation of answers, as operators |
| `Pipeline` | what uses engine and gateway: a completion from its template to its recommendations, and the run of an evaluation |
| `PipelineProofs` | theorems about `RuleEngine` and `Pipeline`, for any rules, answers and datasets |
| `MCAssessments`, `MCReports`, `MCAccounts`, `MCDocuments`, `MCPipeline` | instances for TLC |

`Rows` extends `Access`; `Workspace`, `Assessments` and `Reports` extend `Rows`.
`Assessments` instantiates `Workspace` and is shown to implement it
(`ImplementsWorkspace`); `Reports` instantiates it and lets its steps interleave
with its own, so the two detailed models meet at one abstract specification
instead of being multiplied with each other. `Accounts` and `Documents` extend
`Access`; `Documents` instantiates `ScanGate`, `LlmGateway` instantiates
`Advice`, and `Pipeline` extends `RuleEngine` and `LlmGateway` and composes
them: the findings of the engine are the list that the gateway goes through.

A definition whose comment begins with *Mutant of* is a deliberately wrong form
of the definition that follows it. No specification uses it; putting it in the
place of the right one makes the property named in `PROJECT.json` fail, which
shows that the property depends on that code.

### Assessments

| Model | Code |
|---|---|
| `status`, `responses`, `recs` | `Assessment.status`, `Response` and `RecommendationRow` rows, as **committed**; the rows of an assessment are functions on their computed keys |
| `completions` | audit rows `assessment.completed` |
| `passes` | enhancement passes, whose LLM calls are billed and not undone |
| `txn[t]` | request `t`: operation, how far it is, what it read, what it will write |
| `SaveBegin`, then row by row `DeleteRow`, `InsertRow`, `SaveCommit` | `PUT /assessments/{id}/responses` |
| `CompleteBegin`, `CompleteSelect`, then row by row `DeleteRow`, `InsertRow`, then `CompleteSetStatus`, `CompleteCommit` | `POST /assessments/{id}/complete` |
| `PatchBegin` ... `PatchCommit` | `PATCH /recommendations/{id}` |
| `Abort` | any exception, lost connection or killed process: the session is closed and rolls back |

One step is one statement (or several statements between which nothing another
request does can be told apart). PostgreSQL itself is not under `src/`; it is
modelled from how the code uses it, at its default isolation READ COMMITTED:

* a statement sees the rows that were committed when it started (`victims` of a
  DELETE, the second SELECT of `update()`);
* a row that a transaction has inserted, updated or deleted is locked until it
  ends (`Held`); a DELETE and an UPDATE wait for it, and an INSERT waits for an
  uncommitted row with its key (`Asks`, `Locked`);
* rows are locked and inserted one at a time: those of a save in the order of
  the client's list, those of a completion in the order of the engine, which is
  stable (`NextRows`); the assessment row comes after them (`CompleteSetStatus`);
* requests that wait for each other in a circle (`Stuck`) are a deadlock, and
  PostgreSQL makes one of them fail (`DeadlockVictim`);
* a DELETE that waited skips rows that are gone by then; an UPDATE that waited
  for a deleted row matches nothing, which SQLAlchemy reports as
  `StaleDataError`, and the request fails (`AfterCommit`);
* an INSERT whose key has been committed meanwhile raises `IntegrityError`
  (`Clash`).

`since`, the rows that others have committed after the DELETE of a request
looked, is history.

`update()` selects the row again (the object of the first read is garbage by
then, so this is a fresh read), assigns all columns and flushes; the UPDATE names
the columns that differ from that second read (`PatchSelect`), and `Merge` is
what it does to a row that has changed once more.

Abstractions. The four narrative columns are one text: an edit changes one or
more of them, and the properties tell apart only whether a text was reviewed.
A DELETE meets its rows in any order. Payloads that validation refuses are left out: they change nothing. The
ruleset is the constant `Evaluate`. Roles are constants, for each request reads
them once at its start. Template drafts are the templates not yet in
`published`.

`InFlight` bounds how many requests of each kind are in flight **for one
assessment**. It is not something the code enforces. It separates what holds
always from what holds when the clients of an assessment complete it and save
its answers one request at a time, which is the case the code is written for:
the frontend has one form and one button.

### Workspace

`Create`, `Complete` (all drafts at once, once per assessment) and `Review`. It
says nothing of statements, locks or text merging: a review may leave any text,
with a status other than draft and the name of somebody entitled.

### Reports

| Model | Code |
|---|---|
| `report[a]` | row `report:<a>`: status, and whether it has a storage key |
| `object[a]` | the PDF under the one key of the assessment: the lines it prints |
| `queue[a]`, `worker[w]` | messages of `reports.generate`; worker processes |
| `RequestReport` ... `RequestEnqueues` | gate, read of the row, commit, then `delay()` |
| `Take`, `Validate` or `Refuse`, `List`, `Store`, `Read`, `Publish`, `Ack` | `generate_report` and `ReportService.generate` |
| `RequestFails`, `TaskFails` | an exception or a dead API process; a handler that raises (rolled back and acknowledged) |
| `Crash` | a worker process that dies before it acknowledges |
| `vetted[a]` | history variable: every (rule, text) that was approved at some time |

### Accounts

| Model | Code |
|---|---|
| `account[u]`, `version[u]` | the `users` row: `email_verified_at`, `session_version` |
| `orgs`, `member[o][u]` | `organizations`, `organization_members` |
| `link[u]`, `token[k]` | the rows of verification and reset tokens |
| `inbox` | what reached a mailbox; a mail leaves before its commit (`Send`), and may be lost |
| `session[b]` | the JWT cookie that Auth.js keeps for a browser: user, active organization, `session_version` |
| `req[r]` | a request in flight, with what it has read; for a tenant route also `app.current_org` and `app.bypass_rls` of its transaction |
| `SignupCheck`, `SignupFlush`, `SignupClash`, `SignupCommit`, `Verify` | `signup`, `verify_email` |
| `SigninRead`, `SigninMint`, `Signout`, `SwitchCheck`, `SwitchReply` | `authenticate`, `switch_organization` and the `jwt` callback |
| `ForgotFlush`, `ForgotCommit`, `ResetRead`, `ResetCommit` | `forgot_password`, `reset_password` |
| `GetCaller`, `ReadMemberships`, `RestoreRls` | `get_caller`: the bypass is turned on, the memberships are read across organizations, the bypass is turned off |
| `Guard` | `require()`: the roles of the memberships that were read, then the scope; the bypass is whatever `get_caller` has left |
| `Invite`, `Remove`, `CreateOrganization`, `Collect` | the routes behind it; `Admits` is the policy of migration 0009 |
| `Abort` | any request that is refused, fails or dies |

`resets`, `uses` and the field `gen` are history variables. `Excluded` names the
operations that one user never has in flight together: like `InFlight`, it is
not enforced by the code, it separates what always holds from what holds when a
user does one of them at a time. Password hashing, the equal time of an unknown
address, and clocks are left out; a link or a token may expire at any time.
What the model shows of the code beyond the properties: nothing accepts an
invitation, so an invited member stays invited; a removed address cannot be
invited again; the frontend sends no session version with a switch, so that
after a reset every switch is refused; and `POST /organizations` never makes an
organization: "The creator becomes an active member of the new org."
(`organization_service.py:48`), but the transaction is still scoped to the
active organization, so that the policy of migration 0009 refuses the member's
row and the request fails with all it has written (`CreateOrganization`). The
tests run on SQLite, which has no policies. `SignupCommit` does not have this
problem: sign-up sets the scope first.

### Documents and ScanGate

| Model | Code |
|---|---|
| `object[d]`, `row[d]` | the object under the storage key, the `documents` row |
| `upload[d]` | the request that uploads: `UploadStores`, `UploadCommits`, `UploadEnqueues`, or `UploadFails` after any of them |
| `queue[d]`, `worker[w]` | messages of `documents.scan`, worker processes |
| `Take`, `ScanReads`, `ScanCommits`, `Ack`, `ScanFails`, `Crash` | `scan_document` and its session |
| `Visible` | the policy of row-level security in the session of the task |
| `Download`, `links` | `download_url`; a link lives until it expires |
| `Accepts`, `AllowedTypes`, `Magic` | `validate_upload` |

The MIME type that is recorded is `next(iter(...))` of a set of strings, so a
choice among the types allowed. Nothing makes a document infected: the scanner
is a stub that approves. `ScanGate` has one variable for the documents and one
for who holds a link; in the mapping a document appears when its row commits
and has the scan status of the row, and the objects, requests, tasks and
workers disappear.

### LlmGateway and Advice

`pc`, `attempt`, `lastExc` and `lastCall` are the loop of
`OpenRouterProvider.enhance` and the attribute `last_call`; `recs` and `calls`
are what `enhance_findings` returns and what its sink is given; `said` is a
history of what came back of the posts for each finding. One step is one post
with its outcome, or the end of the loop. The two ways out of the error
handling are kept: an `LLMError` becomes a deterministic narrative, anything
else (`Malformed`, `OddReferences`) escapes and ends the request. A provider
made for a completion is new and has a telemetry sink; that of an evaluation
goes on with the `last_call` of the item before (`Begin`).
Prices are not passed to the provider, so every `cost_estimate` is zero; the
model leaves money out.

`Advice` has open positions, those about which a grounded reply was heard, those that
are advised, with the source of the prose, and a phase. `Advice!Spec` is the promise of
`enhancement.py`: every finding gets one recommendation, `"llm"` with a grounded
reply about it and `"fallback"` without. The code does not keep it
(`pipeline_promise`): an exception that is no `LLMError` ends the pass and the
completion. `Advice!Fallible` adds that as `Fail`, which leaves no recommendation
behind, and is what the gateway implements (`ImplementsAdvice`). Posts and retries
disappear in the mapping; each `Settle` is an `Enhance` or a `FallBack`, and each
exception that escapes a `Fail`.

### RuleEngine and Pipeline

`RuleEngine` has values as records named for their Python type (`True` equals 1, a
text is known by the texts within it), and three outcomes of a condition, `"true"`,
`"false"` and `"raises"`: an exception is an outcome, and `all` and `any` stop at the
first that decides (`Decide`). A condition is a node of a constant set `Conditions`
that refers to other nodes (`Parts`); `Height` says that the trees are finite, as
documents are. The recursion of `validate_condition` and `evaluate_condition` is one
recursive function each over these nodes (`Validity`, `Evaluation`), with `Look` for
the nodes without parts. The sort of the findings, which is stable, is `Place`: how
many of the rules that fired come sooner. `Holds` is the reference: a condition read as
plain logic, without depth and without exceptions; it models no code.

`Pipeline` takes a job through the stages of its requests: a template is created
and published, the ruleset is loaded, answers are validated and saved, the
engine runs, the gateway runs, the transaction commits or rolls back; or an
evaluation goes through the items of its dataset, of which there may be none, and
stores its averages, rounded to four digits. Metrics are exact fractions; Python adds
floats. What this shows of the code beyond the properties: `file_upload` answers take
any text; when a template has a key twice, the later question validates; an evaluation
over an empty dataset, or with a model that is down, passes; and the evaluation of a
condition bounds its depth, but a condition that was validated never meets that bound.
Two details are outside of the properties: `Same` compares lists item by item as they
are, so that `[True]` and `[1]` differ (engine and reference use the same operator),
and halves are rounded up, where Python rounds them to even.

## 3. Runs

| Run | Question | Result |
|---|---|---|
| `assess_overlap` | What holds however completions, saves and a review overlap, row by row? Who can deadlock? | `TypeOK`, `CompletionIsAtomic`, `ProvenanceIsFrozen`, `NewerRowsSurvive`, `OnlySavesDeadlock` hold |
| `assess_serial` | What holds when completions and saves of one assessment do not overlap, and reviews do? | `ImplementsWorkspace`, `RecsAreTheFindings`, `AnswersAreOnePayload`, `ReviewsAreAttributed`, `ReviewsAreKept`, `TenantIsolation` hold |
| `assess_twice` | Is the status guard enough when completions overlap? | no: completed twice |
| `reports` | What do a published row and the stored PDF guarantee? Are tasks lost? | `PublishedIsDownloadable`, `PdfIsVetted`, `LifecycleIsHonoured`, `CrashesLoseNoReport` hold |
| `reports_gate` | Is nothing pending when a report is published? | no: the gate is read before the render |
| `reports_stuck` | Does a queued report get published? | no: nothing retries a task that met a closed gate |
| `accounts` | Do sessions end with the password, are used tokens dead, do tenants stay apart, when a user resets one at a time? | `SessionsEndAtReset`, `UsedTokensAreDead`, `LiveTokensAreCurrent`, `SessionsAreVerified`, `RlsCoversHandlers`, `NoOrphanOrganization`, `MembersChangeByManagers` hold |
| `accounts_switch` | Does a session end if a switch of organization overlaps the reset? | no: the cookie takes the new version |
| `accounts_tokens` | Is a reset token single-use when two resets overlap? | no: both read it unused |
| `documents` | What may stop, crash or be delivered twice, without serving an unscanned file or losing a scan? | `ServedAreVetted`, `RowsNameObjects`, `TasksFindTheirRow`, `CrashesLoseNoScan` and `ImplementsScanGate` hold |
| `pipeline` | Are findings what the rules say, and recommendations what the replies deserve? When does a run fail, and when does an evaluation pass? | `TypeOK`, `FindingsAreTheRules`, `EngineRaisesOnlyInTexts`, `RecommendationsAreVetted`, `TelemetryIsOwn`, `AsksAgainOnlyIfTransient`, `EvaluationGateHolds`, `AveragesAgree`, `EnhancementEnds` and `ImplementsAdvice` hold |
| `pipeline_promise` | Does every finding get a recommendation, whatever the model answers? | no: an unexpected body is not an `LLMError` |

The six violations are behaviours of the code that disagree with its own
comments or documents; `findings` in `PROJECT.json` quotes them. All but
`pipeline_promise` share one shape: a condition read in one statement and relied on
in a later one. The remedies are small: `SELECT ... FOR UPDATE` on the assessment in
`complete()` (or an `UPDATE ... WHERE status = 'in_progress'` first) and on the reset
token, a check of the gate in the transaction that publishes, a retry or a failed
status in the worker, the version that was checked in the reply to a switch, and a
fallback on every exception of the gateway.

Two more disagreements need no run, for each is one step of a model: an organization
that is refused to its creator (section 2, Accounts), and a PATCH without fields, "no-op
edit returns current" (`recommendations.py:47`), which runs `edit()` and takes an approved
recommendation back to edited (`EditRound`, `Target`).

### Bounds, and why they are enough

* *One assessment.* No statement of one assessment reads or locks a row of
  another; `TenantIsolation` needs two organizations and two users, not two
  assessments: the second organization is the one that must not reach it.
* *Two requests in flight.* Every conflict is between the locks or snapshots of
  two transactions. `assess_overlap` allows two completions, two saves, or any two
  of a completion, a save and a review: a review that starts between the two commits
  of overlapping completions finds its row gone (`PatchMiss`).
  `assess_serial` allows two reviews of one recommendation, or one beside a completion
  or a save. Three requests of one kind are in no run; the theorems are for any number.
* *Two keys* in `assess_overlap`, listed in either order: the least with which two
  saves can lock in opposite orders. `assess_serial`, where saves do not overlap, has
  one key: its payloads are the empty and the full one. About 667,000 and
  272,000 states.
* *Two rules,* one firing when a question is answered and one when a question is
  not: completions over different answers find different sets, disjoint ones too,
  which is what makes mixtures and clashes visible.
* *Two texts* where reviews matter, to tell an edit from the generated text; one
  in `assess_overlap`, where no property looks at texts.
* *`MaxPasses` = 2*: a second completion can start, be refused, clash or
  succeed. Completions that abort use up passes too; then only the first
  kind of request is still limited, and everything else goes on.
* `reports`: two requests, two workers and at most two requests and one crash:
  three deliveries of a task, two of them at the same time, each stale against the
  other's commit. One recommendation with two texts and unlimited reviews.

* `accounts`: two users (one seeded with two organizations, one who signs up
  and brings a third), a fourth organization id to create, one browser, two
  requests in flight, two reset tokens and two resets a user: a reset beside a
  sign-in, a second token beside the one used, a session of an earlier
  generation. About 1.12 million states. `OneByOne` keeps a reset of a user apart from
  his other resets, requests for a token and switches, and, for size only, lets
  a user be in one handler at a time with nothing but a sign-up beside it:
  `get_caller` and `require` read and write the variables of their own transaction, and
  `RlsCovers` is proved without that. `accounts_switch` and `accounts_tokens` lift what
  they are about.
* `documents`: two documents and two workers, so that one document's tasks run
  at the same time, or both documents' do; a publication may be delivered twice
  and one worker may die, three deliveries in all. `MaxBytes` is 1: sizes 0, 1
  and 2 are the empty, the largest and the too large file. About 363,000 states.
* `pipeline`: conditions of depth 0 to 3 with `MaxDepth` 2 (one past the bound),
  over no answer, null, booleans, numbers, texts and lists; up to three
  findings and `MaxRetries` 2, so that a reply follows transient failures and
  other findings' replies in every order; evaluations of two items, one of them or
  both faulty, and of none. About 458,000 states.

Symmetry is used in the two passing `assess` runs (request slots), and in the `accounts` run
(request slots and reset tokens): there is no liveness in them.

### Fairness

* `Reports!FairSpec`: weak fairness of the steps of API threads and worker
  processes. Nobody is assumed to ask for a report, to review, to crash or to
  fail. `Take` is part of it: a free worker takes what is queued.

* `Documents!FairSpec`: weak fairness of each worker's steps. A worker process is
  scheduled, and the broker hands out what it has. Uploads have no fairness:
  their steps may be the last ones of their request.
* `Pipeline!Spec`: weak fairness of `Next`. There is one thread, and it runs
  until its request is answered; a post has a timeout, so something always comes
  back. Which outcome comes back is left open.
* `Assessments` and `Accounts` have no liveness: that a request ends hangs on the
  database and its timeouts. What the code decides is who can wait for whom, which
  `OnlySavesDeadlock` states.

`Documents` and `Pipeline` run with `CHECK_DEADLOCK FALSE`: every document may have
been uploaded and its links expired, and a request ends. `Reports` runs with `CHECK_DEADLOCK FALSE`: when the bound on requests is used
up and no recommendation is there to review, the system may stop.

## 4. Proofs

`AssessmentsProofs` holds, for any sets of organizations, users, roles, rules,
keys, values, texts and requests and any `InFlight`:

| Theorem | Says | Inductive argument |
|---|---|---|
| `TypeCorrect` | `Spec => []TypeOK` | `TypeOK` is inductive; the work is that tables stay partial functions (`ReplaceType`) and that a transaction touched by another's commit stays one (`AfterCommitMoves`) |
| `CompletionAtomic` | `Spec => []CompletionIsAtomic` | inductive with `TypeOK`: only `CompleteCommit` adds rows, and a review keeps the domain |
| `ProvenanceFrozen` | `Spec => ProvenanceIsFrozen` | from `TypeOK`, step by step: `FrozenStep` |
| `TenantsIsolated` | `Spec => TenantIsolation` | invariant `Permitted`: whatever is in flight was authorized for what its commit needs; no step changes caller, assessment or need (`SameCaller`), also when another's commit touches it |
| `ReviewsKept` | `Spec => ReviewsAreKept` | `ReviewsDecide`: what a review is about to write is no draft; by `CompletionIsAtomic` a completion that finds a row to delete is not the first |
| `NewerKept` | `Spec => NewerRowsSurvive` | The property says nothing of locks; the invariant does. `WritersApart`: what two requests have deleted or inserted in one table is disjoint, as each row is locked. `WritersSound`: a request has inserted no key that is stored and that it has not deleted, and what others have committed since it looked is stored and none of its own. When one commits, its rows are new to every other (`RivalSound`) |
| `ReviewsDoNotDeadlock` | no review is in a circle of waiting | from `TypeOK`: one that waits holds nothing |

None of these has a condition on `InFlight`.

`SerialProofs`, for finite `Reqs` and otherwise as above, if `InFlight["complete"] <= 1`.
That is the condition under which the code is written; `assess_twice` shows what
becomes of the status guard without it, and these three properties fail with it.
The lemma they start from is `FirstToStart`: a completion that starts finds no other
in flight on its assessment. `SoleCompletion` is what follows: one in flight is the only
one, and the assessment is still in progress, so with `CompletionIsAtomic` it has no
recommendations.

| Theorem | Says | Inductive argument |
|---|---|---|
| `ReviewsAttributed` | `Spec => []ReviewsAreAttributed` | Not inductive: an UPDATE writes some columns of a row that may have changed since it was read. `PatchesAreHonest`: the row of a review in flight stays there, what it will write is signed by its caller and no draft, and if the flush leaves out the status or the signature, the row had them already. It needs `SoleCompletion`, for a second completion would put a draft in the place of the row; and `ReviewersApprove`: the roles that may edit are those that may approve |
| `FindingsStored` | `Spec => RecsAreTheFindings` | there is nothing to delete, so what a completion inserts is all there is |
| `WorkspaceImplemented` | `Spec => ImplementsWorkspace` | step simulation over the invariant `Good`: `CompleteCommit` is `Complete`, `PatchCommit` a `Review` or a stutter, creation is `Create`, every statement before a commit stutters |

`ReportsProofs`, for any organizations, users, roles, rules, texts, requests, workers
and bounds, while reviewers take any steps of `Workspace`:

| Theorem | Says | Inductive argument |
|---|---|---|
| `TypeCorrect` | `Spec => []TypeOK` | the bound of the queue is not inductive: a crash puts a task back. `TasksAreCounted`: messages, busy workers and requests about to send, together, never exceed the requests made |
| `Downloadable` | `Spec => []PublishedIsDownloadable` | `TasksAreHonest`: a task that has got past its upload has its object in the storage, whoever commits; `RequestsAreHonest`: the stale row that a request or task merges is one of two (`RowsAreConsistent`) |
| `Vetted` | `Spec => []PdfIsVetted` | `LinesAreVetted`: what a worker has rendered was approved when it read it, and the history `vetted` only grows |
| `Lifecycle` | `Spec => LifecycleIsHonoured` | from the same invariant: the commit of a row that did not change since it was read changes nothing, so that only the two transitions named are left |

`DocumentsProofs`, for any tenants, roles, files, documents, workers and number of
lost workers:

| Theorem | Says | Inductive argument |
|---|---|---|
| `ServedVetted`, `RowsHaveObjects`, `TasksFind` | `Spec => []ServedAreVetted`, `[]RowsNameObjects`, `[]TasksFindTheirRow` | The first two are not inductive: a link is made from the row, and the row from an upload that is over. `UploadsStoreFirst` keeps what an upload stored, and `RowsComeFromUploads` ties the row to it; with `TasksFindTheirRow`, which the redelivery after a crash needs (the task that died had a row, so the message that comes back has one) |
| `Implements` | `Spec => ImplementsScanGate` | `AbstractSteps` restates the actions of `ScanGate` in terms of the mapping; then `UploadCommits` is an `Accept`, `ScanCommits` a `Clear`, `Download` a `Serve`, the expiry of the last link of an organization an `Expire`, and everything else a stutter |
| `TypeCorrect` | `Spec => []TypeOK` | the bound of two on messages is not inductive: a redelivery adds one. `Bounded`: messages and busy workers together are at most two for each document, and none before the upload sends its task; on top of the invariant above, which has message counts as naturals |

`LlmGatewayProofs`, for any list of findings, any `MaxRetries` and any sequence of
replies:

| Theorem | Says | Inductive argument |
|---|---|---|
| `GatewayTypes` | `GatewaySpec => []GatewayTypeOK` | part of the invariant |
| `Vetted` | `GatewaySpec => []RecommendationsAreVetted` | needs `InStep` (the lists advance together) and `StillOpen` (the finding in hand was answered transiently or not at all) |
| `Telemetry` | `GatewaySpec => []TelemetryIsOwn` | needs `LastCallIsPast`: while a sink is there, `last_call` is about an earlier finding; and `StillOpen`, by which the exception that the loop remembers is what was heard last |
| `Retries` | `GatewaySpec => []AsksAgainOnlyIfTransient` | from `StillOpen` |
| `Implements` | `GatewaySpec => ImplementsAdvice` | `Settle` is `Enhance` or `FallBack` of the finding in hand, by what was heard of it; `Begin` is `Start`, what escapes is `Fail`, the rest stutters |

`AccountsProofs`, for any users, organizations, roles, browsers, tokens and requests,
if `Excluded` contains a reset beside another reset and beside a switch of the same
user (`OneResetAtATime`; without it `SessionsEndAtReset` does not hold, as
`accounts_switch` shows):

| Theorem | Says | Inductive argument |
|---|---|---|
| `Types` | `Spec => []TypeOK` | `resets` stays in its bound because a reset in flight is the only one (`ResetsAreAlone`), so the guard it passed still holds |
| `SessionsEnd` | `Spec => []SessionsEndAtReset` | `VersionsCountResets`: no increment is computed from a stale row, as a reset in flight knows the version (`ResetsAreCurrent`). `SessionsAreHonest`, `SigninsAreHonest`: a session, or a sign-in on its way, carries the version of its password. A switch overwrites the version, but of a user who never reset (`SwitchesAreCurrent`), in the cookie it was asked for (`OneAnswerAwaited`) |

`MembershipProofs`, for the same constants and any `Excluded`, that is, however
requests overlap:

| Theorem | Says | Inductive argument |
|---|---|---|
| `RlsCovers` | `Spec => []RlsCoversHandlers` | `TenantsAreGuarded`: `get_caller` leaves with the bypass off whatever it read with it, and behind the guard, scope and organization are one, which exists, and the caller has the right there |
| `NoOrphan` | `Spec => []NoOrphanOrganization` | `SignupCommit` inserts both rows; `CreateOrganization` inserts neither, for the scope is an organization that exists and the new one is not (`CreateIsRefused`) |
| `SessionsVerified` | `Spec => []SessionsAreVerified` | `UsersAreVerified`: sessions, sign-ins and switches in flight are of verified users, who had the mail; `NewcomersAreNew`: a mail is lost only by a sign-up of somebody without account, who has no link either |
| `UsedTokens` | `Spec => []UsedTokensAreDead` | a reset in flight has a token that exists and was mailed, and nothing makes a used or expired one live again: also when two resets use it, it stays dead |
| `MembersManaged` | `Spec => MembersChangeByManagers` | from `TenantsAreGuarded`; for a sign-up from `NewcomersAreNew` and `MembersAreSomewhere`: the row it writes was not there |

Its invariant has types of its own (`Shapes`): without `OneResetAtATime` two resets
that overlap may pass the bound of `TypeOK` on versions.

`PipelineProofs`, for any finite condition trees, rules, answers and datasets, any bound
on depth and any replies:

| Theorem | Says | Inductive argument |
|---|---|---|
| `FindingsAreRules` | `Spec => FindingsAreTheRules` | `Loaded`: only valid rules reach the engine. `ValidAgrees`: a valid condition is evaluated to what it says as plain logic, or raises; by induction on `Height`, for all depths at which it is valid. `PlaceSorts`: the places of rules that fired are 1 to their number, each once, in the order of `Sooner` |
| `RaisesOnlyInTexts` | `Spec => EngineRaisesOnlyInTexts` | `ValidAgrees` again: an exception has a leaf below the condition that raised it (`LookRaises`) |
| `EvaluationGate` | `Spec => []EvaluationGateHolds` | `InputKnown`: the findings in hand are those of the item in hand; `ResultsAreRight`: an item has passed exactly if it is faultless (`AccuracyIsExact`: an accuracy of one is the exact set) |
| `AveragesTell` | `Spec => []AveragesAgree`, if `SmallDatasets` | `Averaged`: scores are fractions of at most one whose denominators do not exceed `Size`, and the row has their means. `TotalTells`: what is short of one in one fraction stays in the sum; `Rounding`: so it does in the rounded mean, while size times items is below 20,000 |
| `PipelineTypes` | `Spec => []TypeOK` | part of the invariant `Good`; `MeanIsFraction` for the row of an evaluation |
| `GatewayInUse` | `Spec => GatewaySpec` | step simulation over `Good`: the engine gives `Begin` a sequence of findings (`EvaluateFits`), and nothing else touches the gateway |
| `VettedInUse` | `Spec` implies the four properties of `LlmGatewayProofs` | from `GatewayInUse` |

The induction over conditions is done without an induction theorem: `LeastMissing`
takes a node of least rank outside a set, and `FixedPoint` shows from it that a
recursive definition whose steps look only at lower ranks (`Causal`) has a solution,
so that the recursive functions of `RuleEngine`, and the sum in `Total`, are what their
equations say.

`SmallDatasets` is a hypothesis of one theorem, and `AveragesAgree` does not hold without
it: averages are rounded to four digits, so that a single fault in a dataset of some
ten thousand items rounds away, and who reads the averages and not the status is
misled. The dataset of the repository has three items under six rules, where size
times items is at most 39.

The assumptions are `RolesAssumption`, `RowsAssumption`, `AssessmentsAssumption`,
`ReportsAssumption`, `AccountsAssumption`, `IdsAssumption`, `DocumentsAssumption`,
`GatewayAssumption`, `EngineAssumption` and `JobsAssumption`: types of the constants,
that conditions are finite trees, rulesets and datasets finite lists with the types
that their loaders give them, that sign-ups bring organizations of their own
(`create_organization` draws a new id) and a token is not an address, and that the
values that stand for nothing (`Keep`, `NoRow`, `NoCall`, `NoToken`, `NoSession`,
`NoReport`, `NoPdf`) are not what they stand for the absence of. TLC evaluates them in
every run.

Model-checked only: `CrashesLoseNoReport`, `CrashesLoseNoScan` and
`EnhancementEnds`, and the violated `QueuedIsPublished`: liveness under fairness is out of
the prover's reach. `AnswersAreOnePayload` and `LiveTokensAreCurrent` are checked and not
proved: what a proof would rest on is that two saves, or a reset and a request for a
token, do not overlap, which is most of what they say. Of `OnlySavesDeadlock` the part
about reviews is proved (`ReviewsDoNotDeadlock`), for any number of requests; the part
about completions holds for two of an assessment, not for three: when the first has
committed, the other two delete its rows, each in the order its scan finds them.
Every other safety property that a
passing run checks is proved, `SessionsEndAtReset`, the `TypeOK` of `Accounts` and the
three of `SerialProofs` under the condition that the run imposes, `AveragesAgree` for
`SmallDatasets`.

## 5. Plan

The plan of models and proofs is done. What could be added:

1. `AveragesAgree` with the floats that Python adds, in place of exact fractions.
2. The rate limiter, whose window arithmetic no model has (section 6).
3. An engine that is asked several times for one item: the consistency metric compares
   repeats, which agree because the engine is a function of its arguments here; a
   model of the interpreter's state would be needed to ask more.
4. `OnlySavesDeadlock` as a theorem for two completions of an assessment: what each
   has inserted is an initial part of the engine's list, so none waits for the other
   while the other waits for it.

## 6. Not modelled

* *Rate limiter and middleware.* A counter per client address in front of the
  API. No other component reads or writes it, and a request it refuses has not
  started; its window arithmetic is local to one function. Headers, request ids
  and logging are I/O.
* *Audit log.* Rows are written and never read back, except where a property
  needs them (`completions`). That the row of a failed sign-in is added and then
  rolled back with the request is listed as a hazard.
* *Layout and I/O.* HTML and PDF output, the wording of mails and narratives,
  SMTP, health checks, configuration, pages and proxy routes of the frontend,
  counts of the metrics.
* *In-memory repositories* are test doubles of the SQL ones, which are modelled.
* *Migrations* are run once by an operator; of them, the policies of 0009 and the
  keys are in the models.
