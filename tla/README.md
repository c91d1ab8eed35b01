# TitleChain in TLA+

TLA+ models of TitleChain, a decision platform for South African property
transfers: the decision engine, the workflows of a case, the job queue and the
stages of the deeds pipeline, and the portal its analysts and customers work in,
with TLC runs on small instances and TLAPS proofs for all instances. The code is the
reference; every definition that models code is listed with its lines in
`PROJECT.json` ("map").

    tlc -config MCPipelineJobs.cfg MCPipelineJobs      # a run
    tlapm PipelineJobsProofs.tla                       # the proofs of a module

## The system

| component | state | operations | talks to |
|---|---|---|---|
| decision engine (`decisioning/`, `store/decisioning.go`) | none; reads the rows of a case and of its linked property | `LoadNormalizedSnapshot`, `BuildFacts`, `Evaluate` | called by every case workflow at the end of its transaction |
| evidence readiness and reason-code rules (`cases/readiness.go`, `cases/service.go`) | none | `EvaluateEvidenceReadiness`, validation of decisions, closures and exceptions | called by the service before the store's transaction |
| case workflows (`store/cases.go`) | `ops.case_*`: record, matches, evidence, parties, proposals, decisions, audit | create, confirm or reject match, add evidence, add party, reassign, re-evaluate, accept, record, close, reopen | writes `pilot.matter_links`; reads `core.*` |
| customer matters (`store/pilot.go`) | `pilot.matter_links`, `pilot.summary_exports` | create, list, detail, reopen, export | creates and reopens cases |
| customer sessions (`pilot/`) | `pilot.users`, `pilot.sessions` | sign in, current user, sign out | guards the matters |
| job API (`jobs/`, `store/jobs.go`) | `raw.batches`, `ops.runs`, `ops.jobs` | start projection, start ingestion, list | rows taken up by the worker |
| pipeline worker (`worker.rs`, `db/jobs.rs`) | `ops.runs`, `ops.jobs`, `ops.job_attempts` | claim, mark running, begin attempt, complete, fail | runs the stages |
| pipeline stages (`ingestion.rs`, `normalization.rs`, `materialize.rs`, `read_model.rs`, `projection.rs`) | `raw.records`, `stage.*`, `core.*`, `read.*` | land, normalize, materialize, refresh | changes the rows the engine reads |
| property search, analytics | none; they read | search, workspaces, reports | |
| portal: sessions and shell (`_providers/`, `auth/`, `_components/product-shell/`, `server-auth.ts`) | the provider's user in each tab, the browser's cookie | load a document, sign in, sign out, follow a link, redirect | calls `/api/pilot`; guards the operations pages |
| portal: case console (`internal/cases/`) | the case a page shows, the errors of its forms | ten forms and buttons, tabs, reload | server actions, which call the cases API |
| portal: matters and dashboard (`matters/`, `dashboard/`, `internal/cases/new`) | what a page has fetched, the forms that wait, where the router is going | list, record, summary, new matter, reopen | calls the matters API from the browser |
| HTTP layer, in-memory repositories, crates, infrastructure | | | |

The API is Go, the worker Rust, the portal TypeScript. API and worker share one
PostgreSQL database at READ COMMITTED and nothing else; the portal reaches it
through the API, its operations pages from the portal's own server, its customer
pages from the browser. What is hard in it:

- **Check, then act.** The service validates a decision on a case it read outside
  the transaction that writes it, and the store does not look again. The same holds
  for the customer's reopening of a matter.
- **Rows that must agree.** Status, `resolved_at`, customer status, current
  proposal and current decision are written by separate statements in ten
  workflows; each workflow has to keep all of them in step.
- **A rule engine with levels.** The outcome is that of the first level with a
  reason. It must not contradict the rules for manual decisions, nor the evidence
  readiness, which is computed elsewhere from the same rows.
- **A queue with crashes.** A worker may be lost between any two statements, or
  between a commit and its answer; stages must run in order, each at most once
  (their inserts are not idempotent), and the run must follow its jobs.
- **Pages that age.** A page shows what was true when it was fetched; its forms are
  sent later, perhaps twice, and their answers may be lost or come after the page
  was left. The page repeats rules the service has, and the two may drift apart.
- **One cookie, many tabs.** The session belongs to the browser; each tab asks once
  who is signed in and goes on believing the answer.

`PROJECT.json` lists every such place as a hazard, with the properties that cover
it or the reason why none does.

## Modules

| module | models |
|---|---|
| `DecisionRules` | reason codes by category, evidence readiness, what a decision or closure may cite |
| `DecisionEngine` | the property snapshot, the facts, the rules: `Propose(case, property)` |
| `CaseEvaluation` | re-evaluation of a case as the only step, over arbitrary rows |
| `CaseWorkflow` | the workflows of one case and its matter, with requests in flight |
| `CaseLifecycle` | abstract: what a case promises its analyst and customer |
| `PipelineJobs` | runs, jobs, attempts, batches and worker tasks, with faults |
| `RunProgress` | abstract: what the queue promises of a run |
| `Ingestion` | the stages of an ingestion run and the rows they write |
| `PortalCases` | the analysts' page of a case, its forms and server actions, over the rules of the service |
| `PortalAccess` | tabs of a browser, the session cookie, the provider and the guards |
| `PortalViews` | the customer's filters, counts and widgets, as functions of a list of matters |
| `PortalMatters` | the customer's pages and the two forms that create a case, in one tab |
| `MC*` | instances for TLC |
| `*Proofs` | the theorems and their proofs |

`DecisionEngine` extends `DecisionRules`; `CaseEvaluation` and `CaseWorkflow`
extend `DecisionEngine`, so that the engine checked alone over all rows is the one
the workflows call. `PortalCases` extends `DecisionRules`, so that the rules a page
repeats are compared with those the engine and the workflows are checked against;
`PortalMatters` extends `PortalViews`.

### The case

The grain of `CaseWorkflow` is the database transaction: a workflow of the store,
with the re-evaluation, the automatic reopening and the matter's status it ends
with, is one step. `AcceptProposal`, `RecordDecision` and `ReopenMatter` read the
case before their transaction, so each is a `Begin` and a `Finish` step; what
was read travels in `requests[c]`, one slot per request in flight, and everything else
may happen in between. `FailRequest` is a client that went away or a transaction
rolled back. `PipelineUpdate` is the worker changing the rows of the linked
property under the case. One case is the whole system, since no workflow touches
the rows of another. Audit events are left out because nothing reads them.

Analysts type in what identifies an evidence item (`NewEvidence` may hold any key), so
what they submit may overwrite the item the service generated for the linked
property, its status with it. An item submitted as superseded meets no conflict on the
partial index and is inserted beside the live row.

Variables: `caseRec` is the row of `ops.case_records` (status, whether
`resolved_at` is set, the linked property and seed, the title reference);
`matches`, `evidence` and `parties` the child rows; `property` the `core.*` rows of
the linked property; `proposal` and `decision` the current ones; `matter` the
customer status. Text is abstracted to what the engine tells apart: a title
reference is a reference and a spelling, an evidence item a type, a fraud flag and
a status, a note whether there is one.

### The queue

`PipelineJobs` has one step per statement or transaction of `worker.rs` and
`db/jobs.rs`. `workers[w]` is the program counter of a task with the job in its
hands. Each database step comes in two forms: its answer is heard, or the step takes
effect and the task ends; `WorkerLost` is the third case, where it does not take
effect. The source has one task per process; more of them are processes
started side by side, which `FOR UPDATE SKIP LOCKED` is there for. Nothing starts a
task that has ended: `main.rs` joins its tasks, and the process stays up without a
worker. `Restart` is somebody starting a process again, at any time or never. A
run is named by its place in the order of `created_at`, a job by its run and the
position of its kind. What a stage does is a success or a failure.

`JobStatusCheck` is the CHECK of `ops.jobs.status`. The migrations do not admit
`blocked`, which the store writes and the worker looks for, so with them
(`ShippedCheck`) no ingestion ever starts. The remaining runs use
`IntendedCheck`, which admits it, to examine the code behind; the proofs hold
for both.

### The ingestion stages

`Ingestion` takes from `PipelineJobs` that one ingestion run is active at a time
and that its stages run in order, each at most once, and models what they do. A
step is one record of landing (`InsertRawRecord`) or of normalization
(`NormalizeRecord`), one statement of materialization (`Materialize`), or the one
transaction of the refresh (`Refresh`). `worker` holds the stage under way and what
it has read and not yet worked off; since the SELECTs have no ORDER BY, it may
have read its rows in any order, the four stage tables independently. `FailStage` may
come between any two steps and undoes nothing; a worker lost for ever is a stutter.
`payload` is the file of each batch, `raw`, `staged` and `quarantined` its rows,
`core` and `links` the rows of `core.*`, `summaries` those of `read.*`. A text is
abstracted to what `property_fingerprint` and the unique constraints tell apart: an
office has a name and a spelling, a title a reference and a spelling. Of the parties
only owners are kept, since the summaries read no others; the owners and bonds of a
record are finitely many, as a line of a file states them.

Both modules refine `RunProgress`, with the same mapping of the stages done.
`StageReadsWork` says whether the SELECTs of stage rows are valid SQL. In the
source they are not, so no run gets past its third stage (finding 4); the run
`ingestion` takes them as valid to examine the code behind.

### The case console

In `PortalCases` each browser shows a view of the case (`page`), may wait for another
(`load`) and has its server actions in a `queue`, which Next.js carries out one at a
time. A submission is taken from the page (`Submit`), carried out or refused by the
service (`Commit`, `Refuse`, `LoseRequest`), and answered (`AnswerDone`,
`AnswerFailed`). `AnswerFailed` may follow a commit: the answer was lost, or the
action threw after it. Success reloads the page, and a reload drops every answer
the page waits for. `Fillings(form)` is what a form lets be filled in, the `required`
fields and filtered codes included, `Results(case, form, filling)` what the service
makes of it, empty when it refuses. A filling may have a `slip`, which the page lets
through and the service does not: spaces for a required text, or facts that are JSON
and no object (`actions.ts:49` parses them, the service decodes them into a map and
answers 400). What the panels of the page list is abstracted
to `change`, the number of changes the view has seen. The readiness of the case and
the engine's proposal change freely within the rules, since `CaseWorkflow` has the
rows behind them.

### Tabs and sessions

In `PortalAccess` the cookie is the browser's and the provider (`shell`) the tab's. Who am I
and sign out are sent, served and answered in separate steps, and may be lost; an operations page is rendered with the cookie of the moment and arrives
later. The command palette offers operations pages to every role, so the guards of
the portal's server are what keeps them for admins; a step of the model asks the
layout's guard and those of the page's calls (`internal/cases/api.ts`) together.

A sign-in is served when the head of its answer arrives, since nobody can name its session
before. The browser stores a cookie with the head of the answer that sets it (`HeadArrives`),
before the provider has read the body: a sign-in that fails between the two leaves a
session in the browser that the tab does not name. A document may be loaded at any
time, and gives up the tab's calls; an operations page may have been rendered with a
cookie that was replaced before it arrived, and a sign-out that was given up may still
be served later, which is an `Expire` then.

`excused` is bookkeeping: a tab is excused, until its document is loaded again, when
another tab signed in or out, a session ended by itself or by an earlier document's
call, the document was asked for with another user's cookie, a call was lost or broke
off, or the user did not wait for an answer. The answer to who am I may break off after
its head (`BreakMe`): `fetchMe` returns `res.json()` from inside its `try` without
awaiting it, so nobody catches the failure and the shell goes on loading, even through
a sign-in. `TabsSettle` names this exception.

### The customer's tab

`PortalMatters` has one page at a time. `Mount` is the effect of a page: the call it
makes is dropped with the page. A form's call is not: `CreateDone` sends the router
to the new record wherever the tab is by then (`push`, `Arrive`). A form may be opened
`MaxVisits` times, and `create[v]` is the call of one visit. The customer's form
disables its button during the call. The analysts' form (`case-intake-form.tsx:23`)
sets its flag inside a form action, which React renders when the action ends:
the button stays enabled and a second click waits for the first call (`ClickAgain`,
`more`). `cause` says why a form was sent: `again` when an answer was lost or the
router was about to leave, `early` when it was clicked during the call before.

The customer's reopening is checked (`CheckReopen`) before the transaction that carries
it out (`ServeReopen`). A change of the file of an open case leaves the link's
`updated_at` alone (`FileWork`); the other work of the staff does not.
The queue and the dashboard link to the matters their filters and widgets, taken
from `PortalViews`, select.

## Runs

| run | question | bounds |
|---|---|---|
| `engine` | Do proposals obey the rules for decisions, is a clear backed by the rows, is the engine monotone? | every case with at most two evidence items of five kinds and at most three owner rows of two names, every property: 138240 combinations. Three rows are the least that show a name counted twice against two owners |
| `workflow_serial` | Is a case that is resolved clear ready for it, one request at a time? | one client, one seed, four evidence identities, three property states, one party |
| `workflow_two` | Do the rows of the case agree whatever two requests in flight do, does an acceptance answer the case as it is by then, when is a clear proposal refused, and do the workflows implement `CaseLifecycle`? | two interchangeable clients (symmetry), fewer inputs; the theorems are for all |
| `jobs` | Does the run follow its jobs, are stages begun at most once, does every run end unless its task was lost or no task is left, is `RunProgress` implemented? | two tasks, two runs, two batches, two losses, so that no task may be left; no symmetry, since `RunsFinish` is temporal. Two tasks contend for a job; the second run is refused while the first is active and comes after it when it has ended; every place of a task has its fault |
| `ingestion` | Can every fact be traced, is no record lost, does search agree with core, wherever a run is cut short? | two batches, each one of seven files of at most two lines: a record and its correction, another office with the same title, another title, two bonds of one type, no office, no title, a key twice, nothing. Two batches give an upsert over rows of an earlier one, whole or cut short; two lines an order |
| `portal_cases` | Is an analyst's own work seen or reported as failed, do the page's rules agree with the service's, does only a stale page send what its status forbids? | one analyst with two clicks under way, forms to decide, add evidence and reopen; the others use all forms; two changes of the case; a reason code of each category. Two changes are the least with one of the analyst's and one of another's |
| `portal_access` | Does the shell name the user of the session, are operations pages for admins, do pages settle? | two tabs, a customer and an admin, two sessions. Two of each is what it takes for an answer about one session to meet another |
| `portal_matters` | Are copies explained, do pages show their own record, are lists and widgets right, does every wait end? | one tab; two matters at first, at most four; four changes; one visit of a form, one click that waits; a list of two, widgets of two and one. A third matter exceeds every limit, so that each cut is met |
| `engine_owners` | violation: a party entered twice | |
| `clear_race` | violation: a clear on a file that turned conflicting after the check | two clients |
| `jobs_shipped` | violation: no ingestion run can be created | one task, one run, the CHECK of the migrations |
| `ingestion_shipped` | violation: every run fails at materialization | the same as `ingestion`, no faults, the SQL as it stands |

`workflow_two` checks what no order of two requests can break. `ResolvedClearIsReady`,
violated in `clear_race`, holds in `workflow_serial`, so the counterexample is due to
the race; `ClearNamesEveryOwner` has `DistinctOwnersAgree` beside it, which holds.
Every property of a passing run has a mutant: a change to a definition, of the kind
a programmer would make, with which TLC finds the property violated.

What the properties say of the code:

- `RefusedClearWasOverwritten`: the engine and the readiness rules read the same rows
  by rules of their own. A clear proposal that the service refuses to accept means
  that an analyst has overwritten the generated item with a captured one.
- `AcceptedAnswersTheCase`: the acceptance takes whatever proposal is current, not the one
  it checked. What it decides is still the engine's answer to the rows of the case by
  then, for some state of the property, which the pipeline may have changed since.
- `RunsFinish`: a run that is active ends, but for two things nobody looks after: the
  task at its job was lost, or no task is left.

- `StaleOnlyAfterError`, `OwnWorkIsSeen`: no order of clicks, answers, tabs and reloads
  leaves a page silently behind the analyst's own work. An error does: after a
  failure that was none, the page stays as it was until it is loaded again.
- `OnlyStalePagesMisfit`: the service takes a decision for a case in any status and a
  reopening of an open one; the pages alone keep the two apart, by what they
  offer. A page that is up to date never sends the wrong one.
- `PageKnowsTheRules`: whatever the page lets through the service takes, but for a
  required text of spaces only, facts that are JSON and no object, no code ticked, no
  hard block ticked for a stop, and an exception that is needed and not given.
- `OperationsForAdmins`: what an operations page shows was fetched for an admin. The
  guards of a page's own calls are enough for it; the model does not tell them from the
  layout's, which the code does not ask again between two operations pages.
- `ShellTellsTheTruth`: once its calls are answered, a tab names the session's user,
  unless it is excused: a session that ended or changed under it, a call that was lost
  or broke off, or a user who did not wait for an answer.
- `CopiesAreExplained`: two cases of one visit of a form need a lost answer, a click
  while the router is leaving (the button is enabled again before the page is left) or,
  of the analysts' form, a click during the call. A customer's double click makes no
  second matter.
- `ListsMissOnlyOldMatters`: the service's limit cuts the matters submitted first,
  so that an old matter may be missing however recently it was reopened, though
  `QueueHealth.tsx:7` speaks of all matters.
- `WidgetsAgree`: the widgets count by rules of their own, and agree; a matter with a
  conflict is in none of the evidence queues, as is one that is ready.

### Bounds

`MaxParties` caps the rows `AddParty` may add (there is no limit in the code);
`MaxFaults` caps how often a worker is lost; `Runs` and `Batches` cap the requests
that create runs, since rows are never deleted. In the portal `MaxChanges` caps the
changes of a case or of the matters, `MaxQueue` the clicks not yet answered, `Used` the
forms of the analyst in the run, `MaxSessions` the sessions ever created, `MaxMatters` and
`MaxVisits` the cases and the forms opened, `MaxClicks` the clicks that wait for the
call of a form. Everything else is finite by itself.
None of the workflows' guards depends on a count, so one seed, one deed copy and one
alert give every combination of statuses the rules can tell apart.

In `PortalAccess` a request for a page is served when it is sent, but for a document,
which may be asked for with an older cookie. The palette is used where a shell is open.
In `PortalMatters` cases are numbered as they commit, and the list's `submitted_at` is
taken to follow that order; in the code it is the start of the transaction.

### Fairness

`FairSpec` of `PipelineJobs` asks weak fairness of each task's own steps: the loop of
`worker::run` polls for ever and a stage works through a finite batch, so a task
that has not ended takes its next step. It asks nothing of `Restart`, of requests or of
faults: a task that ended with an error stays away until somebody starts a process. So
`RunsFinish` says "unless the task at one of its jobs was lost, or from some time on no
task is left".

In the portal fairness is asked of what goes on by itself. A call that was sent ends,
being served or being lost (the disjunction is fair, neither part is); an answer is
taken by the code that awaits it; the router goes where it was told; a mounted page
renders and its effects run. In `PortalAccess` this is three conditions for each tab:
who am I is answered (`AskingStep`), a page that was asked for arrives, and the
page goes on by one of its effects (`SettlingStep`). None is asked of the
user: `AnswersCome` and `TabsSettle` except a user who goes from page to page, loads
documents or clicks the form again for ever.

## Findings

1. `engine_owners`: party alignment counts rows, not names; a name entered twice
   makes up for a registered co-owner nobody named, and the case is cleared.
2. `clear_race`: readiness is checked before the transaction and never in it.
3. `jobs_shipped`: `blocked` is not in the CHECK of `ops.jobs.status`.
4. `ingestion_shipped`: stray quotation marks in three SELECTs of `db/stage.rs` make
   `core_materialization` fail on every batch.

The acceptance checks on an earlier read as well, and takes whatever proposal is
current by then. As a proposal is replaced with each change of the file, what it
decides answers to the file (`AcceptedAnswersTheCase`); a clear may still be accepted on
a file that is not ready when an analyst has overwritten the canonical item with a
captured one after the check. The customer's reopening looks at the matter's status
before its transaction, too.

Four smaller observations, which no run is about: a double click on the analysts'
intake form makes two cases (`case-intake-form.tsx:23`); a sign-in whose body breaks off
leaves a session nobody is told of (`auth-provider.tsx:60`); facts that are JSON and no object
pass the page and are refused by the service (`actions.ts:49`); the dashboard's "all
matters" are the latest hundred (`QueueHealth.tsx:7`, `pilot.sql:80`).

`lease_expires_at` is written and never read, so that a job whose task was lost is
never taken up again: this is one of the two exceptions `RunsFinish` makes.

The engine's rule `SOURCE_RECORD_QUARANTINED` asks whether a linked source record is
quarantined, and the pipeline never links one, so outside of unit tests the rule
cannot fire. The run `engine` therefore leaves quarantined links out of its inputs.

## Proofs

All theorems are for every value of the constants, under the named assumptions
`WorkflowConstants`, `JobsConstants`, `PayloadsAssumption`, `BatchesAssumption` (batches
are numbered as they are submitted), `PortalConstants`,
`AccessConstants` and `MatterConstants` and those of the modules they extend, which
TLC evaluates on each run. Three theorems have a hypothesis beside these, named
below: `OneClient`, a CHECK that admits `blocked`, and `StageReadsWork`. Each is the
positive side of a finding, and a run instantiates it.

**Engine** (`DecisionEngineProofs`, `CaseEvaluationProofs`). Each level of rules
emits codes of one category only (`StopReasons` hard blocks, `ReviewReasons`
triggers and missing information, `ClearReasons` clear support). From this and the
order of the levels: every proposal satisfies the rules for analysts
(`EngineIsRecordable`), a clear is backed by the rows (`ClearIsAlwaysSupported`), and
one more fact against a transfer never softens the outcome (`WorseNeverHelps`).
`ClearNamesOwners` is the positive side of finding 1, for any set of owners: if no
name is entered twice, a clear means that case and register name the same people.
It needs cardinality arguments from `FiniteSetTheorems`.

**Case** (`CaseWorkflowProofs`). The inductive invariant `IInv` adds to the
properties of the runs what a step needs to know of the step before:

- `property` is one of `Properties`, so a new proposal is one for some property;
- `InFlight`: a request that will write a decision carries codes that were
  checked, as nothing checks them again at the `Finish` step;
- `ProposalIsSound`: a current proposal obeys the reason-code rules, since
  acceptance turns it into a decision without checking;
- `LinkIsEvidenced`: a case with a linked property has a live canonical item, confirmed
  unless an analyst has overwritten it;
- `MatterNeedsCase`: there is no matter without a case.

The theorems: statuses agree, decisions are sound, proposals match the case, an
undecided case has a proposal, a clear proposal is refused only where the canonical item
was overwritten (`RefusedClearsWereOverwritten`), and `CaseWorkflow` implements
`CaseLifecycle` (`ImplementsLifecycle`).

Of the two ways to a clear, the acceptance of a proposal may decide something else
than it checked. Whatever the clients do, it decides what the engine says of the rows
at that moment (`AcceptancesAnswerTheCase`), so that a case cleared by acceptance has a
linked property and no conflicting evidence (`AcceptedClearsHaveNoConflict`): every
change of the file replaces the proposal. For a manual clear this is not so. That every
resolved clear case is ready (`SerialClearsAreReady`) is proved of one request at a time
(`OneClient`). The invariant is `WhatWasReadHolds`: while a request is in flight nothing
else changes the case, so the evidence it read is the evidence there is. With two
clients `clear_race` breaks it, which is finding 2.

**Queue** (`PipelineJobsProofs`). `IInv` says of each run, with its jobs, `RunOK`: the
run is absent with no jobs or has exactly its stages, in order, with the status
that follows from them. The proof turns on one shape: when job `i` of a run is
pending or taken, the stages before it are completed and those after it blocked
(`InProgress`), and every step of a worker takes such a shape to the next. Beside
it: `JobsHeldOnce` ties tasks to jobs, `AttemptedOnce` says that a stage nobody
has begun has no attempts, and `OneActiveRun` is the unique index. From it follow
the safety properties of the run `jobs` and the refinement of `RunProgress`
(`ImplementsProgress`): creating, beginning, advancing and failing a run are its
steps, and claims, attempts, polls and losses are stutters. `OnlyTheCheckRefuses` is the
positive side of finding 3: were `blocked` admitted, every fresh batch would be accepted.

`StagesInOrder`, `JobsHeldOnce`, `IndexSparesWorker` and `FinishedStaysFinished` are
proved and not among the properties of a run, as are `ClosedIffStamped`,
`MatterResolvedIffClosed` and `ResolvedHasDecision` of the case: the refinements and the
other properties are what the runs spend their time on.

**Ingestion** (`IngestionProofs`). `WorkerFollowsProgress` ties the stage under way
to the run; from it alone, whatever the stages write, follows the refinement of
`RunProgress`. `RecordsAccounted` adds that the raw records of a batch are those
handled, which are staged or quarantined, together with those the worker has left
(`NoneMissing`), and that keys are unique in a batch. That a SELECT in any order
returns every row is `OrdersCover`, by counting (`FS_Injection`). From it follows
`RecordsStagedOrQuarantined`, for any files (`PayloadsAssumption`: they hold records).

What a materialization does is a *script*, whatever the order of the rows
(`MaterializationsAreScripts`): every statement states a fact of the batch's records
(`Backed`), an upsert is followed by the link to its record at once
(`LinkedAtOnce`) or, for the property itself, after its children (`LinkedLast`),
and a link comes after its upsert (`UpsertedFirst`). Scripts are closed
under concatenation, and from two to any number by the least
counterexample (`LeastNumber`, `JoinsExist`, `FlattenClosed`), since the library's
induction theorems cannot be instantiated here. Three invariants rest on it:

- `FactsSound`: rows are typed, the links made are justified by staged records, and
  what is left of a script has its links prepared;
- `FactsTraced`: a fact without a source was either just announced, which at most the
  statement at hand and the row of a property can be, or a batch was cut short
  between an upsert and its link;
- `SearchFollows`: batches are over before the next materializes, there is no summary
  before core has its property, and the refresh brings the two together.

They give `TypeOK`, `LinksAreJustified`, `FactsHaveSources` and
`SearchAgreesWithCore`. `OnlyTheSelectsFailRuns` is the positive side of finding 4.

**Case console** (`PortalCasesProofs`). The invariant says where a browser stands
with its own work: `own` runs ahead of the page only while an error is shown, an
answer is awaited or a page is being loaded; a view that is being loaded and was read holds
what the case was at some change; and a submission made from the case as it still is
fits its status (`SubmissionsFit`).
`RulesAreKnown` needs no invariant but the type of the case: it goes
form by form through what the page and what the service ask for, slips included, for
any catalogue of reason codes.

**Tabs** (`PortalAccessProofs`). `AnswersAreCurrent` holds of a tab that is not
excused: what it waits for is about the present session, a sign-in it waits for names
the user it asked for, also once the cookie is stored, and a shell closed by a sign-out
stays closed. `FetchedForAdmins` carries
the guard's verdict from the request of an operations page to its arrival, and
`PagesAgree` says what the sign-in page may have: nothing fetched, and no page it waits for.

**Customer's tab** (`PortalMattersProofs`). The invariant ties call and page: what is
fetched and shown is of the page's own matter (`PageFits`), every id that
is held is that of a matter (`IdsAreKnown`), rows answered after a reopening are no
older than it. For the copies it relates `create`, `lost` and `push`: a visit that
has a case and is not waiting was either answered, with the router under way, or lost its
answer; and only the analysts' form has clicks that wait.
`WidgetsAgree` counts: the statuses and the decisions partition a finite set of
matters (`StatusesPartition`, `DecisionsPartition`). `ListsMissOnlyOldMatters` gives
each matter its rank by submission (`EveryRankIsTaken`): a list that misses one is
full (`TopIsFull`), and the rest of it is newer; the invariant `ListsAreComplete`
keeps this from the answer to what is shown, while other people's work goes on.

Every safety property of a passing run is proved. Only model-checked is liveness:
`RunsFinish`, `OwnWorkIsSeen`, `TabsSettle` and `AnswersCome`, as TLAPS has no proof
of fairness or ENABLED here.

## Not modelled

Property search and analytics only read, in the API as in the portal. The portal's
queue of cases and its pages of runs, properties and metrics show one answer each; the button that
starts a projection sends a request `PipelineJobs` has. The documented keyboard
shortcuts, settings, landing page and styled components keep no state others read.
In-memory repositories are test doubles, `store/sqlc` is generated from
`db/queries`. HTTP decoding, wording of explanations, audit events, timeline
labels and exports carry no state the rest depends on; tokens, hashes and passwords
are taken to name one session and one user. Times are left out except for whether
`resolved_at` is set and for the order of a matter's updates.
The projection of seed properties is a job of `PipelineJobs` whose one transaction
writes rows no other step touches; effective dates and descriptions have no part in
any rule.

Three things are at a coarser grain than the code:

- A workflow of the store is one step. Two transactions side by side at READ
  COMMITTED (the unlocked read of `maybeAutoReopen`, the unique index on current
  proposals) would need their statements as steps.
- A case and its property change in turn, not while a materialization is under way;
  `PipelineUpdate` may leave any rows behind, half-written ones included.
- Organizations are one: who sees which matter is a WHERE clause of every query, and
  the property selected on creation is any that matches or none.
