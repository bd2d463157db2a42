# Formal models of the football question service

This directory holds TLA+ models of the Cloudflare Worker in `src/worker/`, of the D1 (SQLite)
schema it runs on (`src/infra/migrations/`) and of the ingest pipeline (`src/pipeline/`). TLC checks the models on small instances; TLAPS proves the most important
theorems for every value of the constants.

## 1. The system

Readers ask football questions. Questions that the catalog answers are answered at once from one
published *snapshot* of statistics. Questions it cannot answer are stored, triaged by an external
worker over a signed bridge, clarified and confirmed by their author, executed, and released as
results; an outbox tells the author. Some questions ask for work by the *arrival manager*, another
external worker, which takes shared jobs over a second bridge. All state lives in D1; every
handler is a sequence of awaits, any other request may run between two of them, and only a
`batch` is a transaction. There is no timer: sweeps and collections are driven by requests.

| Component | State | Operations | What makes it hard, and what makes it correct |
|---|---|---|---|
| **Job bridge** `core/exploration-bridge.ts`, `-d1.ts`, migrations 0008, 0017, 0019 | `exploration_shared_jobs`, operation records, tombstones | `claimJob`, `ackJob`, `sweepExpiredLeases`, `sweepRetryDue`, `readJobs` | Stale reads before a compare-and-swap, late replies and duplicates, triggers that abort, rows deleted and re-created. One holder per lease, leases honoured, operations applied once, no job stranded. |
| **Retention** `core/exploration-retention.ts` | requests, links, tombstones | `collectExplorationRetention` | Three transactions; time-driven orphans that fire no trigger. Live work is kept, orphans go. |
| **Publication verifier** `core/exploration-bridge-verifier.ts` | reads four records | `verify` | An await between read and commit; a publication needs all its evidence. |
| **Bridge route, sweep throttle** `routes/exploration-bridge.ts`, `-sweep.ts` | process-wide throttle | `sweepBeforeRequest` | The throttle moves on before the sweep succeeds. The router does not use it. |
| **Question intake** `core/question-requests.ts`, migration 0010 | `question_requests`, `budget_counter` | `storeQuestion`, status, purge | Limits counted before the insert; a budget consumed by submissions that are then refused. |
| **Question triage** `core/question-triage-bridge.ts`, `routes/question-triage-*.ts` | questions' lease, verdict, status; receipts; throttle and cursor | read, claim, ack, three sweeps, result maintenance | Two protocols on one table, fences over three tables in one batch, catalog and snapshot changing under a verdict. |
| **Results** `core/question-request-result*.ts`, `-execution.ts`, migration 0013 | `question_request_results` | propose, confirm, claim, complete, recover | A released result carries the snapshot that is current, under a live lease. |
| **Clarification, refresh** `core/question-request-clarification.ts`, `-refresh.ts`, 0014, 0016 | clarification generations, refresh counts | clarify, refresh | Parent, text and sidecar move together; at most three generations and three refreshes. |
| **Notifications** `core/question-request-notification*.ts`, 0015, 0018 | outbox rows with leases | read, prepare, check, bind, ack, recover | The external receiver is told once, although replies are lost; it ends with the newest payload. |
| **Public pages** `index.ts`, `core/db.ts` | budget counters (KV and D1), cache slots, history, cached player names | the pages, `enforceBudget`, `executeWithCache`, `saveAccountQuestion` | Many reads per page with awaits between them; a seed import between two of them; lost KV updates; slots shared by keys. What is shown is what the named snapshot says, and the day's limit holds. |
| **Statistics** readers of `core/db.ts`, `player-range.ts`, `season-splits.ts`, `opponent-history.ts`, ... | none | readers and calculators | Sums that must agree, rates of missing data, ties, names that two people answer to. |
| **Gate, parsing, feasibility** `security/askguard.ts`, `core/parser.ts`, `core/feasibility.ts`, `core/catalog-contract.ts`, ... | none | pure functions | A refusal must offer something that is there; a model must not change what was asked. |
| **Ingest** `pipeline/sources/` | none; writes one seed | `run.main` | "A failed ingest must never publish partial data." |
| **Authentication, views** | none | token checks, rendering | Not state machines. |

They interact through the database: a triage acknowledgement admits shared jobs (and shares the
operation table with the job bridge), the queued sweep reads job outcomes back, clarification
re-opens triage, results and notifications read questions, and the pipeline replaces the snapshot
under all of them. `PROJECT.json` lists every hazard at its line.

## 2. Plan

In order of importance; a module is written to be proved about (constants with assumptions, one
action per operation, invariants in named parts, no recursion).

1. `ExplorationBridge`, `JobLifecycle`, `ExplorationBridge_proofs`: the job bridge. **Done.**
2. `QuestionIntake`, `QuestionIntake_proofs`: limits, budget, duplicates, purge. **Done.**
3. `QuestionTriage`: one question under claim, acknowledgement, clarification and sweeps of both
   protocols. **Modelled and checked.**
4. `QuestionResults`, refining `AnswerPromise`: confirmation, execution, refresh, status page.
   **Modelled and checked.**
5. `NotificationOutbox`: both versions of delivery. **Modelled and checked.**
6. `AnswerService` over `Pages`, `QuestionGate`, `Statistics`, `Catalog`, with `Ingest` making its
   tables: the public pages. **Modelled and checked.**

Each of them has a module of proofs, and two have a second one: `ExplorationBridge_proofs` has the
leases and operations, `JobLifecycle_proofs` the life of jobs and the refinement of `JobLifecycle`;
`AnswerService_proofs` has the counters of the breaker, `AnswersHonest_proofs` what the pages
answer. **Done** for every safety property of the passing runs (section 6). No module declares a
RECURSIVE operator, so all of them can be proved about.

How the modules are composed: each of the six is a system of its own with its own clock and
requests. They meet where the code's tables meet, and there each models the other's side as an
environment action: a triage acknowledgement is `Admit` in `ExplorationBridge`, and the job is
`job` in `QuestionTriage`; what triage and deadlines do to a question is `Settle` in
`QuestionIntake`; a clarification, which belongs to a question and its sidecar, is in
`QuestionTriage`, and a refresh, which belongs to a proposal, in `QuestionResults`; what the
projection reads of a question is `Change` in `NotificationOutbox`. The pipeline meets the pages in
`MCAnswerService`: the tables the pages read are what `Ingest` makes of two fetches.

## 3. The modules

### ExplorationBridge: how it corresponds to the code

| Model | Code |
|---|---|
| `clock` | `deps.now()` and SQLite's `'now'`, one clock in seconds starting at 1; 0 is SQL NULL |
| `jobs[j]`, a record of `Row` | a row of `exploration_shared_jobs`, joined with its request (a job and its request are created and deleted together); `status = "absent"` is no row |
| `refs[j]` | what `exploration_collectable_requests` looks at: whether *some* account link and *some* unexpired question refer to the request |
| `tombstones[j]` | deletion time in `exploration_shared_job_tombstones` |
| `operations` | `exploration_bridge_operations` |
| `evidence` | jobs whose validation, publication, snapshot and coverage records are loaded and agree |
| `calls[c]`, `sweeps[s]` | local variables of requests and sweeps in flight: sampled `now`, row read (`seen`, `batch`) and the next await (`pc`) |
| `issued` | lease ids minted by `newLeaseId` so far (`crypto.randomUUID`, taken to be unique) |

A claim is `ArriveClaim` (clock, `getOperation`), `ReadJob` (`get` and the guards) and
`CommitWins` or `CommitLoses`; an acknowledgement of a publication has `VerifyPublication` in
between. `Abandon` is a Worker lost between two awaits. A sweep is `StartSweep`, `ListRows` (one
page of at most `SweepBatch` rows, oldest admissions first) and one `MoveRow` or `SkipRow` per
row. `Write` is the UPDATE with its AFTER trigger: an orphan whose lease is no longer live is
deleted and leaves a tombstone in the same step. `Lands` is the WHERE clause (revision *and*
`admitted_at`) with the triggers and the CHECK, which turn a bad update into an aborted batch.

Deliberate abstractions:
- An operation that is already recorded is answered without a write, so such requests end where
  they arrive; replies are not modelled. The lookup is merged into the arrival: whether a record
  exists is looked up again in the commit, and records are never deleted within the horizon.
- The lease id is minted at the commit. A claim that loses would only waste one.
- `admitted_at` is the clock of the admitting commit. The code uses the handler's earlier sample;
  the difference matters only if a triage handler runs longer than the 30 days of a tombstone.
- The three failure reasons a caller may report are one, `reported`; job results, publication
  fields and bodies are left out, and with them the refusal of an operation id under another body,
  which writes nothing. `publication.loaded_at <= now` is part of the evidence.
- Operation records do not expire (30 days in the code, after which an id may be reused).
- The order of the rows within a page is arbitrary; the code takes them in the listed order.
- Any service may try to acknowledge any job and attempt with any lease that was ever granted. A
  lease never granted matches no row.

`JobLifecycle` is the abstract specification of one job: admitted, granted to one holder at most
`MaxAttempts` times, each grant ended once, finally published, exhausted or removed. It knows no
clock, read, commit or sweep. `ImplementsLifecycle` is the refinement mapping.

`MCExplorationBridge` instantiates the module for TLC; `LinkedSpec` keeps the job referred to, so
that three attempts fit in the state space.

### QuestionIntake: how it corresponds to the code

| Model | Code |
|---|---|
| `day` | the UTC day of the server's clock |
| `questions` | rows of `question_requests`; the model value *is* the key (account, day, text), which `requestId` hashes and the unique index repeats |
| `pending` | the questions that the pending count of `storeQuestion` sees |
| `budget[d]` | the row `intake:<d>` of `budget_counter` |
| `renewed[a]` | how often a refresh put a question of the account back under the pending count (a history variable) |
| `calls[c]` | a running `storeQuestion`: its next await (`pc`) and the question with the day sampled on arrival |

`Submit`, `LookUp`, `CountPending`, `CountDaily`, `ChargeBudget`, `Insert` and `Raced` are the
awaits of `storeQuestion` in their order; a refused check answers. `Insert` includes the trigger
`question_requests_no_replace`, which turns the insert of a present key into no change. `Abandon`
is its `catch`, an aborted insert or a lost Worker. The rest is the surroundings:
- `Settle`: triage, results and deadlines take a question out of the pending count, at any time.
  The only way back in is `Refresh`: every other write that makes a row count again requires the
  row to be counted (a clarification before the deadline, an acknowledgement of a live question;
  `proposeQuestionResult`, which would be another, has no caller).
- `Purge` deletes any nonempty set of expired questions, which includes the code's batches of 100
  in order of expiry, and their results with them (`ON DELETE CASCADE`).
- `NextDay` is midnight. A submission sees at most one: a Worker does not run for a day, and the
  table refuses `created_at` more than 300 seconds from the database's clock. Expiry is by day:
  the model may purge or refresh a question anywhere within the day on which it expires.

### QuestionTriage: how it corresponds to the code

| Model | Code |
|---|---|
| `row` | one row of `question_requests`: status, attempt, lease, owner, retry time, `result_revision` |
| `result` | its sidecar in `question_request_results` (state, revision, generation, parent revision, deadline) |
| `clarification` | the newest text in `question_request_clarifications` |
| `operations` | receipts in `exploration_bridge_operations` of the latest accepted claim and acknowledgement |
| `job` | the shared job an arrival question waits for, or its tombstone |
| `snapshot` | the newest snapshot with the catalog deployed beside it; a protocol-2 message carries it as `context` |
| `calls[c]` | a request or a sweep in flight: what it read, the time it started, its next await |

A request is `Send`, `Read` (receipt, row, guards of `claimQuestion` or `ackQuestion`), for a
verdict that is answered now `MapVerdict`, and one write, `WriteClaim` or `WriteAck`, whose
conditions are the WHERE of the statement in `routes/question-triage-sweep.ts` and whose
`RowAllowed`, `ResultAllowed` are the triggers of migrations 0013 and 0014: a batch they refuse
changes nothing. `ReadClarifiable` and `Clarify` are `clarifyQuestionResult`; `Maintain` is the
sweep of results; `SweepRows`, `QueueResult` and `Settle` are the two sweeps of questions.

Abstractions: a verdict is its outcome, and the number of cells the catalog has of it is any of
none, some and all. A message stands for its operation id. Reads of a handler are one step when the
batch compares again what they saw. Receipts of a lease that has ended are dropped: the revision or
attempt they name is gone from the row. The throttle of the sweeps and the cursor of the queued
sweep live in the memory of one isolate, of which there are many; any sweep may run at any time.

### QuestionResults and AnswerPromise: how they correspond to the code

| Model | Code |
|---|---|
| `result` | the row of `question_request_results`; `until` is its lease, `evidence` the snapshot its answer was computed on |
| `refreshes`, `confirmations` | `question_request_refresh_counts`, `question_request_confirmations` |
| `snapshot`, `code` | what `currentSnapshot` returns; the catalog, registry and contract versions a Worker was deployed with |
| `calls[c]` | `confirm`, `claim`, `recover`, the execution, a refresh or a status page between two awaits |

`Save` is `compareAndSet` with the triggers of migration 0013; a claim that wins goes on to
`Begin`, `Query`, `Verify` and a `Save` that releases (`executeQuestionResult`). `Renew` is the
command row of a refresh, whose triggers compare everything again. `View` to `Show` are the reads
of `questionRequestStatus` in their order; the last of them decides. A Worker keeps the code it was
started with while another version is deployed, and may compare a spec with it. `compareAndSet`
compares only the catalog of that code (`SameCatalog`): recovery by a later deployment with the same
catalog may put an earlier proposal back to "building".

`AnswerPromise` knows stages only: proposed, approved, answered, withdrawn. `KeepsPromise` maps
the row to them: building and in review are "approved", everything closed is "withdrawn".

Abstractions: the query is one read of the tables (`AnswerService` has its steps); confirmations
are compared by spec; pages write nothing, so one is in flight at a time; seven confirmations, the
trigger's limit, are not reached.

### NotificationOutbox: how it corresponds to the code

| Model | Code |
|---|---|
| `outbox` | the row of `question_request_notifications` |
| `ledger` | the rows of `question_request_local_notifications` (migration 0018), whose presence is `local` |
| `source` | what the projection reads of a question: its revision, state and deadline |
| `log` | payloads a service holds durably; a receipt may be bound only for one of them |
| `grants` | what services were granted; they may use it late, twice or never |

`Read` lists a row without a live lease. `Get` clears its lease if that has expired and reads it
again; `Refresh` writes, comparing the revision and the question (`Fenced`) and *not* the lease, so
that a row leased since it was listed is refreshed under its live lease, and what is desired may
move while an older payload is in flight. `Prepare` and `Grant` lease the row (or, if it is behind,
send the request to `Get`), `Bind`, `Retry`, `Ack` and `Acked` end the lease; `LocalPrepare`,
`Enter`, `LocalGrant`, `Mutate` and `LocalMutate` are the same for the second version, with a read
and a fenced write apart. A bind may be sent again, at the revision its caller names.

Abstractions: a lease stands for its id and its owner; `check` writes nothing and is left out; the
question outlives the model. `Install` is the migration, while requests are in flight. `Get` is
three awaits of the code, `recover`, `get` and `project`: what others write between the first two is
read as if it came before; a write between the second and the third is seen by the revision that
`Refresh` compares; and `Fenced` compares the whole projection again. A refresh that finds a lease
which expired after `recover` writes nothing, because the table checks that a lease ends after the
row's last update. Grants to update, and of a ledger row, are dropped when the next one is made: its
revision has moved past them, so they can change nothing.

### AnswerService and the modules it stands on

`AnswerService` is the state: requests in flight, the two counters of the breaker, one cache slot,
the history of an account, the names cached in an isolate, and the environment (`Import`,
`Midnight`, `Recycle`). The rest has no variables:

| Module | Code | What it holds |
|---|---|---|
| `Catalog` | `catalog-contract.ts`, `intent.ts`, `validate-intent.ts`, `feasibility.ts` | which compiled catalogs are admitted, intents and their cache key, feasibility and the alternative offered |
| `QuestionGate` | `askguard.ts`, `discovery-arrivals.ts`, `parser.ts`, `propose` of `index.ts` | the gate's decision, the closed wording of arrival questions, both readings of a question, and which one is proposed |
| `Statistics` | the readers of `db.ts`, `comparison.ts`, `rates.ts`, `player-range.ts`, `player-trends*.ts`, `season-*.ts`, `opponent-history.ts`, `manager-era*.ts`, `cl-history.ts` | what a page makes of the rows it read, and when it withholds it |
| `Pages` | `index.ts` | for each page: which requests it accepts, its awaits in order, its answer as a function of its reads |
| `CatalogBuild` | `contracts/build_catalog.py`, `feasibility.py`, `validate_public_catalog.py` | which catalogs the pipeline compiles and what it compiles them to, the check before a deployment, the producer's resolver |
| `Ingest` | `sources/run.py`, `ingest_openfootball_cl.py`, `schemas.py` | the seed a run makes of what it fetched, or `Fatal` |

A request goes through *stages*. A stage is a set of awaits that run together (`Promise.all`);
each read notes the snapshot whose tables it saw (`at`), and `Follows` adds the reads that depend
on one. The answer is a function of what each read saw (`Saw`), so that a mixture of two snapshots
shows. "name", "publication" and "batch" ask which snapshot is current, "check" and "recheck" ask
again, "reply" is the computation, which awaits nothing. A page of trends asks again *before* it
reads the names of the people selected (`index.ts:844`) and the players it offers (847), and prints
them under the snapshot it asked for; its form without a selection (814–820) does not ask again at
all. `TrendsAnswer` has names and offer of whatever snapshot those reads saw.

`FastCheck`, `FastCount` and `Charge` are `enforceBudget`. KV is a set of counts, any of which a
read may return; a failing KV goes on to D1; a failing D1 (`ChargeFails`) refuses. `LookUp`,
`Recheck` and `Store` are `executeWithCache`; an entry carries its key and its snapshot, and both
are compared. `Save` inserts and trims in one batch.

Abstractions:
- A text is the set of vocabularies it touches and what the rules read in it; the matching of words
  is left out. A player name is a model value with the needles that equal it or occur in it.
- The cache has one slot. The slots of the code are independent of each other, and keys that
  collide in one are the interesting case.
- Snapshots are numbered in the order of their import. Upstream bytes that return to an earlier
  state, which would return to an earlier snapshot id, are left out.
- Rows that are level in a ranking come by the smaller id, where SQLite's order is open. Rates are
  fractions compared exactly.
- Labels of opponents are read even when the selection needs none. Telemetry
  (`logQueryAggregate`), CSV, the sitemap and the history page write nothing or nothing that is
  read back, and are left out; so is the page of arrivals, which shows a file deployed with the
  Worker.
- A seed is what `Ingest` makes of small fetches: every check of `run.py` is there, the parsing of
  files is whether it succeeds. Splits, opponents' labels and stages have loaders of their own and
  are given.

## 4. What the runs check

| Run | Instance | Shows |
|---|---|---|
| `bridge_races` (1.2 M states) | 1 job, 2 services, 1 request, 1 sweep, 2 attempts, clock to 5 | the inductive invariant and all safety properties, and the refinement, while requests, sweeps, unlinks, collections and readmissions interleave |
| `bridge_contention` (1,932,603 states) | 2 requests in flight, 2 services, one operation id, no sweeps, clock to 4 | leases and operation ids under two concurrent commits |
| `bridge_retries` (956,934 states) | the code's `MAX_ATTEMPTS = 3`, three operation ids, a lease of 1, clock to 5 | the attempt boundary and the refinement along whole retry chains |
| `bridge_liveness` (17,687 states) | fair sweeps and collector, clock to 3 | expired leases end, due retries are queued, orphans go |
| `bridge_deployed` | the router as wired | a violation, see Findings |
| `intake_races` (114,086 states) | 1 account, 3 texts, 2 submissions at once, 2 days, limits 1 and 2 | the inductive invariant, and by how much racing submissions exceed the two limits |
| `intake_budget` (235,863 states) | 2 accounts, budget 1, 3 days | the global budget is exact, also when midnight falls between the steps of a submission |
| `intake_purge` (1.1 M states) | 1 account, 2 texts, retention 2 of 3 days, budget 2 | the loser of a race for a question finds the winner's, while questions are settled and purged |
| `triage_protocols` (1.0 M states) | 1 service, 2 calls, 2 attempts, 1 clarification, 2 snapshots, clock to 3 | leases, sidecars and proposals under both protocols, with retries, clarifications, deadlines, sweeps and a tombstone |
| `results_races` (2.5 M states) | 2 calls, 2 attempts, 1 refresh, 2 snapshots, 2 deployments, clock to 3 | what is released and shown is current, and the refinement of `AnswerPromise` |
| `outbox_delivery` (776,651 states) | 2 calls, 2 states of the question, clock to 1, both versions | one creation, and nothing is marked told that is not so, also when what is desired moves under a live lease |
| `answers_fresh` (484,128 states) | 2 calls, 18 requests, 2 snapshots, all limits 1, 2 days | answers of one snapshot, the breaker's limit; the assumptions of `MCAnswerService` |

Properties:
- `LiveLeaseHonoured`: until it expires or its holder settles it, a granted lease is the one under
  which the job runs, whatever claims, sweeps, unlinks and collections do.
- `SettledOnceByHolder`: a lease is settled once, by its holder, for its job and attempt.
- `OperationAppliedOnce`: copies of one operation in flight take effect once.
- `NoTransitionAborts`: an update whose row still matches is never one a trigger refuses,
  however late it is sent. This is what the clamp in `failed` is for: without it a sweep that runs
  more than a day late would abort again and again.
- `NoStrandedFailure`: a failure is exhausted exactly on the last attempt and otherwise due within
  a day of its claim.
- `PublishedOnEvidence`: a published job was published by the holder of its last lease, on
  loaded evidence.
- `IInv`: the inductive invariant of the proofs, among it that a row held across an await is the
  stored row, an earlier revision of it or a row of an earlier admission.
- `DailyOvershootBounded`, `PendingOvershootBounded`: the limits are counted before the insert, so
  concurrent submissions of an account exceed them, by less than the number of submissions at once
  (and, for the pending limit, by the questions that refreshes reopened).
- `BudgetBounds`: no day stores more questions than its budget, because the unit is spent
  atomically before the insert and never given back.
- `RacedQuestionIsThere`: the loser of a race can name the question it lost to; it would answer
  "unavailable" otherwise.
- `ImplementsLifecycle`, `ExpiredLeaseIsReleased`, `DueRetryIsRequeued`, `OrphanIsCollected`.
- `NoWriteAborts`: what passes a compare-and-swap of triage passes the triggers, so that no call
  and no sweep meets the same abort again.
- `SidecarAgrees`, `ClarifiedTogether`: four writers in two modules keep a question, its sidecar
  and its clarification in step, also when the sidecar expires between a read and a batch.
- `LeaseKeepsProtocol`, `LateAckRefused`: a lease is ended by the protocol that granted it, and not
  acknowledged once it has run out, however late the batch runs.
- `ProposalIsCurrent`, `QueuedBehindJob`: no snapshot slips in between a verdict and its batch, and
  no question waits for a job that was not admitted.
- `NoStrandedLease`: a lease that has run out is seen by some sweep, also when its sidecar expired
  under it.
- `ReleasedOnCurrent`: a result is released under a live lease, confirmed, computed on the newest
  snapshot, whatever moved during its query.
- `ViewIsCurrent`: a page links to an answer only while it stands, names what it was executed on
  only while it is released, and offers only a refresh that would be taken.
- `KeepsPromise`: leases, retries, races and deployments implement `AnswerPromise`.
- `CreatedOnce`: the external issue is created under one grant, and every grant until it is bound
  carries the same payload. `DeliveredIsCurrent`: a payload is marked delivered only while it is
  the desired one and true of the question, whatever refreshes did since it was granted; and, in
  version 2, durable.
- `BudgetHeld`: the day's limit holds whatever KV returns and whenever D1 fails, and KV never counts
  a request that did not come.
- `AnsweredAsAsked`: a page that names a snapshot shows what that snapshot says, although its reads,
  the cache and imports interleave; a question is answered for what the rules read in it, whatever
  the model sent. Of a page of trends this is so for its figures. Its names are those of the named
  snapshot or of a later one, and its offer of players, the form's too, is that of the named
  snapshot or empty: TLC refutes anything stronger. The pages of a season and of a player, and the
  comparison, make no such promise:
  their code prints a snapshot it read apart from the rows, or none.

The assumptions of `MCAnswerService` check the operators without state over bounded inputs, each
against a definition that does not share the code's way: `AlternativesHold` (a refusal offers
something else that is published, and offers nothing only when there is nothing), `CatalogAdmitted`,
`KeysDigest` (one key for each intent, however much of it is spelled out), `SeedAddsUp` (no lost,
doubled or misplaced row of a fetch ends in a seed, a cup that cannot be read takes only the cups
with it), `SplitsAddUp` and `ErasAddUp` (groups add up to the seasons selected), `RatesOrder` (a
total order by the rate), `NamesFindOne`, `ArrivalsClosed`, `DefaultsCompare`, `ProducerAgrees` (the pipeline and the Worker
resolve every intent alike, over the sound catalogs of seven cells), `ValidatorsAgree`. TLC evaluates them
before `answers_fresh` starts.

Bounds. Rows never interact, so one job is enough for the safety of a job; the proofs cover any
number. Times keep the order of the code's constants (lease 900 s, backoffs 300 s and 1800 s,
window one day, tombstones 30 days) only where a property depends on it: the backoff may exceed
the window so that the clamp is reached, and a tombstone lasts 2 (1 in `bridge_contention`, whose
clock is shorter) so that a job is collected and readmitted within the clock's horizon `MaxClock`. `Sweepers = {}` in `bridge_contention` and
`LinkedSpec` in `bridge_retries` leave out what `bridge_races` covers. In `bridge_liveness` the clock
reaches the end of the retry window of the first claim, where the clamp and a late sweep meet; in
`bridge_retries` the lease of the third and last attempt may still run out. `CHECK_DEADLOCK FALSE`:
at the horizon nothing is left to do.

For intake, the limits are small so that they are reached and exceeded; `MaxCharges` lets a day's
counter go one past its budget, where submissions are refused; `MaxRenewed` allows one refresh that
reopens a question; `MaxDay` is long enough for a retention of two days, the shortest the
assumption on `RetentionDays` admits (the code has 90).

For triage, `MaxAttempts = 2` reaches the last attempt and one before it, `MaxGeneration = 1` one
clarification, which may be the last one allowed; a lease lasts 1 and a day 3, so that a lease runs
out within the day and a deadline within the clock. `MaxSnapshot = 2` changes the snapshot once, at
any await. Rows of different questions meet only in the cursor of the queued sweep.

For results, the two deployments share their catalog, which is when the store compares
least. Two attempts let a lease be recovered and a proposal fail; a lease is 1, the deadline 2,
retention 3, so that each runs out while the others stand and the clock (3) sees the end of all.
One refresh is used up; two snapshots and two deployments make a spec outdated in either way.

For the outbox, `MaxTouches`, `MaxGranted` and `MaxEntered` bound the revisions at which rows are
read and granted: far enough for a creation that is lost, reconciled, bound and updated, with a
refresh under its lease, and for a ledger row that is granted, lost and granted again.
`LocalChanges` and `LocalTouches` are the bounds once version 2 is there: smaller, because its ledger
multiplies the states, and large enough, because the ledger starts empty whenever it is installed.
The clock reaches 1, the length of a lease and of the time to respond, so that both run out once.

For the pages, `Sessions` are the sequences of requests that may arrive: each of the eighteen
alone, and the pairs that share something: a query twice (the cache), a question and the query it
leads to (the cache), a range of players and a question (the history), a query and a page of splits
(the breaker). With limits of 1 the second request of a day is refused. Two snapshots of two
seasons differ in every table. Names, goals and minutes are few, but include two people who share
a name, one who changes his, and a level ranking.

Fairness. `SweptSpec` assumes that time passes, that the collector runs (protocol-2 triage
requests call it), and that sweeps come round for both kinds in turn and do not fail for ever:
`sweepBeforeRequest` alternates the kinds, retries on later requests, and storage errors are
transient. Moving a row and starting a sweep have strong fairness because other requests and
failures may disable them in between. Handlers need not be fair there: every liveness property
holds although requests may hang or be abandoned at any await. `RoutedSpec` has fair handlers and
a fair collector and no sweeps.

## 5. Findings

`bridge_deployed`: the comment on `sweepExpiredLeases` ("Server-owned expiry: expired running
jobs become failed attempts with backoff") and `tests/exploration-bridge-sweep.test.ts` describe a
server that expires leases before it serves requests. The router calls `readJobs`, `claimJob` and
`ackJob` directly, and nothing in the Worker imports `routes/exploration-bridge-sweep.ts`. A job
whose worker dies stays `running` with an expired lease until its request is collected. (The
route also answers 503 unless the verifier and cursor key are bound, so the bridge may not be in
service yet.)

## 6. What is proved

The theorems hold for all values of the constants that satisfy the assumptions the modules name
(`NoServiceAssumption`, `TimesAssumption`, `CallsAssumption`, `LimitsAssumption`,
`BoundsAssumption`, `ResultTimes`, `ResultBounds`, `ResultCatalogs`, `NotificationBounds`, `AnswerBounds`,
`RoutesKnown`: no service is called NULL, limits and times are positive integers, submissions in
flight are finitely many, requests are for the routes modelled). Three more are about the pages'
data: a seed's run names its own snapshot, as `run.py` writes it, and every row of figures has a
player, as the schema demands (`SeedsSigned`); the values that stand for a missing season, for an
exception and for "no failure" are not also data (`NamesApart`, `NoFailure`). TLC evaluates all of
them on every run of their modules, with the seeds that `Ingest` makes.

| Module | Theorem | States |
|---|---|---|
| `ExplorationBridge_proofs` | `TypeCorrect` | `Spec => []TypeOK` |
| | `Invariant` | `Spec => []IInv` |
| | `LeaseHonoured` | `Spec => []LiveLeaseHonoured` |
| | `SettledOnce` | `Spec => []SettledOnceByHolder` |
| | `AppliedOnce` | `Spec => []OperationAppliedOnce` |
| `JobLifecycle_proofs` | `JobInvariant` | `Spec => []JInv` |
| | `TransitionsAccepted` | `Spec => []NoTransitionAborts` |
| | `FailuresNotStranded` | `Spec => []NoStrandedFailure` |
| | `PublicationProved` | `Spec => []PublishedOnEvidence` |
| | `LifecycleImplemented` | `Spec => ImplementsLifecycle`: each job lives as `JobLifecycle` says |
| `QuestionIntake_proofs` | `IntakeInvariant` | `Spec => []IInv` |
| | `IntakeTyped` | `Spec => []TypeOK` |
| | `DailyBound`, `PendingBound` | `Spec => []DailyOvershootBounded`, `[]PendingOvershootBounded` |
| | `BudgetBound` | `Spec => []BudgetBounds` |
| | `RaceFound` | `Spec => []RacedQuestionIsThere` |
| `QuestionTriage_proofs` | `TriageInvariant` | `Spec => []IInv` |
| | `TriageTyped` | `Spec => []TypeOK` |
| | `SidecarAgreement` | `Spec => []SidecarAgrees` |
| | `WritesLetThrough` | `Spec => []NoWriteAborts` |
| | `LeasesNotStranded` | `Spec => []NoStrandedLease` |
| | `ClarificationWhole` | `Spec => ClarifiedTogether` |
| | `ProtocolsKeptApart` | `Spec => LeaseKeepsProtocol` |
| | `LateAcksRefused` | `Spec => LateAckRefused` |
| | `ProposalsCurrent` | `Spec => ProposalIsCurrent` |
| | `QueuedWithJob` | `Spec => QueuedBehindJob` |
| `QuestionResults_proofs` | `ResultInvariant` | `Spec => []IInv` |
| | `ResultTyped` | `Spec => []TypeOK` |
| | `ReleasesCurrent` | `Spec => ReleasedOnCurrent` |
| | `ViewsCurrent` | `Spec => ViewIsCurrent` |
| | `AnswersKeepPromise` | `Spec => KeepsPromise`: results implement `AnswerPromise` |
| `NotificationOutbox_proofs` | `OutboxInvariant` | `Spec => []IInv` |
| | `OutboxTyped` | `Spec => []TypeOK` |
| | `CreationsAgree` | `Spec => []CreatedOnce` |
| | `DeliveriesCurrent` | `Spec => DeliveredIsCurrent` |
| `AnswerService_proofs` | `PagesInvariant` | `Spec => []IInv` |
| | `PagesTyped` | `Spec => []TypeOK` |
| | `BudgetKept` | `Spec => []BudgetHeld` |
| `AnswersHonest_proofs` | `HonestInvariant` | `Spec => []HInv` |
| | `AnswersHonest` | `Spec => []AnsweredAsAsked` |

None of the safety properties is inductive alone, because a request acts on what it read some
awaits ago. Each inductive invariant therefore has two halves: what the stored rows are like, and
what everything in flight still knows of them. TLC checked every invariant on the constants of the
passing runs before it was proved (those of the pages, `IInv` and `HInv`, on 484,128
distinct states). Each proof has one lemma per action or group of actions, split by
conjunct, and `PTL` at the end.

**Bridge, leases.** `LiveLeaseHonoured` needs to know that a commit based on an old row cannot
match a new one. `SnapshotsCoherent` says why: within an admission every write raises the revision,
and a job that was removed cannot be admitted again at the same second, because its tombstone
outlives that second (`TombstoneWindow > 0`); so revision and admission time together identify a
row, and a snapshot that matches *is* the stored row. `SnapshotsGuarded` then transfers what the
handler checked on its snapshot to the stored row, and `LeasesGranted` ties running rows to the
claims that minted their leases.

**Bridge, life of jobs.** `JInv` adds to that invariant the shape of a row in each status
(`RowsOK`), that a running row's expiry is the one its claim granted (`GrantsTimely`), and what
requests and sweeps in flight saw (`RequestsOK`, `SweepsOK`). With it, an update that passes its
compare-and-swap starts from the status its handler decided on, so the triggers accept it
(`NoTransitionAborts`); a failed row has used up its attempts or is due within the window of its
last claim (`NoStrandedFailure`); a published row was acknowledged by the holder of its last lease
after the evidence was there (`PublishedOnEvidence`). For the refinement a
job's phase and holder are read off its row (`PhaseOf`, `HolderOf`): every step is a step of
`JobLifecycle` for the job it writes and a stutter for the others.

**Intake.** The limits count what is stored; what races is not stored yet. `DailyRoom`,
`PendingRoom` and `BudgetSpent` therefore add the submissions past the check to the questions
counted. A submission that passes a check found less than the limit stored, so that everyone in
flight still fits (`DailyPasses`, `PendingPasses`, `BudgetPasses`); an insert trades a submission
for a question (`Land`, and the `...Lands` lemmas); a refresh makes the room it takes
(`PendingReopens`); every other step only shrinks both sets (`Shrink`, and the `...Shrinks`
lemmas). `RacedQuestionIsThere` rests on `Timely`: a question of today or yesterday is not expired.

**Triage.** The question and its sidecar are two rows that are written in one batch. The invariant
gives the shape of the question in each state and the sidecar that goes with it, and for each call
in flight that the row it read is the stored one or has a lower revision. A compare-and-swap that
succeeds then acts on the row the handler looked at, whichever protocol, sweep or maintenance wrote
in between; `LateAckRefused`, `LeaseKeepsProtocol` and `QueuedBehindJob` are steps of the same
argument.

**Results.** A row that was read earlier is the stored one or of a lower revision, and what an
execution, recovery, refresh or page still carries was decided on the revision it read. The
refinement of `AnswerPromise` takes stage, proposal and renewals from the row; a release is
`Answer` because the statement that releases asks for the current snapshot itself.

**Outbox.** Deliveries are at least once, so the invariant says what each of them carries: a
creation is frozen from its first grant on (`CreatedOnce`), and a receipt stands for a payload in
the durable log. What a request or a grant knows of a row is true unless the row has taken another
revision since (`GrantOK`, `RefreshOK`), a refresh under a live lease included; once the issue is
bound, the row as a grant left it carries what is desired. `DeliveredIsCurrent` follows because
whoever marks a payload delivered names the revision its grant left, and every refresh takes
another.

**Pages.** D1 counts and compares in one statement, so what it let through exceeds neither its
counter nor its limit. KV is read in one await and written in another: `Ordered` says that a
request comes to the write only through the read, so that the count it carries belongs to a
request that did come that day.

**Answers.** Snapshots only grow, so a page that asks again for its snapshot and finds the one it
named knows that every read in between saw that one. `Phased` gives each await its rank in the
page (breaker, name, reads, reply, second look, store, save), and every route is shown to list its
awaits in that order and to leave none out (`ReadingWhole`, `QueryWhole`). `ComputingOK` then says
that each read of the answer's basis was made or is still to come (`Gathering`), that after the
reply the answer is the one of what was read (`RepliedOK`), and that after the second look what was
read is of the snapshot named (`RecheckedOK`); trends looks again before it replies, which the ranks
allow. Its figures rest on the reads before that look (`Basis`); the reads after it, names and
offer (`Late`), are of the named snapshot or a later one, and `TrendsAnswers` keeps the two apart. `ReadingAnswers` and `QueryAnswers` show that an answer depends on no table outside its
basis, and that a named player whom nobody answers to needs no row. Pages that do not ask again
compare what they read instead: the publication names its snapshot, so one that names this snapshot
is its own (`FreshHonest`, `EuropeHonest`). The cache is no way round: only a query stores
(`CallsApart`), after its second look (`Stored`), and a key determines intent and snapshot
(`KeySays`), because an intent that is executed has all its fields and neither dimensions nor
filters. A question is asked as the rules read it because what the model proposes counts only when
it comes to the same canonical intent (`ProposedByRules`, `CanonicalSame`).

Only model-checked:
- Liveness (the temporal properties of `bridge_liveness`): fairness and ENABLED are beyond the
  backends of the proof system.
- What the pure algorithms compute (the ASSUMEs of `MCAnswerService`): they fold over data, and
  induction over data is out of the provers' reach.

## 7. Not modelled

`PROJECT.json` gives each component's status and reason. In short:
- Texts: the matching of words in questions, verdict fields and sources; hashing; formatting, HTML,
  SVG, CSV and locales.
- Authentication and token signatures; the parsing of requests by the routes of the bridges.
- State of one isolate: the throttle of the sweeps and the cursor of the queued sweep. Isolates come
  and go and do not share it, so the models let a sweep of any kind run whenever a row is due, and
  ask only for fairness where liveness needs it.
- The catalog's source files and warnings, generated schemas, the football-data.org source (the run does not
  call it), CI and scripts. `exploration-bridge-admit.ts` is a planner that nothing calls.
- The retention of receipts (30 days), after which an operation id may be used again.

Observations that no run is about:
- A page of trends prints names, and its form the players it offers, of reads that follow its last
  look at the snapshot it prints (`index.ts:843–850`, `814–820`). An import in between shows new names
  under the old snapshot id, or a form that offers nobody; `AnsweredAsAsked` says how far this goes.
- The pages of a player and of a season print the current snapshot read after their rows, and do not
  ask again (`index.ts:1190`): an import in between makes them name a snapshot the rows are not of.
- When the list of player names cannot be read, the gate does not notice that a name is shared by
  two players, and a question about that name is answered as a ranking; the comment at `db.ts:1029`
  calls the degraded gate stricter, which it is for questions that name nothing else.
- `check_invariants` lets the cells of one source differ in `redistributable`; the compiled catalog
  is then refused by `validate_public_catalog.py:162` and by the Worker when it starts
  (`ProducerAgrees` says exactly when).
- `validate_public_catalog.py:88` does not know the output `manager_era_records` and allows three
  outputs, where the Worker admits four (`ValidatorsAgree`): a catalog that declares it is refused
  before it is deployed.
