# TROPEK: a TLA+ verification

TROPEK is a quality gate. A request asks it to evaluate an asset over a period
of time; for every SLO assigned to the asset a worker fetches indicators from
an adapter (Prometheus in production), scores them against the SLO's criteria
and earlier evaluations, and stores a verdict; the verdicts of one request are
rolled up into a run. Users look at the verdicts in a web UI, and change them:
they invalidate, override, pin baselines, re-evaluate and write notes.

The product is Python (FastAPI, SQLAlchemy on PostgreSQL, arq on Redis) with a
React front end. Two things make it hard. One verdict is produced by several
processes that share nothing but a database and two Redis instances. And what a
user sees is the last of a chain of copies (rows, cached fragments, the
browser's query cache, the state of forms), each of which is refreshed by
somebody who has to remember to do it, while other users change the rows. The
modules here follow both.

Paths below are relative to `src/`; `queue.py` is `api/tropek/queue.py`,
"quality_gate" is `api/tropek/modules/quality_gate`, "adapter" is
`adapters/prometheus/tropek_prometheus`, and "ui" is `ui/src`.

## 1. Inventory

| Component | State it keeps | Operations | Interacts with |
|---|---|---|---|
| Evaluation trigger (`quality_gate/workflows/trigger`) | none of its own; writes `evaluation_runs`, `slo_evaluations` | `trigger_evaluate`, batch trigger | commits, then enqueues one arq job per row |
| Evaluation worker (`queue.py`, `evaluation_executor.py`) | row status, `started_at`, result, `job_stats`, `indicator_results`, `sli_values` | `run_evaluation_job`: predecessor check, phases 1, 2a, 2b, 3a, 3b, change points, enqueue of the finalize job | adapter over HTTP; Redis through arq |
| Finalizer and sweeper (`queue.py`, `repositories/evaluation_run.py`) | run status and result | `finalize_run_job`, `finalize_sweeper_job`, `finalize_if_all_done` | reads rows, warms the heatmap cache |
| Stuck-job watchdog (`queue.py`, `repositories/evaluation.py`) | `job_stats.stuck_job_retries` | `find_stuck`, `requeue_stuck`, `mark_failed` | competes with the worker for rows |
| Adapter query jobs (adapter `core`, `redis`, `api/routes.py`) | job hash, results hash, pending list, semaphore | submit, poll, cancel, `Coordinator.process_one` | Prometheus over HTTP; called by Phase 2b |
| Mutations and re-evaluation (`repositories/evaluation.py`, `baseline.py`, `workflows/re_evaluation`) | flags, overrides and pins of finished rows; rescored results | pin, unpin, invalidate, restore, override, `re_evaluate` | each other; the worker that appends; caches |
| Heatmap and trend caches (`workflows/presentation`) | Redis fragments | read-through, warm-up, delete | every mutation of an evaluation |
| Registries, SLO groups, assignments (`modules/slo_registry`, `sli_registry`, `slo_groups`, `assignments`) | versioned definitions, generated SLOs, bindings | create, deactivate, generate, regenerate, extract, assign | read by the trigger, by Phase 2a and by the registry page |
| Assets, groups, types (`modules/assets`) | four tables and their links | CRUD, default type, membership, subgroups | the assets page; references from evaluations |
| Notes and categories (`repositories/annotation*.py`) | notes of runs | write, hide, categories | charts and the notes section |
| Query cache of the UI (`ui/lib/queryKeys.ts`, `ui/features/*/hooks.ts`) | answers by key, staleness | fetch, invalidate, collect | every page and every mutation |
| Pages and forms of the UI | URL, history, local storage, selections, dialogs | navigate, filter, select, submit | the query cache; other tabs |
| Engine, detector, adapter strategies, metadata timeline | none | pure functions | called by the above |
| Mock adapter, Python client, test stack | - | - | - |

What is hard in this code:

- **Overlapping executions.** arq delivers at least once, and the watchdog
  requeues a row after a threshold. Two executions of one evaluation can be in
  any two phases at the same time, with different answers of the adapter.
- **Crashes between transactions.** A job is a chain of transactions and Redis
  messages; it can end after each of them, by a crash (redelivered), a time-out
  or an exception (not redelivered).
- **Reads used later.** The watchdog handles a list it read once, beside the next
  tick if it takes longer than a minute; finalization
  aggregates children and writes the run later; commands on finished rows are
  SELECTs and UPDATEs at READ COMMITTED; forms are filled from old answers.
- **Evictions against rebuilds.** Fragments are deleted before the commit and
  rebuilt by readers and by the warm-up; the browser's entries are invalidated
  key by key while answers are under way.
- **Liveness that rests on cron jobs.** A failing job enqueues no finalize job;
  whether a run ever completes depends on sweeper and watchdog together.
- **State that outlives its subject.** Components that React keeps mounted,
  ranges in local storage, ticks, dialogs and selections meet another asset,
  column, SLI version or record than the one they were made for.
- **Counters, versions, boundaries.** Retry counters in a JSON column, a queue
  depth checked before it grows, version numbers read before the insert, axis
  bounds and label positions.

What makes each component correct:

| Component | Properties |
|---|---|
| Worker | one execution's data per evaluation (`ResultsConsistent`); first result wins (`KeepsLedger`); one responsible party per row (`SingleOwner`); no row stays `running` (`RunningResolved`); waiting for predecessors ends (`DeferralsEnd`) |
| Finalizer and sweeper | a run is published once with a child's result (`KeepsLedger`), is the worst of its children (`RunAggregatesChildren`), and is published in the end (`RunCompletes`) |
| Watchdog | bounded recovery (`TypeOK`, `RecoveryStops`) |
| Adapter jobs | `CompletedHasAllResults`, `NoDuplicateWork`, `QueueBounded`, `JobsSettle` |
| Mutations | the engine's word survives (`EngineResultKept`); one pin per series (`OneActivePin`, refuted) |
| Caches | stale only by a store that came late (`FragmentStaleOnlyByLateStore`); a user's own changes are shown (`OwnChangesShown`); no invalidation is lost (`NoLostInvalidation`) |
| Action forms | act on what they were opened on (`FormKeepsItsColumn`, `SelectionFitsColumn`) and report what happened (`SuccessMeansCommitted`) |
| Pages | `RangeIsChosen`, `AskedOfAsset`, `OnlyTickedTriaged` |
| Registries | `VersionsUnbroken`, `ObjectivesProducible`, `GeneratedBelong`; page: `WizardSubmitsSound`, `BindingsShown` |
| Charts and notes | `ChartShowsLastChoice`, `AxisFramesData`, `LabelsLegible`, `CellsWorst`, `HoverFollowsPointer`; `NotesCategorised`, `NotesListedOnce` |
| Assets | `DefaultExplained`, `CyclesExplained`; page: `LoadedFieldsOwn` |

`PROJECT.json` lists all components with their status, and every hazard with
its line and the properties aimed at it.

## 2. Plan

1. Evaluation pipeline and its abstract ledger. **Done**, with theorems.
2. Adapter jobs. **Done**, with theorems.
3. Column cache and the browser's query cache above it. **Done**.
4. Finished evaluations with their mutations, and the asset panel that gives
   the commands. **Done**.
5. Time range, pages, triage. **Done**.
6. Registries, SLO groups, assignments, and the registry page. **Done**.
7. Charts, notes and categories. **Done**.
8. Assets, groups, types, and the assets page. **Done**.
9. Theorems about 3 to 8: every safety invariant of the runs (section 6).
   **Done**.
10. Lemmas about the passes over a list that the others rest on (`InOrder`,
    `TryPack`, `CellOf`): what each step keeps. **Done**.

`EvaluationPipeline` abstracts Phase 2b to its outcome, so it and `AdapterJobs`
need no shared state: what the worker relies on is that an answer has all the
results (`CompletedHasAllResults`) or that the call fails, which are exactly the
two alternatives of `fetch_and_evaluate`. The modules of 3 to 8 are stacked: the
lower one has the tables and the effect of a request, the upper one extends it
with the copies and forms of the UI that send the requests.

## 3. Modules

| Module | Role |
|---|---|
| `EvaluationLedger` | abstract: what readers of results may rely on |
| `EvaluationPipeline` | detailed: trigger, worker, finalizer, sweeper, watchdog, arq |
| `EvaluationPipelineProofs` | theorems about it: types, stored results, refinement of the ledger; who is responsible for a row, what a completed run shows |
| `AdapterJobs`, `AdapterJobsProofs` | the Prometheus adapter's query jobs, and theorems about them |
| `ColumnCache` | the Redis fragment of one heatmap column: readers, writers, warm-up |
| `QueryTables` | every query and mutation of the UI: keys, what is invalidated, what is read and written |
| `QueryCache` (extends both) | one query in the browser, above the server |
| `QueryCacheProofs` | theorems about cache and browser |
| `EvaluationSeries` | finished evaluations and the commands that change them, statement by statement |
| `AssetPanel` (extends it) | selection, SLO scope and action forms |
| `AssetPanelProofs` | theorems about the rows, and about panel and rows together |
| `TimeRange` | tabs, histories, URL, local storage, clock, picker |
| `NavigatorPages` (extends it) | lists and links of the navigator, explorer, triage |
| `NavigatorPagesProofs` | theorems about ranges and pages |
| `DefinitionRegistry` | SLI and SLO versions, SLO groups, assignments |
| `RegistryPage` (extends it) | sidebar, wizard, forms, assignment dialog, tree |
| `RegistryPageProofs` | theorems about registries and page |
| `Listings` | pure: the list a filter makes |
| `NoteLabels` (extends it) | pure: packing of pills, framing of the axis, merging of heatmap cells |
| `RunNotes` (extends `Listings`) | notes and categories: tables, section, management page |
| `TrendCharts` (extends the last two) | charts, switches, tabs, tooltips, popovers |
| `TrendChartsProofs` | theorems about charts, pills, heatmap cells, tooltips and notes |
| `AssetGroups` | assets, types, groups, memberships, links |
| `AssetsAdmin` (extends it) | tree, panels and dialogs of the assets page |
| `AssetsAdminProofs` | theorems about the assets page and its tables |
| `MC*` | small instances of the modules above |

### EvaluationPipeline

One action is one committed transaction or one message to Redis.

| Variable | In the code |
|---|---|
| `status`, `started`, `result`, `retries` | columns of `slo_evaluations`; `started` keeps of `started_at` only its age against the stuck threshold, `retries` is `job_stats['stuck_job_retries']` |
| `indicators`, `sliValues` | the rows of the two result tables, by the outcome of the execution that wrote them |
| `run` | `evaluation_runs.status` and `result` |
| `job` | arq messages: the step an execution is at, its row, deferral count, deliveries, and the outcome it carries from Phase 2b |
| `outbox` | rows committed as pending whose `enqueue_job` call is still to come |
| `stuckList` | per watchdog tick, what it has read and not handled, with the counters as read; the cron starts a tick every minute and arq lets one run for 300 s, so ticks may overlap (`Ticks`) |
| `finalizeAttempts`, `finalizing` | finalize jobs and sweeper entries; finalizations between read and UPDATE |
| `disturbed` | history: rows whose message was delivered again, that passed the threshold under a living execution, or that a tick read while another one had them on its list |

| Action | In the code |
|---|---|
| `trigger_evaluate`, `enqueue_job`, `LoseEnqueue` | `TriggerService.trigger_evaluate`: one transaction for run and rows, then the enqueues, or the process dies in between |
| `check_predecessor`, `defer_job` | `_has_pending_predecessor`, which goes on when its query fails, and the deferred re-enqueue |
| `load_evaluation_snapshot` | Phase 1. `mark_running` is unconditional and comes before the deduplication guard, so the guard has no branch of its own |
| `load_definitions`, `fetch_and_evaluate`, `mark_failed` | Phases 2a and 2b and `_mark_failed`, which replaces `job_stats` |
| `write_results`, `write_sli_values_phase` | Phases 3a and 3b; the unique constraints that turn a second execution away are the guards, and the failing transaction ends the job |
| `enqueue_finalize` | change points (failures swallowed), then the finalize job |
| `watchdog_scan`, `watchdog_recover` | a tick: the list, then row by row beside the other ticks; the identity index may make it raise |
| `finalize_sweeper`, `finalize_read`, `finalize_write` | the sweeper's batch; `finalize_if_all_done` up to the UPDATE; the guarded UPDATE |
| `AckJob`, `WorkerCrash`, `JobDies` | arq (external): acknowledged, redelivered, or failed for good |
| `Age` | time: a running row gets older than the threshold |
| `TickAborts` | a finalization or tick ends with its process |

`ThresholdExceedsTimeout` says whether `stuck_job_threshold_seconds` is longer
than the time arq lets a job run. The docstring of
`watchdog_stuck_evaluations_job` demands it; with the shipped numbers it is
false (180 s against arq's default of 300 s, because `WorkerSettings` sets no
`job_timeout`). Runs say which world they are in.

### AdapterJobs

A step is one Redis command (or a group no other actor can look into), a
request to Prometheus, or a change of hands in the event loop.

| Variable | In the code |
|---|---|
| `hash`, `created` | status field of the job hash; whether the other fields exist (`cancel` writes a status alone) |
| `ttl`, `results` | expiry set; fields of the results hash |
| `queue` | the pending list |
| `request`, `waited`, `answer` | the handler of a submission: its step, how long it has polled, what it returned |
| `cancelling` | cancel handlers between read and write |
| `pc`, `cur`, `task`, `asked` | `Coordinator.process_one`, its job, the gathered `_run_query` tasks and how long Prometheus has taken |

Actions carry the names of the code: `submit_check`, `create_job`, `enqueue`
(`JobManager.submit`), `poll_completed`, `poll_exhausted` (`sync_query`),
`cancel_read`, `cancel_write` (`JobRepository.cancel`), `dequeue` to
`set_expiry` (`Coordinator.process_one`), `unsupported_mode` to `write_result`
(`Coordinator._run_query`); `Expire`, `Tick` and `Crash` are Redis, time and the
process. Time is counted in units of the query time-out; a `Tick` happens only
when nothing but Prometheus can make progress, and no Prometheus request
outlives one unit. A query fetches its chunks three at a time, one group after
the other, so it may take several units: at most `Rounds`.

### ColumnCache and QueryCache

A version of a column is the set of changes it reflects, so "stale" needs no
clock. A rebuild is several SELECTs (`ReadEvaluations`, `ReadIndicators`) and a
`Store`; a mutation evicts in its handler and `SessionMiddleware` commits after
it (`EvictBeforeCommit`, `Commit`); a re-evaluation commits and then flushes its
evictions (`EvictAfterCommit`); `RollBack` is the deadlock retry. A fragment
remembers, as a history variable, which finished changes it lacked when it was
stored.

`QueryTables` is data: for each hook its key, for each mutation the keys of its
`onSuccess`, and on either side the tables the endpoint reads or writes.
`QueryCache` picks one query at the start and lets its page mount and unmount, get
the focus and be collected, while mutations that concern it run. Whether staleTime
has elapsed is open whenever somebody asks (`Elapsed`). A fetch may
fail, is retried (`Retry`) and given up (`GiveUp`); an answer clears the mark of
an invalidation whatever was asked first. What a request was sent after is
therefore history: `asked` and `shown` are the changes the browser had been told
of when it sent the request under way and the one that brought the data,
`overtaken` those it was told of while an older request was kept, as TanStack
Query keeps a first fetch and one nobody is mounted for. The pairs of mutation
and query that the code does not connect are named (`Forgotten`), so that no
other such pair can hide; `excused` holds the changes missing from a fragment
that was stored late.

### EvaluationSeries and AssetPanel

A row is a column (run) and an SLO. A transaction selects its rows, writes into
its own copy, waits where PostgreSQL would make an UPDATE wait, and commits or
fails; endpoints for one evaluation load the row into the process first, bulk
endpoints work in SQL. `scored` is history: what the engine said of a row.

`AssetPanel` has the panel's selection (automatic until the user clicks), the
scope of SLOs with the key that seeds it anew, and the five action forms from
opening to results. One step is an event and all effects React runs after it.

### TimeRange and NavigatorPages

A tab is a history with a position. Instants are quarters of a UTC day, the
viewer's zone is east of UTC, and the clock passes midnight; conversions
between dates, instants and URL parameters are those of
`time-range-context.tsx`; a link without a range keeps the stored one and has its
start computed anew. A page's component state lives while its key stays.

### DefinitionRegistry and RegistryPage

Versions are sequences; a create reads the highest version and inserts in a
later step, against the unique constraint. Operators give the effect of each
endpoint; the page sends what its forms hold, which comes from cached answers of
any age, and a second user creates, deactivates and edits meanwhile. Deleting
and regenerating a group are several statements without a lock (`groupTxns`):
what the request read first is its plan, each write is a step, and a version that
is committed in between is not seen. `raced` records the groups of which two such
requests were under way at once. The wizard closes only for the create it sent
itself (`sent`). A generated
SLO carries its group twice, as the column `generated_by_group_id` and as a tag:
the API goes by the first, the sidebar by the second, and the two part when
somebody writes a version of a generated SLO without the tag. That version is
still resolved for the group's assets and missing in the tree; `BindingsShown`
is about the versions that are still tagged (`StillTagged`).

### NoteLabels, RunNotes and TrendCharts

`NoteLabels` computes in doubled pixels and ten-thousandths so that all is
integer. A bound of the axis is computed (`Beyond`) and then cut to a number of
significant digits (`RoundBound`): the code keeps twelve, the model as many as
`Kept` says, so that data can be flat enough at sizes TLC can count. A chart's own
switch is dropped when the generation of the switch for all charts has moved on,
and with the mounted chart. What the user did is kept beside it: `clicks` has for
every switch of every chart the last click that concerned it and whether it was
lost with the chart it was made on. Deleting a category is two statements, the first of
which moves its notes to 'info'; that one is no system category and may be
renamed or deleted like any other (`REEVAL` is the system's). The tooltip
watchdog is modelled with a browser that may skip boundary events.

The loops of the code over a list (`tryPack`, `buildData`, a filter) are
functions on the prefixes of the list: what the loop has after its first k
steps. The section's entries (`NoteList`) are its heads, single notes and first
notes of groups, in order, each with its members.

### AssetGroups and AssetsAdmin

A request is one transaction, except `set_default`, which reads and writes
later. Saves of the dialogs are sequences of one or two requests that may be
lost half way and answered after their dialog is gone. An answer for the tree or for
an asset has new `Date` objects (`mappers.ts:141-142`, `182-183`), so structural
sharing never keeps the old object, and the effect of a dialog fills its fields
anew after every refetch: what was typed or picked is gone (`Filled`). There are two
edit dialogs for groups. The tree's gets its group, and so its fields, when it is opened; the panel's
stays mounted with its group (`GroupDetailPanel.tsx:268`), so what was chosen and
cancelled is there when it is opened again, until the next answer. A save
remembers the links that were on screen at the click (`known`): it is answerable
for what its user could know.

## 4. Runs

| Run | Shows | Bounds |
|---|---|---|
| `zombies` | `TypeOK`, `ResultsConsistent`, `SingleOwner`, `KeepsLedger` with overlapping executions, overlapping watchdog ticks and a redelivery | 1 run, 1 SLO, 2 jobs, 2 ticks, 2 outcomes, threshold below the time-out |
| `completes` | `RunAggregatesChildren`; `RunCompletes`, `RunningResolved`, `RecoveryStops` under fairness, with dying jobs, a deferral, a redelivery and its overlapping execution | 1 run, 2 SLOs, 2 jobs, 1 tick at a time, 1 outcome, 1 recovery, threshold above the time-out |
| `retrigger` | `RunCompletes` for two requests of one period, where a revived failed row collides with the newer one | 2 runs, 1 SLO, 2 jobs, 1 tick at a time, one crash and redelivery |
| `deferral` | `DeferralsEnd` when the predecessor is pending for good or its finalization or recovery is cut off | 2 periods, 2 deferrals, one lost enqueue, one aborted tick or finalization, 2 outcomes |
| `adapter` | the adapter's invariants and `JobsSettle` | 3 submissions (one polling), 2 queries (one of an unsupported mode), 1 semaphore slot, depth 1, 2 concurrent submissions, 2 rounds of chunk requests, 1 restart |
| `queries` | `OwnChangesShown`, `NoLostInvalidation`, `FragmentStaleOnlyByLateStore` for every query and every pair of mutations, with failing fetches and retries | one re-evaluation, one other mutation, 2 requests, Redis answers |
| `forms` | the asset panel's properties and `EngineResultKept` | 2 columns, 2 SLOs (one column has one), 2 ranges, 2 commands; five sessions, one form each, beside another user's command or with a click elsewhere |
| `pages` | `RangeIsChosen`, `AskedOfAsset`, `OnlyTickedTriaged` | 2 tabs, 4 days, 2 assets with one label, 3 evaluations, 3 change points on pages of 2; four scenes of 4 to 8 moves |
| `registry` | the registries' and the page's properties | 2 SLIs, 4 SLO names, 2 groups, 2 rows, 2 assets; five scenes of 6 or 7 moves |
| `charts` | the charts' and the notes' properties | 2 metrics, 5 points, 4 categories, 3 maps, 4 digits kept of a bound; scenes of 3 to 7 moves, 243 of them for widths of labels |
| `admin` | the asset tables' and the page's properties | 3 groups, 2 assets, 3 type names; six scenes of 5 to 9 moves |
| `v_pin` | a disagreement with the repository's own words, see section 7 | 1 SLO, 2 columns, 2 transactions |

Deadlock is not checked: all of these systems may legitimately come to rest
(every request handled, every bound used up).

**Why the bounds are enough to be interesting.** Two slots in `Jobs` allow two
executions of one row to overlap in every pair of phases, which is what all the
conflicts in the worker are about; a slot is reused when its job ends, so the
number of executions over time is limited by the retry and crash bounds only.
`MaxCrashes = 1` with `MaxTries = 2` gives a redelivery and the discarded second
one; `MaxRetries = 1` gives a recovery and an exhausted counter. Two ticks are
enough for a row to be read, requeued or failed by both; a third beside them would
need one that takes two minutes. In `deferral`
`BatchLimit = 1` with two runs makes the sweeper leave one for its next tick. In the adapter,
`MaxSubmitting = 2` against a depth of 1 lets the depth check be passed twice,
three jobs let one be rejected, one queued and one processed, and one semaphore
slot makes queries queue behind each other. With four digits kept, values
around ten thousand that span a tenth to sixty lose that to the rounding of their
bounds or just keep it (`NearlyFlat`), as values with twelve equal leading digits
do in the code. The bounds `MaxCrashes`, `MaxLost`, `MaxAborts`, `MaxSubmitting`, `Rounds` and
the sizes of `Jobs` and `Ticks` are the only ones the code does not have; the
theorems of section 6 hold for any values of them, as they do for any scenes and
any numbers of moves in the page modules.

The page modules have one bound, the moves of a *scene*: where a behaviour
starts, which kinds of action its users take and with which inputs. Scenes keep
activities apart that do not touch each other's state (a range in the URL and a
tick on a change point), so that each can be followed for as long as the longest
story it has: open, go elsewhere, let another user act, come back, submit, be
answered. Every kind of action is in some scene, together with those whose state
it shares. In `queries` two changes and two requests give every order of read,
eviction, commit, store and answer.

**Symmetry** is used over the job slots and over results in safety runs only;
they are interchangeable and no property names one.

## 5. Fairness

Used by the liveness properties only, as weak fairness per actor:

- *worker*: arq runs a message that is queued, and an execution that can take
  its next step takes it (`JobStepOf`), because every await in it has a time-out
  or ends;
- *enqueue* after a commit, unless the process dies (`LoseEnqueue`, which the
  runs about `RunCompletes` exclude: see below);
- *cron*: watchdog and sweeper ticks come again for ever (`WorkerSettings`),
  each of them handles what it read, and some tick is free to start again and
  again (fairness of `watchdog_scan` by any tick, of `watchdog_recover` by each);
- *time*: `Age`;
- *adapter*: the event loop schedules every handler and task that can go on; a
  Prometheus request ends by its time-out.

No fairness is assumed of crashes, losses, cancellations or new requests, and
none says that a job succeeds: an execution may fail or die each time.

`RunCompletes` is checked without lost enqueues. A row that is committed as
pending and has no job is not recovered by anything (the watchdog looks at
`running` rows), so with a loss it is simply false; the hazard list records it.

`RunCompletes`, `RunningResolved` and `RecoveryStops` are statements about a
deployment in which the stuck threshold exceeds the job time-out, as the
docstring of the watchdog demands, in which a tick ends before the next one, and
in which a message is delivered again finitely often. Redeliveries and the
executions that overlap because of them are in the runs. With the numbers that
ship (180 s against 300 s) they are not claimed: each recovery can overtake a
living execution, `_mark_failed` of the overtaken one replaces `job_stats` and with
it the counter of recoveries, and the row may be recovered for ever.

## 6. Proofs

All theorems are about the modules the runs check, for arbitrary sets of runs,
SLOs, jobs, queries, tabs, assets, versions and names and arbitrary limits. The
assumptions on the constants are these, and TLC evaluates each of them on the
instances of the runs:

- `PipelineAssumption`, `AdapterAssumption`, `SeriesAssumption`,
  `PanelAssumption`, `NoneAssumption`: sets are finite where the code counts,
  limits are natural numbers, positive where the configuration demands it, and
  NULL is none of the values.
- `InvalidationsComplete`: every pair of a mutation and a query it affects is
  covered by a key of the mutation or is listed in `Forgotten`. It is a finite
  statement about the tables of `QueryTables`, evaluated over all their pairs.
- `TimeRangeAssumption`, `PagesAssumption`: presets and dates are numbers; a link
  from outside that names an evaluation names its asset too, as the addresses
  do that the pages write. Without the latter `AskedOfAsset` is false: nothing
  in the page compares the two parameters.
- `RegistryAssumption`: a scene starts from tables that earlier requests could
  have left (`SoundStart`). Empty tables are among them. The name a template row
  gives is an SLO's name, and NULL is none of the values.
- `TreeAssumption`: the tree of the sidebar has the groups that have members.
- `DigitsAssumption`: the powers of ten that count the digits of a bound are
  multiples of ten, and finitely many.
- `ScenesAssumption` of the charts: tables of notes start under the constraints
  of the database and with the system's category (`SoundTables`), as the seeding
  migration leaves them. Values on the axis are multiples of a tenth, a
  thousand units of the model: the ticks of narrower spans would be fractions,
  which the code has and the model has not. Widths of texts and of containers
  are whole numbers, and an evaluation has one of the ranked results.
- `AdminAssumption`: a scene starts with a default type, as the seeding migration
  leaves it, and with groups that are linked without a cycle; requests create
  under names (`Named`). There are finitely many groups, and `Rank` orders them;
  NULL is no name and no set of links.

The theorems about the engine's results have one hypothesis besides,
`Ops \cap Restoring = {}`: nobody restores an override. With restores the property
is false (section 7).

| Theorem | Statement | Argument |
|---|---|---|
| `TypeCorrect` | `Spec => []TypeOK` | types are inductive with `JobsTyped` (a deferred job is below its limit; a used slot has a row) |
| `ResultsAlwaysConsistent` | `Spec => []ResultsConsistent` | through `LedgerInv` |
| `LedgerKept` | `Spec => KeepsLedger` | refinement: under `LedgerInv` each step is a step of `EvaluationLedger` or a stutter |
| `RowsHaveOneOwner` | `Spec => []SingleOwner` | through `OwnerInv` |
| `RunsAggregateChildren` | `Spec => []RunAggregatesChildren` | through `AggregateInv` |
| `AdapterTypeCorrect` | `Spec => []TypeOK` | inductive |
| `WorkNeverDuplicated` | `Spec => []NoDuplicateWork` | through `WorkInv` |
| `CompletedJobsHaveAllResults` | `Spec => []CompletedHasAllResults` | through `ResultsInv` |
| `QueueAlwaysBounded` | `Spec => []QueueBounded` | through `BackPressure` |
| `QueryTypeCorrect`, `FragmentsStaleOnlyByLateStores` | `Spec => []FragmentStaleOnlyByLateStore` | through `LateInv` |
| `InvalidationsNeverLost`, `OwnChangesAlwaysShown` | `Spec => []NoLostInvalidation`, `[]OwnChangesShown` | through `ShownInv` |
| `EngineResultsKept` | no restores: `SeriesSpec => []EngineResultKept` | through `KeptInv` |
| `FormsKeepTheirColumn`, `SelectionsFitTheirColumn`, `SuccessesWereCommitted` | `Spec => []FormKeepsItsColumn`, `[]SelectionFitsColumn`, `[]SuccessMeansCommitted` | through `PanelInv` |
| `EngineResultsKeptByForms` | no restores: `Spec => []EngineResultKept` with the forms | `PanelInv` and `KeptInv` together, `FormsKeptInv` |
| `RangesAreChosen` | `Spec => []RangeIsChosen` | through `TimeInv` |
| `RequestsFitTheAsset`, `TriageIsOfTicked` | `Spec => []AskedOfAsset`, `[]OnlyTickedTriaged` | through `TimeInv` and `PaneInv` |
| `RegistryAndPageFit` | `Spec => []RegistryPageInv` | inductive |
| `VersionsStayUnbroken`, `ObjectivesStayProducible`, `GeneratedStayOwned` | the registries' three properties | conjuncts of `RegistryInv` |
| `WizardRequestsSound` | `Spec => []WizardSubmitsSound` | through `PageInv` |
| `BindingsAlwaysShown` | `Spec => []BindingsShown` | from `RegistryInv`: a resolved binding has an active version, which the tree lists |
| `ChartsShowTheLastChoice`, `AxesFrameTheirData` | `Spec => []ChartShowsLastChoice`, `[]AxisFramesData` | through `ChartInv`; the second with lemmas about `Beyond` and `RoundBound` |
| `HoversFollowThePointer` | `Spec => []HoverFollowsPointer` | through `PointerInv` |
| `NotesStayCategorised` | `Spec => []NotesCategorised` | through `NotesInv` |
| `LabelsStayLegible` | `Spec => []LabelsLegible` | through `ChartInv`, `SeenSound`, `WidthsSound` and an induction along `TryPack` |
| `CellsShowTheWorst` | `Spec => []CellsWorst` | an induction along `CellOf` |
| `NotesAreListedOnce` | `Spec => []NotesListedOnce` | through `SeenSound` and an induction along `InOrder` |
| `LostDefaultsExplained`, `DialogsLoadTheirOwn` | `Spec => []DefaultExplained`, `[]LoadedFieldsOwn` | through `AdminInv` |
| `CyclesStayExplained` | `Spec => []CyclesExplained` | through `AdminInv` and `CycleInv` together |

`ResultsConsistent` is not inductive: that Phase 3b writes the outcome Phase 3a
stored is a fact about the execution in between. `LedgerInv` adds that a job at
Phase 3b or later carries the stored outcome (`JobsCarryResult`), that a
finalization holds a result some child has (`FinalizersCarryChildResult`), and
that rows and runs of anything in progress exist (`RowsExist`). The first is kept
because indicator rows are written only where there are none and are never
deleted: two executions cannot both be past Phase 3a.

`SingleOwner` is about the rows that are not `disturbed`, in whatever world; for the
others section 7 says what happens. `OwnerInv` says that the status of such a row
tells who has it: `pending` for a job before Phase 1 or a call about to enqueue
one, young and `running` for an execution between Phases 1 and 3a, old and
`running` for one tick's list, on which it is once. Phase 1, the
time-out and the watchdog's requeue are the three places where a row changes
hands, and each changes status or age with it: a second tick can only meet a row
that is still on a list, and then the row counts as disturbed.

`RunAggregatesChildren` is about the runs without such a row. It follows because
a terminal row has no owner and so never changes (`TerminalRowsStay`): what
`finalize_read` computed is still true when `finalize_write` stores it, and ever
after (`FinalizersUpToDate`). A row that is disturbed stays so (`DisturbedGrows`).

`NoDuplicateWork` needs that only a submission's own handler enqueues it, and
once: `WorkInv` adds that everything listed or being worked on has been
submitted (`ListedSubmitted`), so the id being appended is new.

`CompletedHasAllResults` needs to follow the results through the coordinator:
`TasksCovered` says that while tasks run, a finished task has stored its result
or the job is cancelled; that nothing turns a cancelled job back before the
status is read again; and that no job that is listed or being worked on can
expire. A task skips its query only when it sees `cancelled`, and only
`mark_running`, which precedes all tasks, overwrites that status before the last
check.

`QueueBounded` is proved through the finite cardinality of the submissions that
have passed the depth check and not enqueued yet; the check admits a submission
only below both limits.

`FragmentStaleOnlyByLateStore` is kept for changes that have evicted and not yet
committed too (`EvictedLate`): the order of the code is evict, then commit, and a
fragment stored in between is the one that must be found late afterwards.

`NoLostInvalidation` and `OwnChangesShown` speak of a page that waits for nothing
and whose last fetch succeeded (`Settled`). An answer clears the mark of an
invalidation even if its request was older, so the mark proves nothing; the
histories do. A change that invalidates and overtook nothing is one that the
request under way was sent after (`LiveAsked`), and so was the one that brought
data without a mark (`EntryAsked`); marked data on a page is being fetched unless
the last fetch failed (`MarkedFetched`), so a settled page has none. The other
half is about the server: what the request under way has read so far holds the
changes it was sent after (`LiveFresh`), and the data those that it was
(`EntryFresh`), because a change the browser was told of is committed (`ToldDone`,
`CommittedApplied`). Where they meet, `InvalidationsComplete` says that a change
whose mutation does not invalidate the query does not affect it.

`EngineResultKept` is about committed rows and broken by transactions that have
read or written before: `KeptInv` says of what is written and not committed that
it keeps a result and does not take back an override (`WritesKeep`), that no
row is written by two (`RowsLocked`), and that what `override_status` read as
overridden still is (`ReadsKeep`) though what it read as not overridden may be.
The COALESCE of the UPDATE is what makes the last sentence enough.

`FormKeepsItsColumn` is stated of what is on screen. `PanelInv` ties the form to
the column of the panel whether or not the heatmap has arrived that shows it
(`FormAnchored`), and the selection to the key it was last seeded for
(`SelectionSeeded`); reports are tied to the transaction they are about
(`ResponsesTrue`, `ReportsTrue`).

`RangeIsChosen` needs that the range of a tab is what reading its address anew
would give, if it can be read at all (`TabsShowChosen`): then it does not matter
which renders hit the memo. Local storage belongs to all tabs; `StoredIsLast`
says it has the range of the tab used last, which is where a new one starts.
`ParamsReadBack` is the lemma about the conversion: a range written to the
address is read back as it was, for every preset and every pair of instants.

`ObjectivesProducible` and `WizardSubmitsSound` depend on caches that are older
than the tables. What is cached was once the latest version (`LatestOnce`), rows
of versions never change except for `active`, and no version is removed; so what
the wizard read of a version stays true of it. The facts about the page are
stated over tables as parameters, and one lemma per table (`...Outlasts`) says
that they survive its growth. `GeneratedBelong` is inductive with the references
between the tables (`GroupsKnown`, `TemplatesKnown`, `SliVersionsKnown`) and with
what the plan of a request under way still fits (`PlansFit`): as long as its
group is not `raced`, every active version of the group is one that the plan has
read, and each is still to be deactivated or remains the group's after the request
(`Owns`). A second request about the same group is what makes both plans unfit.

`ChartShowsLastChoice` compares what the chart shows with `clicks`. A mounted chart
has a setting of its own exactly when the last click was on its own switch
(`Followed`): rendering synchronises every mounted chart with the generations of
the page, so only the switch whose generation moves drops the charts' own
settings, and `ClicksRemembered` says that a chart that leaves the screen turns
its own clicks, and no others, into lost ones. After a reload the switch for all
charts is read back from local storage.

`AxisFramesData` needs that what is drawn is a finite set of tenths, hence has a
least and a largest number (`ListMax`, by the shortest list without), that the
tick is positive and below a quarter of the span (`NiceStepBounds`), and that
snapping to it leaves room beyond the data and at most doubles their span
(`BeyondFrames`). Cutting digits moves a bound by at most half a unit of the last
digit kept (`RoundBoundNear`); a span of more than five such units leaves a tenth
of it beyond the data, which is more than that, and a flatter one may lose it
(`PaddedAxisFrames`).

`HoverFollowsPointer` needs that the watchdog is attached exactly while it knows a
map and that no other map's tooltip is visible (`TipsSound`), that a visible
tooltip has been tracked, so that unmounting its map releases it, and that no
timer of the popover is left while the pointer is on the icon.

`NotesCategorised` is about a deletion in two statements: until the second, the
category and the one its notes move to are there, and the notes found by the
first are still of the category, since their rows are locked (`DeletingKnown`).
When the category is 'info' itself its notes stay, and the foreign key refuses
the deletion unless there are none.

`DefaultExplained`: the row that an open `set_default` has read is still a type
or was deleted (`DefaultingKnown`), and what the saves of the dialogs ask for
has names (`SavesNamed`). `LoadedFieldsOwn`: both edit dialogs for groups, open or
not, have the fields of the group they are for (`EditsOwn`), which for the panel's
is the selected one (`PanelFor`): every event that gives a dialog another group or
a tree another object runs its effect, and opening and cancelling do not. The
asset dialog has an asset's own fields from the first answer for it on, because
nothing but such an answer fills them (`AssetLoaded`).

`CyclesExplained`: the parent in a dialog is the one that the group has in the tree
on screen, or one that was offered by that same tree and so lies outside of what
is below the group, provided that no group has two parents (`OwnFields`,
`SafeLink`). A save therefore closes no cycle among the links its user saw
(`SavesSafe`), and it is excused if those are no longer the links of the table
when it is carried out, or if some group had two parents by then: the
selector still offers what is below the group if it is below another one too. A link from nowhere is to a group that its own save creates,
under a name never used before (`NamesSpent`), so nothing is below it. That
adding a link above closes a cycle only if its upper end was below its lower one
is a fact about chains of any length, proved from `Below` being the least set that is
closed under the links (`BelowLeast`, `BelowClosed`).

`LabelsLegible`, `CellsWorst` and `NotesListedOnce` say what a loop computes. Three
lemmas make such a proof possible without an operator as a parameter: `UpTo`, induction
over the numbers up to n with a set for the statement; `Iterated`, that n steps
given as functions can be taken one after the other, so the recursive function
of the model exists; and `LoopKeeps`, that its values stay in their type. The
induction for the pills (`PlacedApart`) says that pills of a row are apart and that
the pass stops only at a pill too close to one of each row: with three rows, three
different ones. For the cells (`SaysWorst`) it says what the cell knows of the
evaluations so far, and for lists (`InOrderLists`) that they go up and miss
nothing. The state invariants they need are that the cached notes are in the
order of creation (`SeenSound`) and that widths are numbers wherever they are
copied (`WidthsSound`). That an entry is begun by one note and no note is in two is
`EntriesApart`.

The inductive invariants, or their conjuncts that a run's property does not have
already, were model-checked on the instances above before they were proved.

**Only model-checked**: the liveness properties (`RunCompletes`,
`RunningResolved`, `RecoveryStops`, `DeferralsEnd`, `JobsSettle`), which rest on
fairness and ENABLED, which the prover does not handle. Every invariant that a
passing run checks is stated by a theorem.

## 7. Where the code and its own words disagree

`v_pin`: the docstring of `pin_baseline_many` says that "at most one active pin
survives per group". The UPDATE that unpins sees what is committed when it runs
and nothing locks the group, so two requests for different columns leave two
active pins, after which `get_active_pin` raises for that SLO.

Others were met while modelling. The modules have the behaviour as it is in the
code; the properties are stated so that they say what does hold:

- the deduplication guard of Phase 1 never fires, since `mark_running` comes
  first: a redelivered message puts a completed row back to `running`. The
  result survives (`ResultsAlwaysConsistent`), the status does not;
- the stuck threshold (180 s) is below the time arq grants a job (300 s), though
  the watchdog's docstring demands the opposite: living jobs are recovered, and
  `_mark_failed` of an overlapping execution erases the retry counter, so that
  recovery need not end and a run need not complete (section 5);
- the watchdog's cron fires every minute (`queue.py:454-478`) and a tick may last as
  long as a job: two ticks can read one row and both requeue it, or one fails what
  the other has requeued. The row then has two owners and may leave a terminal
  status after its run was published (`SingleOwner` and `RunAggregatesChildren`
  exclude such rows);
- in the adapter a cancellation between the coordinator's read and its write is
  lost though acknowledged; cancelling an expired job leaves a hash
  `get_status` cannot read; `sync_query` is patient for twice one query's
  time-out, not a job's;
- a comment in the re-evaluation service says a reader can never re-cache the
  state before the commit; one that read before the commit and stores after the
  eviction does (`FragmentStaleOnlyByLateStore` names it);
- after writing a note "the new note appears immediately"
  (`ui/features/evaluations/hooks.ts:125`): an invalidation that
  meets a first fetch, or one of a page that was left, does not restart it, and the
  older answer clears the mark; the change is missing until something else
  refetches (`NoLostInvalidation` names it);
- triage of change points invalidates their own keys only
  (`ChangePointsPage.tsx:180`), while the heatmap's cells have the change points
  that are not hidden (`router.py:174-203`) and draw them: a hidden one stays on a
  heatmap in the cache. The pair is in `Forgotten`, with the other ones;
- two restores of an override at once lose the engine's result; `forms` checks
  `EngineResultKept` without restores;
- deleting and regenerating an SLO group (`slo_groups/router.py:233-333`) lock
  nothing. The UPDATE that deactivates a name's versions
  (`slo_registry/repository.py:303`) does not see one that a regeneration inserts
  meanwhile: it stays active and resolved for assets, generated by a group that is
  no longer active (`GeneratedBelong` excludes groups with two such requests at
  once);
- `docs/modules/slo-groups.md` says a broken baseline starts fresh, the code
  makes the new version comparable with the one before it;
- `docs/modules/assets-ui.md` says the edit dialog reassigns the parent; it adds
  a second one, with which a cycle can be chosen (`CyclesExplained`);
- every answer for the tree, after any refetch and whether or not anything has
  changed, takes back what the user has typed and chosen in a group's dialog, and
  every answer for an asset what was picked in the asset's: the effects compare
  objects (`GroupEditDialog.tsx:32-38`, `AssetEditDialog.tsx:26-32`) that new dates make
  new each time. The comment there calls it an "intentional reset on prop change";
- the panel's dialog for a group keeps a parent that was chosen and cancelled, and
  shows and saves it when it is opened again (`GroupDetailPanel.tsx:268`;
  `LoadedFieldsOwn` says so);
- the dialog for an asset has the fields of the asset edited last until the first
  answer for the new one (`LoadedFieldsOwn` says exactly how long);
- `set_default` says it works "Atomically" (`assets/repository.py:76`): a rename
  between its read and its writes leaves no default type (`DefaultExplained`);
- a chart's own setting of a switch is state of the mounted component
  (`useMasterOverride.ts:20`), while the switch for all charts is remembered: another
  tab, another evaluation or a reload takes the setting away without a word
  (`ChartShowsLastChoice` says when);
- `roundBound` is to keep "real digits" and `paddedAxisBound` "guards against a flat
  series" (`useMetricTrendState.ts:59-67`): for values that agree in twelve digits the
  rounding takes away the room beyond the data, the axis may have both bounds at one
  place and data lie outside (`AxisFramesData` says from which span on it does not);
- the page says of every category that its notes move to 'info' when it is
  deleted; for 'info' itself the request fails on the foreign key, or deletes it
  when it has no notes, and without it no other category can be deleted;
- a deep link's evaluation is dropped when the asset panel mounts.

## 8. Abstractions

- Metric values, scores and indicator rows of one execution are one outcome. An
  SLO has at least one objective (`slo_parser.py` refuses an empty list), so a
  stored result always has indicator rows.
- The sums of points in a run, user-visible texts and logging are left out.
- Cleanup transactions of one row (`mark_completed` and its indicator rows) are
  one step; a failing one leaves nothing, as PostgreSQL guarantees.
- Adapter: `create_job` writes two keys nobody reads before the id is queued and
  is one step; progress counters are left out; Redis is assumed to answer;
  expiry does not overtake a poll loop (an hour against minutes).
- The sweeper's list and the finalize jobs are one set: handling a run twice at
  once is covered by its being listed again after its read.
- `ColumnCache` has one key; keys of a cache do not influence each other. The
  `queries` run has no failing Redis command (`MaxFaults = 0`): with one, only
  the TTL bounds how long a fragment is stale, and the property says nothing.
- `QueryCache` follows one query at a time; `keepPreviousData`, which shows
  another key's answer as a placeholder, is left out, and the number of retries is
  not counted.
- `DefinitionRegistry`: what a group request reads before its first write is read
  at one moment; creating a group is one step; the page has one create and each
  user one request about a group under way at a time.
- `AssetGroups` has one default type or none. `POST /asset-types` accepts
  `is_default` and could make a second one (`assets/repository.py:50-63`); the page
  never sends it, and it is left out.
- The axis is computed exactly, for values in tenths, before its bounds lose
  digits: the drift of binary fractions, which `roundBound` is there to remove, is
  not modelled.
- The result of a re-evaluation, the name a template row gives and the heatmap
  an asset is answered with are choices of the model.
- React effects and the renders they cause are one step with the event that
  caused them; answers of the server are steps of their own.
- Widths of labels are given, not measured; colours, texts and what ECharts
  draws are left out. Criteria and weights of objectives, tags, labels and
  variables of assets and SLOs are left out where no guard reads them.

## 9. Not modelled

The evaluation engine, the statistics of the adapter and the change-point
detector are floating-point functions without state. The metadata timeline is a
pure derivation on every read. Data sources, display groups and configuration
are CRUD of single tables, and their pages are forms over them. Of the web UI
the generated types (`generated/api.ts`), the renaming of fields in `mappers.ts`
and the drawing of charts have no behaviour of their own. The mock adapter, the
Python client and the integration-test stack are thin layers or tests. SLO
groups assigned to asset groups, the data source a trigger picks, import of YAML
definitions and the trend cache (same protocol as the heatmap's, other keys) are
left out of the modules that would hold them; `PROJECT.json` says so component
by component.
