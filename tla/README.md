# LineageIQ: TLA+ models, checks and proofs

LineageIQ simulates an enterprise data platform, injects faults into its data,
detects them with deterministic controls, groups the alerts into incidents, and
lets an agent investigate each incident with read-only tools. This directory holds
TLA+ models of its backend (`backend/app`), TLC configurations and TLAPS proofs.

## 1. Inventory

| Part | State it keeps | Operations | Hard behaviour | What makes it correct |
| --- | --- | --- | --- | --- |
| Agent orchestrator (`agent/orchestrator.py`, `types.py`) | `AgentRun` row, `context.collected`, budgets | `investigate_incident` | many statements in one transaction; failing tools; concurrent runs; crashes | a run is stored whole or not at all; what a report cites is stored; weak reports are reviewed; a run ends |
| FakeLLM and playbooks (`agent/llm.py`, `knowledge.py`) | position in the plan | `decide`, `synthesize` | failed calls shift nothing but count as evidence | confidence follows the evidence |
| Validation and policy (`agent/validation.py`, `policy.py`) | none | `validate_report`, `evaluate_human_review` | ids in memory against rows | no unsupported confident report passes unreviewed |
| Tools (`tools/`) | Evidence rows | six tools, registry, SQL guard | a SELECT or a flush that fails poisons the session | one row for each successful call |
| Session (`db/session.py`) | transaction | commit, rollback, close | isolation of PostgreSQL and SQLite | atomicity |
| Incident service (`incidents/service.py`, `restore.py`) | alerts, incidents, alert evidence, ground truth | inject pipeline, create incident, restore | statements of concurrent requests interleave | artifacts of one incident are there together |
| Detection runner (`detection/runner.py`) | none | group alerts, create incidents | generic alerts folded into a named cause | each alert in one incident |
| Detectors, reconciliation, severity (`detection/`) | none | 11 detectors | thresholds, boundaries, days without a source | no false alarm on clean data, each fault seen |
| Injectors, manifests (`incidents/injectors.py`, `manifest.py`, `cli.py`) | the data set, manifest files | generate, inject, restore; plan and apply of 10 types | fallbacks that change nothing; planned on one data set, applied to another; files without a transaction | the fault is the manifest's and changes nothing else |
| Simulator (`simulator/`) | the data set | wipe, generate, validate | wipe order | clean data reconcile |
| Lineage (`lineage/`) | asset graph | add node, add edge, upstream, downstream, impact, paths | depth and path caps, reversed walks | the directions agree; a path explains what is found; the default depths miss nothing |
| Evaluation (`evaluation/`) | `EvaluationRun` rows, report files | run, baseline, metrics | wipes the live store, ids by the second, files outside of the transaction, a second session for the answer | the files of a stored run are its own; rates agree where they divide by zero |
| ML (`ml/`) | two model files | train, infer | regenerates the data set; two files, not in the transaction | the files belong to one training |
| API (`api/v1/`) | none | routes; each writing route in one `session_scope` | thread pool, retries by clients | a request ends |
| Config, logging, tracing, frontend, Alembic, CI | | | not modelled (section 8) | |

The API routes call the services inside one `session_scope`, that is, one database
transaction. The services share nothing but the database: no lock, no queue and no
cache coordinates two requests. The orchestrator calls the model for the next
tool, the tool writes an Evidence row in the orchestrator's session, the validator
reads those rows back.

Facts that shape the models:

- Every playbook names an existing lineage node and fixed SQL that the guard
  accepts, so "unknown node" and "guard refused" are not outcomes of a tool call.
- FakeLLM always builds exactly one candidate and one remediation that requires
  approval, so the rules of the validator and the policy about several candidates
  or executed remediations cannot apply.
- `OpenAICompatibleLLM` decides by the same playbook and delegates its report to FakeLLM; nothing calls its
  HTTP request. `Investigation` is about both.
- The orchestrator never sets the policy's `tool_conflict` and `critical_data_unavailable`, and no code reads the settings
  for SQL retries, tokens and cost that `docs/AGENT_DESIGN.md` lists as budgets: only calls and duration end a run.
- No code path stores an AgentRun as "failed"; an exception rolls it back.
- `inject`, `evaluate` and the training always wipe and regenerate everything first.
- The store of lineage that requests share (`get_lineage_store`) is built once and only read; only the caller
  that builds a store adds to it.
- No control raises an alert above "high", so no incident is ever stored as "critical" and the policy's rule
  about critical incidents never fires for one; `Investigation` allows every severity.
- Incident ids of injected incidents are `INC-<manifest id>`: the same incident id
  comes back with every injection of the manifest.

## 2. Modules

| Module | Models | State and actions |
| --- | --- | --- |
| `Playbook` | taxonomy, tool plans, remediation risk, confidence table, review policy | operators only |
| `Investigation` | `investigate_incident` in its session | below |
| `AtomicInvestigation` | what readers of the store may assume of a run | one step stores run and evidence, or nothing |
| `MCInvestigation` | three incidents for TLC | constants |
| `InvestigationProofs` | theorems about `Investigation` | below |
| `IncidentStore` | the requests that write to the store, statement by statement, on PostgreSQL | below |
| `Regeneration` | what a request that regenerates the data set may rely on | one holder at a time |
| `MCIncidentStore` | two manifests and what detectors find in their data | constants |
| `IncidentStoreProofs` | theorems about `IncidentStore`: types, the refinement, progress | section 6 |
| `IncidentArtifactsProofs` | theorems about `IncidentStore`: what is stored together | section 6 |
| `Enterprise` | the tables and the generator's clean data set | operators only |
| `Detectors` | the eleven controls, the reconciliation, the validation, the baseline's ranking | operators only |
| `Injectors` | targets and effects of the ten injectors | operators only |
| `FaultDetection` | the commands that seed, plan, inject and detect | below |
| `MCFaultDetection` | small data sets for TLC | constants |
| `FaultDetectionProofs` | theorems about `FaultDetection` | section 6 |
| `Evaluation` | evaluations and trainings with their files, rows and answers | below |
| `Metrics` | percentile, escalation rates, calibration | operators only |
| `MCEvaluation` | three jobs; what their rows show | constants |
| `EvaluationProofs` | theorems about `Evaluation` | section 6 |
| `MetricsProofs` | theorems about `Metrics` and what a stored row shows | section 6 |
| `Lineage` | the lineage store and the queries about it | below |
| `AtlasLineage` | the graph of the simulated enterprise | operators only |
| `MCLineage` | any small graph, and that one | constants |
| `LineageProofs` | theorems about `Lineage` | section 6 |
| `RecursionProofs` | recursion, induction and sums, for the other proofs | section 6 |

`Investigation` extends `Playbook`; `FaultDetection` extends `Injectors`, which extends `Detectors` and
`Enterprise`. `IncidentStore` takes the findings of a data set as a constant: it asks how requests
interleave, `FaultDetection` what they compute. `Regeneration` joins `IncidentStore` and `Evaluation`:
the one is shown to implement it, the other takes the data set by its actions.

### Investigation

`pc[r]` is the place of run `r` in `investigate_incident`: `Start` (flush of the
"running" row and `build_context`), the loop ("deciding": `StopOnBudget`,
`Finalize`, `CallTool`), `Synthesize`, `Validate`, `Conclude` (policy and last
flush), `Commit`. A call has four outcomes: it succeeds; its own SELECT fails (which
aborts the transaction on PostgreSQL and only the statement on SQLite); its flush
fails (SQLAlchemy deactivates the session on either database); or it finds the
session poisoned and raises. `tx` says whether the session is usable. `pending`
holds what was flushed and nobody else sees; `evidence` and `agentRuns` are what is
committed. A statement outside the tools may raise (`StatementFails`), which leads to
`Rollback`; `Crash` may happen at any time. Tools are named by the evidence type
they store; arguments, texts, token counts and the alert metadata are left out.
`LeadingCauses` lets a tie be broken either way because the SELECT has no ORDER BY.

### AtomicInvestigation

A run is idle, running, recorded or lost. `Record` adds one completed AgentRun
with new evidence rows of the run's own, as many as the count says, among which
with older rows everything the report cites is found, and of two kinds unless a
human has to review. `Investigation` implements it under the mapping
`state = pc`, all stages between the start and the end being "running".

### IncidentStore

A request (`seed`, `inject`, `run-detection`, `investigate`, `evaluate`) is the sequence
of its statements (`Program`), `at[r]` the next one. `rows` holds committed and
uncommitted rows, each with the request that wrote it; `gone[r]` what an open request has deleted.
A DELETE is two steps: `StartDelete` takes its snapshot of the visible rows,
`FinishDelete` locks, skips what somebody else has deleted meanwhile, checks the
foreign keys against everything committed, and deletes. An INSERT waits for an uncommitted
rival of its primary key or for the deletion of its parent, and raises if the key
is taken or the parent gone. `WaitsFor` is the wait-for relation; `BreakDeadlock` aborts
one request of a minimal circle. `Fail` aborts a request for any other reason. The
simulator's tables are one row, "data", with the content of the clean baseline or of
one manifest: every generation has the same primary keys, so they are inserted and
deleted alike. The detectors read in two groups, so that somebody else's commit can
fall between them; what they find is the constant `Findings`. The flushes of one call of
`create_incident_from_alerts` are one step, as no other request can see, delete or wait
for its new rows in between. PostgreSQL itself is
modelled from how the code uses it and marked external. An investigation whose incident is not
there ends like any other failure, by a rollback.

### Regeneration

`holder` is the request that has deleted the data set, `data` the transaction that generated the
committed one. A request takes the data set when nobody has it, and publishes its own or gives it back.
`IncidentStore` implements it with `holder` = the request that has deleted rows of the committed data set and
`data` = the one who wrote those rows.

### Enterprise, Detectors, Injectors

A database is a record of tables, each a set of rows or a function of its key. A time is a number of
minutes, money a whole number of the unit that amounts are rounded to, a rate a number of
hundredths; `Convert` rounds half up as `fx.convert` does. `Generate(draws)` is the data set that
`DataGenerator.generate` makes of its random numbers: `draws` is a number of days, a rate for each
currency and day, and a sequence of orders, each with what becomes of it (cancelled, paid, when,
refunded, shipped). The published report is computed from the drawn rows (`GenReports`), the
controls recompute it from the stored rows (`RecomputeFromSource`), and the validation a third time
(`ReportReconciles`); each is translated from its own function.

A control is an operator from a database to a set of alerts. An alert keeps what it is about, its suspected
cause and its severity. `AllDetectors` names the controls by the cause that each alone suspects, in
the order in which they run; `Leading` is the baseline's first cause.

An injector is a set of targets, what `plan` may choose by `rng.choice`, and an effect: the set of
databases that `apply` may leave, empty when it raises. Seventy percent of the orders of a day are
computed exactly; `int(n * 0.7)` could differ by one for an unlucky `n`, which no property tells apart.

### FaultDetection

`db` is the stored data set, `config` the configuration it was generated with (default or `--small`), `manifest` the
one saved manifest that will be injected next (of the eighty, which do not influence each other),
`injected` the ground truth of the stored incident. `Seed` is `seed` and `restore`; `Reset` drops
the tables; `PlanIncidents` is `generate`: it plans on what is stored and only seeds
when there is no order, saves each manifest at once, and raises at the first type without a target, after
which the earlier files are there and the transaction is not; `Inject` restores, applies, detects and
stores in one transaction; `Detect` runs the controls. Every command that takes `--small` chooses the configuration
anew.

### Evaluation and Metrics

A job is an evaluation (called by the API or the CLI, with manifests or, as `--per-type 0` allows, without)
or a training. It begins a wipe (`Begin`), gets the data set (`Take`, of `Regeneration`, and only if nobody
has published another since its wipe chose its rows), scores, and then writes: an evaluation makes its id of the clock (`Name`), writes the JSON file, the CSV
file and the summary, flushes its row (`InsertRow`) and commits; a training writes the bundle
and the metrics. Each write may be torn. A job fails at any point (`Fail`): that rolls back its rows, never its
files. An evaluation without results writes no CSV file and raises in the summary. The API then reads the
latest row in a second session (`Answer`). Files are functions from run ids to the job whose results they hold.

`Metrics` translates `_p95`, `_escalation_metrics` and `_calibration`. Rates are fractions of
whole numbers and `round` takes a half to the even neighbour. Floating point is left out: `0.95 * (n - 1)` and the
borders of the bins are exact. `MCEvaluation` states that a stored row shows metrics for which this or that
holds, whatever the results.

### Lineage and AtlasLineage

A store is one that a caller builds (`AddNode`, `AddEdge`, which refuses an edge without its nodes) or the cached one,
which holds the graph of `graph_config.py`. `Walk` is `upstream`, `downstream` and `impact` by
`_subgraph_result`: the ball of the depth, its edges, the leaves of the ball and the paths to them, reversed for
`upstream`; of more than `MaxPaths` paths some are left out. `Path` is the route for shortest paths. networkx is
modelled by what its documentation says of `ego_graph`, `all_simple_paths` and `shortest_path`. The walks are
recursive functions of the depth, the paths an iterated set.

## 3. Runs

| Run | Question | Instance |
| --- | --- | --- |
| `investigation` | is what is stored of a run whole, grounded and reviewed when it must be? | two runs, three incidents, both databases, budget of 4 calls, one tick |
| `investigation_live` | does a run end, and does it look atomic? | two runs on one incident, budget of 8 (the default) |
| `tool_failure` | does a failing tool leave the run able to go on? (no) | as above, PostgreSQL |
| `confidence` | does the confidence follow the evidence? (no) | as above, SQLite |
| `incident_store` | can requests tear an incident apart, not end, or investigate alerts of another generation of an incident? | three requests, seed, inject, detect, investigate; empty or injected store |
| `restore_is_full` | does a restore leave no injected incident? (no) | two requests, the operations that wipe, and detect |
| `fault_detection` | do clean data reconcile, is each fault seen, ranked first and confined to its manifest? | 18 pairs of data sets, every target, one `generate`, or two on data sets of three days |
| `rate_control` | does the control of stale rates leave clean data alone? (no) | as `fault_detection` |
| `injection_is_isolated` | does an injector change nothing but what its manifest names? (no) | as `fault_detection` |
| `manifest_reproduces` | can every saved manifest be injected? (no) | as `fault_detection` |
| `evaluation` | are the files and rows of a run its own, is the answer not older, do its metrics agree? | three jobs of any kind, a second of two ticks, five ticks |
| `lineage` | do walks, paths and defaults agree with each other? | every graph of four nodes and six edges; the graph of the enterprise |

Properties of `investigation`: `CitedEvidencePersisted` relates the ids a report keeps
in memory to rows; `ToolCountMatchesEvidence` the in-memory count to rows;
`AllOrNothing` is the atomicity of the run with respect to failure and crash;
`UnreviewedIsGrounded` says that a report which nobody reviews walked its whole plan
and rests on two kinds of stored tool evidence, although confidence and budget are
both disturbed by failed calls; `NoSelfRejection` says that the validator never
rejects what the deterministic model writes. `ArtifactsTogether` spans tables, only some
of which have foreign keys. `InvestigatesWhatIsStored` holds because the AgentRun row
is flushed before the alerts are read: the row's foreign key pins the incident. With
the two statements swapped (`ContextFirst`) a wipe and a re-injection under the
same id fit between them. `RegeneratesOneAtATime` is the refinement of `Regeneration`: no code keeps two wipes apart,
only the primary keys of the generated rows, on which the second wipe's INSERTs collide or its DELETEs wait.
`RequestsEnd`: every accepted request ends, whatever it has to wait for. It rests on PostgreSQL's deadlock detection: without
it (`DeadlocksUnnoticed`) two wipes wait for each other for good: the first has cleared the evidence before an injection commits, then deletes the ground truth
of that injection, and cannot delete its incident while the second, which began with the evidence, is deleting that and waits for the ground truth.
`SomeoneGoesOn`: as long as requests are open, one of them can execute its next statement or is in a circle of waits that the
database breaks. Locks end with the transaction that holds them (`AbortKeepsLocks` violates it), nobody waits outside of a
circle for good, and detectors always have a data set to read, although a wipe and a load are statements of their own.

`CleanBaselineReconciles`: whatever is drawn, the three computations of the report agree, although rows of one sale fall on
different days, and no control blames a value in clean data. It names the three controls that may
speak on clean data: a thin day, a day of cancelled orders and a repeated rate.
`FaultIsSeen`: every injectable fault raises an alert of its own cause, with two exceptions, boundaries of the code that
the property draws exactly or from one side. A time zone shift is seen if and only if it counts (`ShiftCounts`): not all
of what moves is cancelled, the next day has a report, and the day that is left keeps something. A partial load is seen
if the day had three orders or five and more and more than half of the days had as many (`ThinOnceLost`); of two or four orders, seven tenths
rounded down leave half. `BaselineNamesTheFault`: an
injection is noticed by several controls, and the one that names it wins, twice only by
the order in which the controls run. One exception is a boundary of the code again: orders that a time zone shift moves raise the
median of a data set with uneven days, days that nobody touched become thin, and two `PARTIAL_LOAD` alerts outvote the one that names the shift. `ControlsAgreeWithValidation` relates the two code paths that check the report, and finds their one
difference: a report whose source is gone altogether is skipped by the controls.
`InjectionKeepsReferences` and `InjectionStaysInManifest` hold each injector to the foreign keys and to its
`changed_tables`. Two types change one table more than they name, and the property says by how much: a delayed pipeline and a
partial load add one entry to `system_logs` (section 5).

`StoredRunHasItsReport`: the id of a run has the granularity of a second and names its files. Two runs never share one,
because an evaluation has the data set to itself and lasts longer than a second; only one without manifests, which takes no
time and then fails, can overwrite the JSON file of the run before. `LatestReportIsNotOutdated` and `ArtifactsOfOneTraining` ask
the same of the files with fixed names, `AnswerIsNotOlder` of the second session. `NothingReplacedUnseen`: a wipe chooses its rows
before it waits, so a job that commits could overwrite a generation it never saw; the collision of the primary keys prevents it. `StoredPercentilesAreHigh`,
`StoredRatesAgree` and `StoredCalibrationIsWhole` compare the metrics with the results they are of, at zero
results, zero reviews, halves that are rounded to even and confidences on a border.

`WalksMirror`: the upstream walk runs on the reversed graph, and what it finds must find its root downstream.
`PathsJoinRootAndBoundary` and `BoundaryIsExplained` relate paths, leaves and edges, which are
computed apart, with depths counted twice (nodes of the ball, edges of a path). `PathAgreesWithWalks` relates the two
queries. `DefaultDepthsSuffice` is about the graph of the enterprise: 10 suffices for `impact` of every asset and 6 for
the agent's walks down from the focus node of each root cause. The default of 6 for `upstream` does not (a dashboard is
eight edges from `crm_api`), and nothing in the repository says it should. The assumption `AtlasIsClosed` has
TLC check that the graph names no node it does not have.

Bounds. Two runs are enough for every pair of interleaved investigations; they interact
only through committed evidence and the SQLite writer. A budget of 4 calls makes plans of 3
(ends by itself), 4 (ends exhausted) and 5 (cut short) steps occur. `MaxDuration = 0` with
one tick is the run within and the run over its time. Three requests are the smallest number
with which a circle of waits occurs: in all that the run reaches, two seeds or injections wait for each other after an injection has
committed between their statements; with two requests `InSmallestCircle` never holds, and detections and investigations wait but
are in no circle. Requests differ in what they do only, so `MCSpec` starts them in one order of their operations; a SYMMETRY set would do
the same but is unsound for `RequestsEnd`. `evaluate`, whose statements are those of restores, an injection and an investigation,
is among the operations of `restore_is_full` only; the theorems hold for it. Two manifests give findings with one named cause (generic alerts folded in) and
with two (not folded). `Tick` is capped one beyond `MaxDuration`, where its value no
longer matters. Deadlock checking is off, because every run and request ends.

The data sets of `fault_detection` have six days (`PartialLoad` needs five, `Margin` = 1 leaves four
targets) with three orders each: one of Europe, one of Asia, and one of Asia late in the evening,
paid on the next day. The third day instead has up to two of four orders: cancelled, one minute before
midnight with the payment and refund on other days, late and cancelled, late and refunded; so it is empty, thin,
cancelled or normal. One data set repeats a rate, and one has five uneven days, the fewest on which a shift makes two others thin. `Sample` = 2 of three customers lose their mapping (5 in the
code). The rates cover eleven days after the last one, the least that `FxBufferSuffices` allows for refunds of up to ten days
and six hours (20 in the code). `MaxGenerations` bounds the runs of `generate`: one is enough for a manifest to meet both
configurations; two (on three days) for one that was planned on injected data.

`evaluation`: two jobs collide, the third comes in between. Two ticks a second make two moments of one id; `MinDuration` = 2 is
the least that `DurationAssumption` allows, `MaxTime` = 5 lets two evaluations end one after the other and a third job share
the id of either. The clock does not go back. The metrics are checked on up to `MaxResults` = 80 results for the percentile (the
size of a full evaluation), up to four for the rates and three for the calibration, which is enough for
each count to be zero, one or more, and for two results in one bin beside one in another.

`lineage`: four nodes and six edges have cycles, shortcuts, self loops and diamonds; depths 1, 2 and 3 cut them and 20 does
not. `MaxPaths` = 2 lets the cap be reached; on the graph of the enterprise no query has more than 12 paths, so there the code's 25
never is.

## 4. Fairness

`investigation_live` assumes weak fairness of the steps a started run takes by itself: the
thread serving a request keeps executing. Starting a run, the passing of time and crashes
are not fair. `incident_store` assumes the same of requests, plus that PostgreSQL
aborts a request of a deadlock (`deadlock_timeout`). Both are what a live
server and a live database do; nothing assumes that a tool succeeds.

## 5. What TLC refutes

1. `ToolFailureIsContained`. "tool failed; record and continue" holds on SQLite only: on
   PostgreSQL a failed SELECT aborts the transaction, every later statement raises and the
   validator's SELECT ends the run without a stored AgentRun.
2. `ConfidenceReflectsCoverage`. FakeLLM counts "error" as a kind of evidence. The review
   policy is not deceived, as it counts sources without it (`UnreviewedIsGrounded` holds).
3. `RestoreIsFull`. The wipe is one DELETE per table at READ COMMITTED; an injection that
   commits between the DELETE of incidents and that of the data tables leaves its incident and ground
   truth over a clean data set.
4. `RateControlIsPrecise`. Rates are rounded to eight decimals, and those of JPY and TRY are so small
   that two days in a row may draw the same one: then the clean data set has a "stale" rate.
   With `RANDOM_SEED=64` it happens on 2024-04-24 (JPY, 0.00668244).
5. `InjectionIsIsolated`. "An injector changes only the records named in its manifest", but a delayed pipeline and a partial
   load also write a `system_logs` entry, and their `changed_tables` do not name that table, as those of the other logging injectors do.
6. `ManifestReproduces`. A manifest does not record the configuration it was planned on, and
   `generate` plans on whatever is stored; injected with the other configuration its target may not exist.

## 6. Proofs

`InvestigationProofs` proves, for any set of runs and incidents, any alerts, severities,
databases and budgets (the ASSUMEs of `Investigation`: runs and incidents have different
ids, the functions are typed, the empty id is not an id):

- `TypeCorrect`: `Spec => []TypeOK`
- `StoredWhole`: `Spec => []AllOrNothing`
- `CitationsPersist`: `Spec => []CitedEvidencePersisted`
- `CountsMatch`: `Spec => []ToolCountMatchesEvidence`

None of the last three is inductive. `IInv` adds: entry k of the log is row k or a
failed call without an id (`CollectedIsNumbered`); while the transaction is usable, the
rows flushed are the successful entries of the log (`SessionMatchesMemory`: it fails for a
poisoned session, and that no poisoned session commits is why the theorems hold); the
report cites the alerts and the log (`StageInv`); and the store holds, for
the recorded runs and no others, the run row and the rows of its log (`StoreInv`).
`Consistent` proves `Spec => []IInv` with a lemma per group of actions, and the
theorems follow: for `CountsMatch` the map from successful log entries to stored
rows is a bijection. TLC checks the properties in the `investigation` run.

`Grounded` carries along, for each run, what the policy looked at (`GroundInv`): a run that ended by itself has as many log
entries as its plan has steps, its confidence is the one of the types in its log, its validation has passed, and it is reviewed
unless the policy asks for nothing. From it follow

- `NeverSelfRejected`: `Spec => []NoSelfRejection`
- `UnreviewedGrounded`: `Spec => []UnreviewedIsGrounded`
- `Refines`: `Spec => ImplementsAtomicInvestigation`, step by step: each action is `Record`, the start, the loss of a run, or
  a stutter of `AtomicInvestigation`.

`EveryStepCounts` is what holds of termination without fairness: `Remaining(r)`, the stages to come, the calls and the ticks left of
the budgets, is a natural number, and every step makes that of one run smaller and of no run greater. A tool that fails
uses up a call like one that succeeds (`StepUses`), a crash ends the run, and calls never exceed the budget (`WithinBudget`). So
every behaviour has finitely many steps.

`IncidentStoreProofs` is about any finite set of requests (`RequestsAreFinite`: a server has accepted finitely many), manifests and findings. A program of statements
that deletes the data set loads another next (`ProgramIsProgram`, for all operations). The inductive invariant is
`TypeOK`; rows have owners that are open or committed (`OwnersInv`); only open requests have deleted rows, each at most
one of them a given row (`GoneInv`); a snapshot is of committed rows or one's own (`SnapshotInv`); and `DataInv`: the rows of
committed data sets are those of one transaction, and who has rows of its own has deleted those. `StoreInvariant` proves
it with a lemma per kind of statement, and then

- `StoreTyped`: `Spec => []TypeOK`
- `OneRegenerationAtATime`: `Spec => RegeneratesOneAtATime`
- `WaitsAreResolved`: `Spec => []SomeoneGoesOn`. Who is waited for is open (`WaitsAreForOpen`: rows and deletions belong to open
  requests or to committed ones, which nobody waits for). Of finitely many requests that all wait for each other some are a
  smallest circle (`SmallestCircle`). And a transaction that reads sees a data set: the committed one, or its own (`DataIsThere`)
- `EveryStepCounts`: as for the investigation, `Remaining(r)` is a natural number, at most two for each statement to come, and every
  step of the store makes that of one request smaller and of none greater

`IncidentArtifactsProofs` is about the same. Neither `ArtifactsTogether` nor `InvestigatesWhatIsStored` is inductive, since a
wipe takes what belongs together apart, one table at a time, next to requests that insert. `ArtifactsInv` says, beside `IInv`:

- `Whole(Store)`: in the store alerts and their evidence, incidents and their evidence, ground truth and incident, run and tool
  evidence are paired, and each row has the incident that it refers to (`Parented`);
- `OneIncident`: of two incidents with one key, one is deleted by the request that inserted the other; `Pinned`: whoever
  deletes an incident has deleted the children it has, but those that are his own;
- `Local(r)`, for each open request: what it has inserted is whole but for the middle of an investigation, and so is what it has
  deleted but for the tables its wipe has gone through (`Closed`, with `Wiped` along the order of the DELETEs), also what the
  DELETE that waits for locks has chosen (`Chosen`); and what its context holds is the alerts of the incident that it sees;
- `Answered(r)`: the latter also of a request that has committed, as long as its evidence is stored.

There is a lemma per kind of statement; the hard ones are `FinishDeleteKeeps`, where rows that somebody else has deleted meanwhile
are skipped, and `CommitKeeps`, where others see a store without the committed deletions and with the new rows. From
`ArtifactsInvariant` follow

- `TogetherOrNotAtAll`: `Spec => []ArtifactsTogether`
- `InvestigationsSeeTheirIncident`: `Spec => []InvestigatesWhatIsStored`

`EvaluationProofs` is about any jobs, kinds, second, and clock, from `DurationAssumption`: an evaluation lasts at least a second
from its first wipe to its end (it restores, injects, detects and investigates for every manifest). `IInv` adds which kind
comes to which stage (`StageInv`), the order of the times that a job notes (`TimeInv`), that what is stored was named before the
holder took the data set (`OrderInv`), and what the files hold meanwhile (`FileInv`, `SummaryInv`). From
`JobsConsistent` follow `JobsTyped`, `ReportsAreOwn`, `SummaryIsCurrent`, `BundleIsWhole` and `AnswersAreCurrent`, one
for each invariant of `Evaluation` that the run checks. The heart is `RunIdsDiffer`: two moments an evaluation apart have different ids.
`JobsRegenerateInTurn` (`Spec => DataSet!Spec`) is the other side of `OneRegenerationAtATime`: every step of the jobs takes, publishes
or releases the data set as `Regeneration` allows, or leaves it alone, so the two models meet in one specification. From
`SeenInv`, that the holder has wiped what is committed, follows `ReplacedIsSeen`: `Spec => NothingReplacedUnseen`.

`RecursionProofs` has what the other proofs need about recursive definitions and folds. The library's theorems on induction take an
operator as a parameter; instead a claim is proved of all numbers by the set of the numbers that satisfy it (`AllNumbers`, from
the least element of a set), and of all finite sets by the set of the subsets that do (`FiniteInduction`). `Recursion` shows
that a recursive function of numbers exists, `FoldIsSum` that `MapThenSumSet`, a fold that chooses the next element, adds up in
whatever order (`Additive`).

`MetricsProofs` is about results of any number and confidences. `_p95` sorts; the model takes the element of a rank (`Ranked`), and
that there is one for every list is `RankedIs`. `P95IsHigh` bounds what is above it; `RatesAgree` computes F1 twice, with the
zeroes that the code sets; `CalibrationCounts` shows that the bins partition the results (`OneBin`), so that their sizes add up, and
bounds the calibration error from below by the triangle inequality, over the bins (`Distances`). The properties of the run follow, for any
`MaxResults`: `StoredPercentilesHigh`, `StoredRatesAreOne`, `StoredCalibrationWhole`.

`LineageProofs` is about any graph, cycles included, depth and cap, from finitely many `AtlasNodes`. Lemmas on the definitions come
first: `Within` is what a path of at most so many edges reaches (`WithinIs`, `WithinIsReached`), a step may as well be taken
first as last (`FirstStep`), a walk in the reversed graph mirrors one in the graph (`Mirror`), and the paths found are the simple
ones from the root to the boundary (`FoundPathsArePaths`), finite in number (`PathsAreFinite`). The invariant
`GraphInv` says that the graph is finite and closed and the reply, as long as nothing is added, one of the results for what was
asked. From `RepliesAreOfTheGraph` follow
`RepliesArePartOfTheGraph`, `UpAndDownAgree`, `PathsReachTheBoundary`, `NoLeafWithoutPath` and `PathsAreAsShortAsWalks`.

`DefaultsAreDeepEnough`: `Spec => []DefaultDepthsSuffice`, for any names, depths and cap, from the assumption that the cached
store holds the graph of `graph_config.py` (`OfTheEnterprise`, which `MCLineage` satisfies). The store stays what it is
(`CachedStoreStays`). A walk of any length finds an asset only from a set that no edge enters (`FoundOnlyFrom`): what the refund rate
is computed from (`FeedsRate`), or the report (`FeedsReport`) and the asset itself. Layer by layer, each of these is ten edges
away at most, and six if the agent starts there (`RateIsNear`, `ReportIsNear`). The ten are needed for the refund rate only.

`FaultDetectionProofs` is about any draws, customers, configurations and manifests. It assumes of the draws what the code draws from
(`DrawsAreGenerated`: an order at least, as the configurations ask for 20000 and 600; positive amounts and rates; refunds of at most ten days), rates that reach
further than the refunds (`FxBufferSuffices`), that the pipelines of failed runs are defined (`PipelinesAreDefined`, by
`PIPELINES`) and that a sample has a customer (`SampleIsPositive`).

- `StaysInManifest`: `Spec => []InjectionStaysInManifest`, from the stored data set being what the injector made of a clean one
  (`InjectedInv`, below) and one lemma per injector on what it leaves alone; as the clean log is empty, the two types that log
  unnamed leave exactly one entry (`UnnamedEntry`)
- `KeepsReferences`: `Spec => []InjectionKeepsReferences`, one lemma per injector that deletes or adds rows
- `BaselineReconciles`: `Spec => []CleanBaselineReconciles`: the report that is generated, that which the controls recompute
  and that of the validation are equal for all draws, and each control but three is silent on them
- `DataTyped`: `Spec => []TypeOK`. It is not inductive: that a run ends after it starts needs times that are numbers, and an injection's rows have
  the dates of its manifest. `TypeInv` adds `Typed(db)`, every row with the fields and values of its kind, and `TargetTyped`, what a
  manifest is about
- `FaultsAreSeen`: `Spec => []FaultIsSeen`. `InjectedInv` says that the stored data set is what the manifest made of a clean one,
  and the alerts are of it. It holds only because no injection takes the last order away (`EffectsKeepAnOrder`: seven tenths of a day,
  rounded down, are never all of it): `generate` would seed a data set without orders again and leave the old incident. Then a
  lemma per control shows what it sees of the fault, at its threshold: two payments of one key, twenty-five errors on one day, an adding
  that is not a subtracting because something was refunded. The median of days of which more than half have n orders is n at least
  (`MedianIsHigh`, for the definition by ranks), and of n orders, three or five and more, less than half of n stay (`MoreThanHalf`);
  orders that move are missing on one day as often as they are too many on the next (`MovedOrdersAreCounted`), and no other day
  has fewer than its report says (`OnlyTheirDayHasFewer`), which gives the equivalence for the shift (`ShiftIsSeen`)
- `FaultsAreNamed`: `Spec => []BaselineNamesTheFault`, by `FaultLeads` about any clean data set without alerts. What a control reads
  decides whether it speaks (`SilentAsBefore`), so for each injector it remains to show that the controls of the tables it writes
  stay silent but for its own: one log is no burst, a failed run of 25 minutes is not late, fewer payments share no more keys, and the
  order counts of the reports are never below those of the source unless orders move (`NothingMoved`). If the time zone control speaks, the
  next day has a report, so `DelayedPipeline` is silent (`ShiftIsTimely`). Eight types then leave one cause (`AloneLeads`); a renamed field
  leaves two with an alert each at most, which the order decides (`LeadingIs`); a shift leaves two that only the data can decide between
- `ControlsAgree`: `Spec => []ControlsAgreeWithValidation`, from `ValidationAgrees`, about any data set of typed reports in which no
  report has sales without orders (`SalesHaveOrders`, which every injection keeps)

Each property that a theorem states is an invariant or property of a passing run, so TLC has also checked it on the instance of
section 3.

Only model-checked: `Termination` and `RequestsEnd`, liveness under fairness, which is out of the prover's reach. Of the argument for
them the provers check that there are finitely many steps (`EveryStepCounts`, twice) and, for the requests, that there is one to take
(`WaitsAreResolved`); that `SomeoneGoesOn` implies ENABLED, and that what is enabled happens, is left to TLC.

## 7. Plan

1. Done: `Playbook`, `Investigation`, `AtomicInvestigation`, their runs, and theorems for every safety property and the
   refinement.
2. Done: `IncidentStore`, its runs, theorems for every safety property and the refinement of `Regeneration`.
3. Done: `Enterprise`, `Detectors`, `Injectors`, `FaultDetection`, their runs and theorems for every property.
4. Done: `Evaluation`, `Metrics`, their run and theorems for every property.
5. Done: `Lineage`, `AtlasLineage`, their run and theorems for every property.
6. Left, proofs: under which conditions on the draws a shift outvotes the days it makes thin.

## 8. Not modelled

- The frontend; configuration, logging, middleware and tracing: no state that the rest depends on.
- Alembic, CI and the DDL of `db/cli.py`: `reset` is an action of `FaultDetection`, its race with open sessions is not modelled.
- The SQL guard: a text parser whose input is fixed here. Tokens and cost.
- The read-only routes. An incident's detail is read in several statements that may see several commits; nothing in the
  repository says that its parts agree. For the same reason no property speaks of detectors that read two data sets, although
  `IncidentStore` lets them, and none of `run-detection` called twice.
- scikit-learn: the features, the training and the inference of the classifier, and its F1 scores. Of the metrics: plain
  means, totals and groups.
- Of the data set: net and tax amounts, limits, historical incidents, shipment dates, INFO logs and the texts of logs
  and manifests; `compute_severity`, which fills in a field of the manifest (the severity of an incident is the highest
  of its alerts', a constant of `Investigation`).
- SQLite in `IncidentStore`: there writers exclude each other; the model is of PostgreSQL, where requests really interleave.
