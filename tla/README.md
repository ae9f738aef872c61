# Formal model of Pokie

TLA+ modules, TLC configurations and TLAPS proofs kept beside this repository:
the places where API requests, worker processes and clients write and read the
same rows. Of the research product: imports, sources, collections, signals,
investigations, research runs with their event streams, and reviewed decisions.
Of the quant product: the shared workspace, the agent's repairs and its lineage
of runs.

| file | what it is |
| --- | --- |
| `ImportFinalization.tla` | import sessions, the finalization job, the manifest history of a source |
| `MCImportFinalization.tla`, `Import*.cfg` | its instances for TLC |
| `ImportFinalizationProofs.tla` | its theorems |
| `QuantWorkspace.tla` | the quant snapshot, its version and lease, run commands, agent steps |
| `MCQuantWorkspace.tla`, `Quant*.cfg` | its instances for TLC |
| `QuantWorkspaceProofs.tla` | its theorems |
| `SourceOperations.tla` | one cloud source: commands, validation jobs, collection schedules |
| `MCSourceOperations.tla`, `Source*.cfg` | its instances for TLC |
| `SourceOperationsProofs.tla` | its theorems |
| `Collection.tla` | a scheduled collection: storing items, raising a signal, freezing evidence for research |
| `MCCollection.tla`, `Collection*.cfg` | its instances for TLC |
| `CollectionProofs.tla` | its theorems |
| `QuantLearning.tla` | rejected tool calls, repairs, traces and pinned repair memory of the quant agent |
| `RepairContract.tla` | abstract: after a rejected call, repair it or stop |
| `MCQuantLearning.tla`, `Learning*.cfg` | its instances for TLC |
| `QuantLearningProofs.tla` | its theorems, the refinement of `RepairContract` among them |
| `QuantLineage.tla` | retries, series, refinements, candidates, sealed holdouts and reports of quant runs |
| `MCQuantLineage.tla`, `Lineage*.cfg` | its instances for TLC |
| `QuantLineageProofs.tla` | its theorems |
| `ResearchRuns.tla` | a research run, its workers, its cancellation, its event list and stream |
| `RunFeed.tla`, `RunLifecycle.tla` | abstract: the list of events a watcher is promised; the run state machine |
| `MCResearchRuns.tla`, `Research*.cfg` | its instances for TLC |
| `ResearchRunsProofs.tla` | its theorems, the refinement of `RunFeed` among them, and the theorem of `Investigations` |
| `ReviewLineage.tla` | reviews of evidence and claims, syntheses, decision briefs, freshness, export |
| `MCReviewLineage.tla`, `ReviewSafety.cfg` | its instance for TLC |
| `ReviewLineageProofs.tla` | its theorems |
| `Investigations.tla` | a signal, its triage and disposition, and the investigations it starts |
| `MCInvestigations.tla`, `Investigation*.cfg` | its instances for TLC |
| `PROJECT.json` | components, runs, mutants, the map to the source, findings, hazards, theorems |

`tlc -config ImportSafety.cfg MCImportFinalization.tla` runs one instance,
`tlapm QuantWorkspaceProofs.tla` checks the proofs of one module.

## 1. Inventory

Paths: `api` is `services/api/app`, `worker` is `services/worker/app`.

### The two halves

**Research product.** Users connect *sources*, collect or import content, open
*investigations* over it, and turn reviewed evidence into decision briefs. The
API (FastAPI over SQLAlchemy) writes rows and enqueues jobs; worker processes
poll the same database, lease a job, work, and commit. There is no message
queue: every interaction is a row somebody else reads later.

**Quant product.** A workspace of strategy research runs. All of it is one JSON
snapshot in one row (`QuantRepositoryState`), loaded, edited and written back
whole by API requests and by a worker that runs one agent step per poll.

A desktop shell (Tauri) starts both as child processes and talks HTTP and SSE.

### Components

| component | state | operations | hard behaviour | what makes it correct |
| --- | --- | --- | --- | --- |
| **Import sessions and finalization** (`api/modules/sources/service.py`, `worker/jobs/import_finalization.py`, adapter) | session state and row_version, consent, staged object, job with lease, manifests, the source's current-manifest pointer | create, consent, revoke, upload, complete upload, finalize, cancel; claim, heartbeat, inspect, complete, fail, requeue | handlers read without locks and write by primary key; leases expire; an object store without transactions; retries carry an old version | manifests of a source form a line; one active import per source; revocation holds; every accepted finalization is decided |
| **Quant workspace and agent steps** (`api/modules/quant/store.py`, `worker/quant_agent/runner.py`, `worker/pipelines/quant_agent.py`) | runs with state, budgets and links; row_version; one worker lease; every process's loaded copy | create, approve, re-plan, cancel, retry; poll, claim, heartbeat, decide, use a tool, complete a step, record failures, release | whole-snapshot writes; optimistic version against several commits per step; slow model calls; cancel in two commits; restore after a lost write | no write undoes another; writes are fenced; budgets hold; finished and cancelled runs stay so; running runs end |
| **Source validation** (`api/modules/sources/validation.py`, `worker/jobs/source_validation.py`) | validation jobs with lease and fence, status and row_version of the source | request, claim, heartbeat, complete, fail; activate, patch, disable | a collection writes the source under a job; replayed terminal commands | a verdict is written only to the source it was requested for; every request is settled |
| **Collection schedules** (`api/modules/sources/schedules.py`, `worker/schedules`, `worker/jobs/collection.py`) | next_run_at, lease, attempts, fence; collection runs; checkpoints | claim due, misfire skip, catch-up cap, heartbeat, complete with backoff | expired leases, crash during a collection | a lease ends with its holder; every due schedule is served |
| **Research runs and events** (`api/modules/research`, `api/modules/common.py`, `worker/run_events.py`) | investigation and run state, attempts, event log with per-run sequence | start, transition, cancel, claim, heartbeat, persist, append event, stream from a cursor | unlocked transitions against a late worker; event replay | only legal transitions; events gapless; a cursor never misses one |
| **Evidence review and decision briefs** (`api/modules/evidence`, `api/modules/decisions`, `packages/domain/decisions.py`) | reviews, claim versions, brief versions, staleness marks | review evidence, review claim, draft, mark ready, recheck, export | reviews against exports of a version | a ready brief rests on verified claims only |
| **Signals** | signal state under a row lock | triage commands | small | legal transitions |
| **Paper trading** (`api/modules/paper/store.py`) | one account document per workspace | draft, submit, cancel, reconcile | decimal rounding, replays | cash and positions equal the fills |
| **Desktop runtime** (`apps/mac/src-tauri/src/local_runtime.rs`) | child process, status, life-cycle lock | start, stop, status, drop | exit of the child racing commands | at most one child; status tells the truth |
| **Desktop client** (`apps/mac/src`) | views, SSE cursor | | duplicate and missing events | |
| **Worker main loop** (`worker/main.py`) | none | poll each queue in turn, guard errors | one poisoned queue kills the process | |
| **Pure rules** (`packages/domain`, `packages/…/quant_backtest.py`) | none | transitions, scoring, backtests | floating point | |
| **Connectors, providers, routes, schema, auth, SDK, content pipelines** | none of their own | I/O and formatting | | |

The rows of `PROJECT.json` "components" say which of them are modelled, which
parts are left out, and why. "hazards" lists what is hard to test, each at its
line with the properties that watch it.

## 2. Plan

Each step is a module, an MC module, its runs and, where it pays, its proofs.

1. **ImportFinalization**, **QuantWorkspace**, **SourceOperations** — done, proved.
2. **ResearchRuns**, with `RunFeed` and `RunLifecycle` as what it is held
   against, and **Investigations** — done, proved.
3. **ReviewLineage** and **Collection** — done, proved.
4. **QuantLearning** with `RepairContract`, and **QuantLineage** — done, proved.
5. To come: an abstract *serial workspace* that QuantWorkspace implements; the
   connectors behind a collection, and paper trading.

## 3. ImportFinalization

**State.** `session` (state and `row_version`; the pair `failed`/`retryable` of
the code is two states here), `pinned` (the source of the session, and the
version and pointer of it that the session expects), `job` (the one
`ImportFinalizationJobRecord` a session gets), `consent`, `object` (the staged
upload: none, good or bad content), `source` (`row_version` and
`current_import_manifest_id`), `manifests`. `worker` and `request` hold what
each process has read and not yet written.

**Granularity.** An API handler reads the session without a lock, decides, and
later updates the row by primary key. Each is two actions, `Begin…` and
`Commit…`, and other actors may act in between. A worker step is one
transaction per action; `claim` and `complete` hold the row lock of the job
from `LockJob` to `CommitComplete` or `AbortComplete`.

**Abstractions.** Parsing is the verdict `good` or `bad`. A lease is one bit,
live or expired; expiry under a working owner is a fault, expiry of an
abandoned one is time. A retry of a command gets a place in the queue
(`ticket`) so that the claim order of the code is kept.

### Runs

| run | instance | shows |
| --- | --- | --- |
| `import_liveness` | 2 sessions of one source or of two, 2 workers, 1 request, 1 source edit, 1 fault, versions up to 5 | `LinearHistory`, `ValidatingHasCommand`, `RevocationHolds`, and `ImportsSettleUnlessCancelled` under fairness |

Two sessions of one source are the smallest instance with a race for the
pointer. Of two sources they are the smallest with a queue: one source has at
most one command waiting, unless one was cancelled, so only another source's
import can stand behind a command that is not claimed (`Layouts` starts the run
either way). Two workers are the smallest instance with a takeover; one request
is a stale handler beside them (two are in `ImportSafety.cfg`). Five versions
let a session be drafted, consented, uploaded, finalized and decided. The edit
is a user's change of the source under an import that expects its old version.

**Fairness.** Requests that have begun end; a worker that is alive keeps
stepping (`main.py` polls in a loop); consents and abandoned leases expire.
Users need not act and nothing has to fail.

### Proved

For any number of sessions, sources, workers and requests: `TypeCorrect`;
`HistoryIsLinear`, the published manifests of a source form a line that ends at
its pointer; and `RevocationsHold`: a revoked consent is never effective again,
and unless a transaction is already past its own check of the consent, nothing
publishes, completes the command or finalizes the session. A finalization that
was read before the revocation may still commit its command; it comes to
nothing. The inductive invariant is `IInv == TypeOK /\ LinearHistory /\
Published`, where `Published` says that the pointer a published manifest
replaced is itself published (or is the initial one). Without it, a manifest
could have replaced a pointer that is published only later, and the line would
then close on itself. The argument is the compare-and-set alone: neither the
lease nor the job row is needed for it.

`CommandsSurvive`: `ValidatingHasCommand` holds of every behaviour in which no
request writes over a validating session what it decided from an older row
(`WritesAreTimely`). A worker begins to fail only while it holds the lease, a
claimed job has a validating session, so whoever fails the job has read a
validating session and fails it too (`Driven`). The hypothesis stays one: the API
serves requests concurrently, and nothing in it keeps two of them apart. In the
run, with one request, `ValidatingHasCommand` holds; in `ImportStranded.cfg`, with
two, a repeated upload completion and an old finalization leave a validating
session whose job has failed.

## 4. QuantWorkspace

**State.** `runs` is the committed snapshot, `lease` the lease columns of the
same row, `cache` the snapshot each actor has loaded and edits. `row_version`
is only compared for equality with a loaded one, so the model keeps who still
may write: `fresh`. A lease token is new at every claim and a process has one
claim at a time, so the token is the claiming process. A run is reduced to its
state, the cancellation mark (`agent_status`), where it comes from (`kind`),
the counters the budgets speak of, and the link to its one retry or follow-up.

**Actions and code.** An API request is `Load` (a new `QuantStore`,
`_ensure_workspace_loaded`) followed by one of `CreateRun`, `ApprovePlan`,
`RequestPlanChanges`, `RetryRun`, or by `CancelRun` and `InvalidateLease`, which
are two commits in the code. Every write goes through `_persist_workspace`
(`Store`): it locks the row and compares `row_version`. `WriteFails` is a
refused or a lost write; each caller's recovery is in its own action
(`_persist_workspace_or_restore`, the tools without a restore,
`finish_agent_research`).

A worker's step is `Poll`, `Claim`, `Heartbeat`, then `Decide` (one model call
with its outcomes), `WriteDecision` (or `WriteFailure`, `WriteStop`), `UseTool`,
`WriteTool` or `WriteFinish`, `CompleteStep`, `WriteStep`, `Release`. Each is
one transaction or the code between two. `Refuse`, `ToolRefused` and
`CompletionRefused` are the paths on which the claim is found lost. `Synced` is
what `_fixture_lease_is_current` leaves in the store: the check of a claim loads
the newest snapshot, *after* the run was tested in the old one. A fixture worker
takes `RunScript` and `WriteScript` instead of the model call.

**Abstractions.** A model call is any decision, a provider failure, or an
unrepaired contract; a tool is its effect on the counters and the state.
Artifacts, events, datasets, repair memory and learning traces, which share the
snapshot and are written with the run, are left out; so is the migration of old
snapshots on load.

### Runs

| run | instance | shows |
| --- | --- | --- |
| `quant_liveness` | 2 runs, 1 agent and 1 fixture worker, 2 requests, 1 fault | `BudgetsHold`, `FencedWrites`, `FinishedIsFinal`, `NothingLost`, `CancelHolds`, `RunsFinishOrStrand` |

Two runs are enough for a retry or a follow-up and for two runs competing for
the poll; two iterations make the last one and the one before it different;
`MaxFailures = 1` is below `MaxIterations = 2`, so a run can fail by repeated
provider failures before its iterations are spent. Two requests are a command over
another; a third is in `QuantSafety.cfg`. Faults are bounded because each
allows one more repetition of a step that is otherwise the same. Two leases
never exist at once: the row has one.

**Fairness.** Requests end; a worker that is alive keeps polling and stepping;
the lease of a worker that is gone expires. Workers stall and crash only as
faults, which are bounded: with unboundedly many no run need ever finish.

**Why liveness is conditioned on no cancellation.** A run that a worker revives
in the window between the two commits of a cancel may be left running with its
cancellation mark still set. Agent workers poll and claim it, find the mark and
release it, for ever. `RunsFinishOrStrand` is therefore stated for behaviours in
which nobody cancels, and `QuantCancelRace.cfg` shows the race itself.
`CancelHolds` says what does hold: once no claim on a cancelled run is left,
nothing revives it.

### Proved

For every number of runs, workers, requests, faults and every budget:
`TypeCorrect`, `BudgetsAlwaysHold`, `NothingIsLost`, `WritesAreFenced`,
`CancellationHolds` and `FinishedStaysFinal`.

A commit replaces the whole workspace by some actor's copy, so what a commit
does to the committed runs is decided by what that copy is. The invariant `IInv`
is about the copies:

- `Sound`: every committed run keeps its budgets, and one that may be worked on
  has an iteration left; a slot without a run has the columns of a new one;
- `Follows`: a copy whose `row_version` is current *goes on* from the committed
  snapshot: no run, link or counter goes back, finished runs are as they were,
  and only the copy's own run and new runs differ;
- the holder of the lease: a worker about to write with a current copy holds
  the lease, and the lease names its run;
- `Due`: while a worker holds the lease, its run is not finished behind its back
  and has an iteration left, except after its own finish.

`Due` is what makes finished runs final although the code never checks it at the
write: the worker's test of the run reads an old snapshot, and what protects a
finished run is that only the holder of the lease finishes it, and that every
request which edits a run leaves finished ones alone (`Undisturbed`).
`ActsAlone` is the frame lemma: an actor that commits makes every other copy
stale, so only its own copy has to be looked at. Each action then has a lemma
that gives `IInv'`, `Kept` (every run goes on) and `Fenced`; the theorems follow
from `NextKeeps`.

## 5. SourceOperations

**State.** `source` is the row of one cloud source (`status`, `row_version`),
`job` its newest validation job, `schedule` its collection schedules with their
leases, `worker` where each process is and what it has read, `edit` and `patch`
the two user requests that read and write in separate steps. `since` is a ghost:
what was written to the source after the last validation was queued. A schedule
is `due` when `next_run_at` has passed.

**Granularity.** Every command on a source, the request of a validation and its
settlement lock the source row, so each is one step. `patch_source` with a new
cadence holds that lock while it loads and later writes the schedules, on which
it holds none: `BeginPatchCadence`, `CommitPatchCadence`. A collection locks
nothing. `LoadSource` and `WriteHealth` are the two halves of
`update_source_health`: SQLAlchemy writes only the columns whose loaded value
changed, by primary key, and `row_version` as the loaded number plus one.

**Actions and code.** `Activate`, `PatchSource`, `Disable`, `Enqueue` are the
routes; `BeginEditSchedule` and `CommitEditSchedule` are `configure_schedule`
and `update_schedule`. `ClaimJob`, `CheckHealth`, `Settle`, `SettleRefused` and
`SettleBreaks` are a validation job with its failure paths. `SelectDue`,
`SkipMisfire` and `ClaimSchedule` are the three parts of
`claim_due_collection_schedule`; `BeginRun`, `LoadSource`, `WriteHealth` and
`CompleteSchedule` a collection, `LeaseLost` and `CollectionBreaks` its errors.

**Abstractions.** A client that names another `row_version` is refused and
changes nothing, so only clients that name the right one are modelled. Failed and
auth_required are one status. What is collected is not modelled, only the health
that results. Misfire policy and catch-up are constants. Ticks, edits, commands
and backlogs stop at `MaxVersion`, which bounds the versions.

### Runs

| run | instance | shows |
| --- | --- | --- |
| `source_safety` | 2 processes, a schedule that catches up, one that skips, versions up to 2 by users, 1 fault | `VerdictAnswersItsRequest`, `DriftIsReal`, `LeaseEndsWithItsHolder` |
| `source_service` | 1 process, an ordinary schedule and one that skips, 1 fault | `ValidationsSettle`, `DueIsServed` under fairness |

Two processes are a collector and a validator at once, or a takeover of a lease.
One user command after the first read is what makes a loaded source stale;
collections and verdicts raise the version further. One fault is a crash, a stall
past a lease or a failed transaction. One process is enough for liveness: it is
the case in which the two queues compete.

**Fairness.** Requests that have begun end and processes keep stepping. An idle
process polls validations, then schedules (`run_once`), and what can be claimed
stays so until it is, hence strong fairness of both polls: a user who edits for
ever does not keep a process from its queue. The candidates are ordered by
`next_run_at`, so a schedule that was served queues up behind the others, hence
strong fairness of each schedule's claim. The other queues of the process are
assumed to be empty now and then, because `run_once` returns to the first queue
after every piece of work. A lease without a holder runs out.

### Proved

`TypeCorrect`, `VerdictsAnswerTheirRequests`, `DriftsAreReal` and
`LeasesEndWithTheirHolders`, for any number of processes and schedules and any
policy. A collection may write the source in the middle of a validation and may
even set `row_version` back to the number the job expects, so the fence is not
a proof by itself. The invariant says why it suffices: no command holds the
source while a job is active (`ActiveIsAlone`); a status written over an active
validation is never `validating` (`WritesAreSeen`, which needs that no connector
reports that: `ResultsAreVerdicts`), so the fence refuses it whatever the version;
and a source nobody has written is as the job expects it (`FenceStands`). A fence
on the version alone is the mutant that breaks the first property. Leases need
`LeasesAreHeld` only.

## 6. QuantLearning

**State.** `runs` (state, counters, pinned memory), `events` (the stream of each
run), `traces` (published learning traces), `worker` (where the one agent worker
is in its step), `unfenced` (cancelled runs whose lease the request has still to
take away). Everything an agent step reads about rejected calls it reads from the
event stream, so the stream is kept whole.

**Actions and code.** `Claim` and `Decide` are a step up to the start of a tool;
`Stop` is the same with a call that does not apply the open repair, which ends
the run. `UseTool` is the tool's answer: completed, failed, or rejected by
closed validation with a repair (an `invalid` event). `CompleteStep`
publishes the trace of a closed episode; `CompletionRaises` is the step whose
trace cannot be written, which is undone. `CreateRun` pins repair memory from
the traces of the time, `RetryRun` clones it. `CancelRun` and `InvalidateLease`
are the two commits of a cancellation, which the worker may come between.

**Abstractions.** A call is an action, one field the contract constrains, one
field it does not accept, and the rest. Hashes and identifiers of events are
their positions. `Loads` restates what `_restore_workspace` demands of events,
traces, receipts and memory; each conjunct is one of its checks.

| run | instance | shows |
| --- | --- | --- |
| `learning_safety` | 2 runs, 6 calls, 3 iterations, at most 4 starts, 1 cancellation or crash | `TypeOK`, `Restorable`, `MistakesNotRepeated`, and `ModifyOrStop`, the refinement of `RepairContract` |

Two runs are one that makes the mistakes and one that pins what came of them.
Three iterations are a mistake, its repair and a finish. Six calls have each
kind of violation: a surplus field, a wrong and an absent one, and the null that
makes a trace unwritable.

**Proved.** For any runs, calls, offers and bounds: `TypeCorrect`,
`MemoryIsUsed` (`MistakesNotRepeated`), `RepairsAreMade` (the refinement
`ModifyOrStop`) and `WorkspaceReloads` (`Restorable`).

- Everything a step decides is read off the last event of some types. An event
  that is appended either is the new last one or changes nothing of that
  (`Appended`), so each decision is followed through one append at a time.
- Between the start of a call and its outcome no other tool event is written,
  and the call being tried is the worker's (`WorkerFits`). A start over an open
  rejection repairs it. So at most the last outcome of a run is a rejection
  without a trace (`UntracedIsLast`), which is the one the next outcome, or the
  stop, closes.
- Memory composed for a run reads the same at any later load, although it is
  composed again from all traces: the runs it learned from are not written any
  more, and a trace published later is closed later (`ComposedStays`).

`WorkspaceReloads` assumes `AllowFallback = FALSE`, the default of
`POKIEQUANT_AGENT_ALLOW_MOCK_FALLBACK` (`provider.py:48`). With the fallback it
is false: `LearningFallback.cfg` has a cancelled run and its retry, whose
provider becomes the mock one when the model fails, and `_retry_pair_error`
(`store.py:9363`) refuses the pair at the next load.

## 7. QuantLineage

**State.** `runs` (state, window, links to parent, retried run and series),
`work` (candidates in order, comparisons, feedback of each run), `reports`.
A number `clock` orders creations and ends, as the time stamps of the rows do.

**Actions and code.** `CreateRun`, `Refine`, `Retry`, `Approve`, `Cancel` are
the requests; `CreateCandidate`, `Backtest`, `Revise`, `Compare`, `Finish`,
`FinishRefused` and `RunOut` what the agent does. A finish that selects a
follow-up commits the child of the series with the report (`FinishWithChild`).
`ComposePin` is the research memory a run pins when it is created: `Usable` says
which runs may be sources, `NewestFirst` in which order, `Gather` and `NewKeys`
how many strategies they bring. Ancestors come nearest first, other runs newest
first; a run is created after its parent, so that one order serves both.

**Abstractions.** A strategy is a key with a template, a rank under the approved
objective, the walk-forward folds it passes, the market regimes these cover and
its trades; a backtest is those numbers. They are what a report's selection is
judged by (`DecisionValid`): the leader, or one of the three overrides of it. A
dataset window has the set of bars of its sealed holdout, so that two windows
may overlap.

| run | instance | shows |
| --- | --- | --- |
| `lineage_safety` | 2 runs, 3 strategies of 2 templates, 2 windows whose holdouts overlap | `TypeOK`, `LineageRestores`, `HoldoutOpenedOnce`, `RefinementIsNovel`, `ReportsAreComplete` |

Two runs are a root and a retry, a refinement, or the child of its series. Three
strategies are the 2+1 sequence of a complete run; their numbers let each of the
three overrides apply to some completed set. The bounds on candidates that
wait, on comparisons, and on runs that end early cut repetitions only.

**Proved** (`QuantLineageProofs`, for any runs, strategies, windows and bounds):
every property of the run.

| theorem | states | assumes |
| --- | --- | --- |
| `LineageAlwaysRestores` | `LineageRestores` | `MaxExperiments = 3` |
| `LinksRestore` | its parts `RetryLinks`, `RefinementLinks`, `SeriesLinks` | |
| `HoldoutsOpenOnce` | `HoldoutOpenedOnce` | |
| `ReportsRest` | `ReportsAreComplete`, `ReportsBound` | `MaxExperiments = 3` |
| `RefinementsStayNovel` | `RefinementIsNovel` | `Roomy` |
| `RowsStayTyped` | `TypeOK` | |

Three experiments are what the plan contract admits (`max_experiments: Literal[3]`,
`agent.py:190`) and what a run and the child of a series start with; with another
number `_strict_iteration_finish_error` says nothing. `Roomy` says that a pinned
memory may have a source and has room for the experiments and the repairs of one
run. The code keeps 15 keys of 5 sources (`store.py:137`) for three experiments
and at most two repairs (`agent.py:191`); the run's instance has one source and
four keys for three experiments and one repair. Without the room the property is
false: a parent whose last completed strategy is not pinned may be repeated.

*Links and reports.* A run descends only from runs that have ended
(`SourcesEnd`), and a run that has ended keeps its candidates, its report and its
links, but for the one to its retry (`Sealed`). So the run that writes a report
is in nobody's descent, its own descent only names reports that stand, and
`_holdout_evidence_state` sees all of them: `Descent`, which says what the lineage
is, lies within `Closure`, which says what the code collects (`DescentHasEnded`),
and no step gives an old run a new ancestor (`DescentKept`). A comparison that is
younger than the last change of its run covers exactly what the run has completed
(`Compared`), which is why any comparison that `FinalComparison` accepts is as
good as the latest. `SeriesLinks` needs its own strengthening (`SeriesFit`): that a
follow-up's source has ended with the report that chose it, and that a run without
a policy has no child. The steps are first reduced to what they do to each run
(`Step`), and the invariant is proved of those. `Ancestors`, `Closure` and
`Descent` are least closed sets, so that no recursion has to be unfolded.

*The pinned memory.* `_restore_workspace` composes the memory of every run again,
from rows that have changed since. That gives what was pinned (`Canonical`) because
the two views have the same evidence (`SameEvidence`, `SamePin`): a run that
counted had ended, or is the series parent that ends in the same step, and is
sealed; a run that ends later ends after the creation (`Timed`, `StillAvailable`);
and a run created later is in nobody's history.

*Novelty and types.* A second invariant stands on the first. A candidate was paid
for by an experiment or a repair (`Booked`), so a run has no more of them than
`Roomy` leaves room for. Creations differ in time and follow their parents'
(`Apart`, `Older`), so the parent is the newest of the ancestors and the first
source; hence the memory names all it completed (`Covered`, from `PinComposed`).
Nothing that the memory names is tried (`TriesNew`), and a retry has the memory of
its source.

*Operators.* `NewKeys`, `Gather` and `NewestFirst` are recursive functions and a
choice among orders. What they return (`NewKeysName`, `GatherFits`, `NewestFirstIs`:
pins of the right type, first source first, every completed key while there is
room, an order that exists) is proved from the least number
principle, as §13 explains.

## 8. ResearchRuns

**State.** `run` (the row), `events` (`run_events` with their numbers),
`results` (attempts whose evidence exists), `holder` (who holds the row lock of
an append), `worker` (the calls an attempt still has to make), `cancels`,
`client` (its cursor, what it shows, what the stream has read for it).

**Actions and code.** `Claim` is `claim_queued`; the worker's program is the list
of calls `DeterministicResearchRunner` or `DeepSeekResearchRunner` makes on the
adapter. `LockForEvent` and `AppendEvent` are the two halves of
`append_run_event`: the no-op update that takes the row lock, and the lookup of
the key with the next number. `CheckResult` and `CommitResult` are the result
transaction, whose lease check reads the row without a lock. `ReadForCancel` and
`CommitCancel` are a cancellation; the trigger `glint_guard_api_research_run_state`
stops it over a completed or failed run. `StreamReadsRun` and
`StreamSendsEvents` are one round of the stream, which reads the state before
the events. `Cut` and `Reload` are a lost connection and a reopened window.

**Abstractions.** What an event says is its type and, where its key names it, the
attempt. A lease is live or late. Model output is whether the graph proposes
anything. The lineage checks of a run's input are a verdict. The gap and reset
handling of the client is there and cannot be reached, because numbers are dense.

| run | instance | shows |
| --- | --- | --- |
| `research_safety` | 2 workers, 4 attempts, every kind of run, 2 late leases, 1 crash, 2 cancels | `StateFollowsEvents`, `ResultIsFinal`, `FeedIsKept` |
| `research_stream` | 1 worker, a client, 1 crash, 1 cancel, 1 cut, 1 reload, under fairness | `StoppedShowsTheEnd`, `FeedIsKept`, `RunEnds`, `ClientSettles` |

`FeedIsKept` is the refinement: the rows and the client implement `RunFeed`, an
append-only list without holes and repetitions of which a watcher misses
nothing. Two workers and two late leases are an attempt overtaken by another
that is overtaken in turn; four attempts are enough because an id is used again
once nothing holds it.

**Fairness.** Workers poll and step, the database commits, a lease nobody renews
passes, an open window reconnects. Crashes, cancellations, lost connections and
late leases are bounded.

**Proved.** For any number of workers, attempts, faults and reconnects:
`TypeCorrect`, `EventsTellTheEnd` (`StateFollowsEvents`), `ResultsAreFinal`
(`ResultIsFinal`), `TheEndIsShown` and `FeedIsImplemented` (`FeedIsKept`). The
invariant: an attempt id is one worker's and is not used again once an event or
a result names it (`Apart`); the result is the last thing an attempt writes
(`PersistLast`); while a worker holds the row's lock the list stands still
(`Placed`); a run that goes on has no terminal event. The list stays dense
because the next number is read under that lock, and the client misses nothing
because the stream reads the state before the events. `TheEndIsShown` has the
proviso `~overtaken`: a result whose lease ran out between its check and its
commit may complete a run whose failure the client has been told already.

**What is not promised.** A deterministic run that finds no evidence never ends:
it is claimed again for ever, and `RunEnds` leaves it out. A failed run has no
terminal event. An attempt that has lost its lease still appends `task.failed`.
`ResultIsFinal` excepts a lease that passes between the check of a result and its
commit (`overtaken`).

## 9. ReviewLineage

**State.** `reviews` per piece of evidence, `versions` per claim with the
evidence reviews each verification pinned, `syntheses` with their grounds,
`briefs` with the freshness record each version carries, the brief's `status`,
what was `exported`, and whether a request is between the checks of `mark_ready`
and its commit.

**Actions and code.** `ReviewEvidence`, `CreateClaimVersion`,
`ReviewClaimVersion`, `CreateSynthesis`, `ReviseSynthesis`, `ReviewSynthesis`,
`CreateBrief`, `StartRevision`, `ReviseBrief`, `CheckReady` and `CommitReady`,
`Recheck`, `Export` are the commands of the two services. Each locks the
investigation first (`lock_investigation_lineage`), so each is one step, and time
stamps taken under the lock order what they say is latest.

**Abstractions.** `aggregate_status` of a claim is written and never read.
Confidence, texts, the scope of the search for counter-evidence and the rendering
of an export are left out, and so are refusals. "weak" and "valid" are alike.
`Ready` is weaker than `mark_ready`: the code also asks that the search for
counter-evidence matches the investigation's present sources and window
(`decisions/service.py:989-1004`) and that no text is a placeholder (954-968). The
model marks more briefs ready than the code, and its invariants hold of them too.

| run | instance | shows |
| --- | --- | --- |
| `review_safety` | 2 claims that share contested evidence, 2 syntheses, 3 versions of the brief | `TypeOK`, `FreshnessIsHonest`, `ExportsWereCurrent`, `OvertakenDraftIsStuck` |

The shared evidence is reviewed twice and one claim revised, which are the ways
grounds are overtaken; a second synthesis is the third. Three versions of the
brief are a ready one, its revision, and an edit of that.

`FreshnessIsHonest` compares the records that the commands append with
`Overtaken`, which is said of the rows alone. `OvertakenDraftIsStuck` states a
consequence of the code a reader may not expect: a draft whose grounds have been
overtaken can never become ready, because only a ready version gets new grounds.

**Proved.** For any evidence, claims, revisions and bounds: `TypeCorrect`,
`FreshnessStaysHonest`, `ExportsStayCurrent` and `OvertakenDraftsStayStuck`. A
command that changes a ground appends a record to the briefs it finds through
its own projection of them, and never compares the rest. That this is as good as
comparing everything rests on the grounds being immutable: a synthesis cites
verified claim versions with something in support (`Grounded`), a verification
pins reviews that exist (`Sealed`), a brief rests on a verified synthesis
(`Founded`). A later row is then the only way to be overtaken, and the
projections see exactly those (`IssuesAreOvertaking`). The lineage lock, held
from the checks of `mark_ready` to its commit, gives `ReadyIsChecked`.

## 10. Investigations

**State.** `signal` (status, row_version, confirmations, last disposition),
`investigations` with their scopes and the scope each run pins, `request`
(what each request in progress has read).

**Actions and code.** `Read` is the load of a request's rows, then one of
`Triage`, `MoveSignal`, `UndoSignal`, `CreateInvestigation`, `MoveInvestigation`,
`CreateRun` commits. An UPDATE names the primary key and writes the columns the
request has changed (`Updated`), so that the last writer wins column by column.
`ReviseScope` locks and reads again, and is one step.

| run | instance | shows |
| --- | --- | --- |
| `investigation_safety` | 2 requests at a time, 6 in all, 2 investigations, 2 runs | `ResearchFollowsTriage` |

Six requests are a triage, a disposition, its undo, an investigation and a run,
with one more whose row is old.

**Proved.** `ResearchIsTriaged` (the last section of `ResearchRunsProofs`, which
takes Investigations as the instance `Origin`), for any number of threads, requests,
investigations and runs. The invariant is about old rows: what a request has read
is sound (past triage only if confirmed), and a confirmation it has read is
still there, because nothing takes a confirmation back.

**What is not promised.** Two concurrent creations make two live investigations
of one signal: no unique index forbids it. A run may pin a scope that a revision
has replaced in the meantime.

## 11. Collection

**State.** `engine` (the database of the installation), `lease` and `run` (the
attempts of each schedule and the states of their `CollectionRun` rows),
`stored` (the content versions of each item, each with the run that collected
it), `source` (the status of a source), `signal`, `worker` (where each process
is in its collection and what it has read), `pinned` (research runs with the
evidence the API froze for them).

**Granularity.** Every call of the adapter is one transaction that reads the
schedule's lease and the state of the run, locks neither, and commits later. A
call that writes is therefore a check and a commit: `Begin` and `CommitBegin`,
`OpenSave` and `CommitSave` or `SaveCollides`, `CheckSignal` and `RaiseSignal`,
`Report` and `CommitReport`, `End` and `CommitEnd` or `LostReply`. Between the two
the lease may run out, a successor may claim the schedule, and other processes may
commit; the commit happens all the same (`Committing`). A batch is the exception
inside: it locks the items that exist, knows nothing of those it is about to
insert, and looks at the lease a second time before it commits, which narrows the
window without closing it. Claiming and completing a schedule test the lease in
their `UPDATE` and are one step each.

**Actions and code.** `Claim` and `Close` are `main.py`; `Begin`, `Probe`,
`Fetch`, `FetchFails`, `FetchAgain`, `Refetch`, `Report`, `End` and the commits are
`jobs/collection.py` from the start of its run to the end, `Observe` and `Weigh`
the detection of a signal. `Fail` and `GiveUp` are the handlers of the job and
of `main.py`; `LostReply`, `NotRunning`, `CallFails`, `LeasePasses`, `LoseLease`
and `Crash` are what sends a process there. `PinRun` is the creation of a
research run, `Accepts` the check of its frozen input by the research worker.

**Abstractions.** A feed is any set of items with any of their texts; that it
was cut short is decided where it is first used. The versions of an item are one
cluster. Time windows are left out (all that is stored stays in the current one
and grows enough), and so are the columns of `persist_dedupe_assignments`, which
nobody here reads, and the rate limiter, which `main.py` never passes. No route
accepts a `refetch_limit`: refetches happen for rows written otherwise.

| run | instance | shows |
| --- | --- | --- |
| `collection_safety` | 2 processes, 2 sources of one watchlist with one item each, one schedule collected twice and refetching, both databases, 1 fault, 1 research run | `PinnedStaysValid`, `NoTwinSignals`, `SuccessIsComplete`, `LateItemsStayOut` |
| `collection_changes` | the same on PostgreSQL | `ChangesAreStored` fails |

Two items of two origins are the least that can trigger a signal. Two attempts of
one schedule are a process that was slow and its successor, whose items collide;
the other source makes the two collections that detect the same signal. One
fault is a crash, a timeout, a lost reply or a failed call at any point; leases
may run out at any time and are not counted.

**Proved.** For any processes, schedules, items and bounds: `TypeCorrect`,
`PinsStayValid`, `SignalsHaveNoTwins`, `SuccessesAreComplete` and
`LateItemsStay`. A claim takes an attempt nobody had before (`Alone`), and its
run has no row yet (`Unbegun`), so the row that `CommitBegin` writes is never the
run of a stored version. A run that a process is storing for, or about to end, was
running at its check and still is at the commit (`Running`), because only that
process writes it. So a run that has ended is not written again, and frozen
evidence stays as it was frozen (`FrozenHolds`); and what is stored is only
appended to, hence what a process gathered is still there (`GatheredIsStored`).
A version committed after its lease had ended (`late`, a history field) belongs to
an attempt whose lease never comes back, and to a process that has its next check
still to pass (`LateHeld`): that run is never recorded as a success, and the
version is never frozen. Twins need no lock: the
identifier of a signal is a digest of its watchlist and triggers, and the primary key
refuses the second.

**What is not promised.** Items stored late are there for good, although no
research may use them: the successor finds their text stored and adds no version
of its own. The evidence of a signal may have been collected by a
run that failed afterwards, and can then not be put to research
(`CollectionResearch.cfg`); two collections of a watchlist may each raise a
signal within one cooldown (`CollectionCooldown.cfg`).

## 12. Findings and further configurations

The finding of `collection_changes` is in `PROJECT.json` with its quotes: the
next version number of a changed item is read as `max(...) FOR UPDATE`
(`sqlalchemy_adapter.py:486-493`), which PostgreSQL refuses, so a changed item
fails its batch there. SQLite, where the tests run, ignores the clause.

These configurations are kept beside the runs; each is one question to ask by
hand. Those that fail give a trace of the code.

| configuration | property | result |
| --- | --- | --- |
| `QuantSafety.cfg` | `NothingLost`, `CancelHolds` with two agent workers and three requests | hold |
| `ImportSafety.cfg` | `LinearHistory`, `RevocationHolds` with two requests | hold |
| `ImportStranded.cfg` | `ValidatingHasCommand` with two requests | fails: two late requests, a completed upload and a finalization, around a failing worker leave the session validating and its job failed |
| `ImportStarvation.cfg` | `ImportsSettle` | fails: a cancelled session's command blocks the queue |
| `ImportCancelRace.cfg` | `CancelledCreatesNoManifest` | fails: a cancel that read before the worker's commit overwrites `finalized` |
| `ImportStaging.cfg` | `CancelCleansStaging` | fails: an upload lands after the cancel |
| `QuantCancelRace.cfg` | `CancelledIsFinal` | fails: a worker writes a run between the two commits of its cancel |
| `QuantStranded.cfg` | `RunsFinish` | fails: a step that ends between a tool's commit and its completion leaves a state no poll picks up |
| `SourceVersions.cfg` | `VersionsRise` | fails: a collection that read before a command writes the version the command used |
| `LearningBudget.cfg` | `ActionBudgetHolds` | fails: a finish with a null field is repeated without spending an iteration |
| `LearningReload.cfg` | `Reloads` | fails: a cancellation that commits between `tool.started` and its rejection leaves a workspace that `_restore_workspace` refuses; `Restorable` excepts it |
| `LearningFallback.cfg` | `Restorable` with the fallback to the mock provider | fails: a retry that fell back differs from the run it retries in its provider |
| `LineageReload.cfg` | `Reloads` | fails: a run that finishes with a stop action and no completed candidate is not accepted by the next load |
| `ResearchLifecycle.cfg` | `FollowsLifecycle` | fails: an attempt that raises after a cancellation turns `cancelled` into `failed` |
| `InvestigationEnds.cfg` | `EndedIsFinal` | fails: a run created from an old row makes a cancelled draft active |
| `CollectionResearch.cfg` | `SignalsAreResearchable` | fails: evidence of a run that failed after it stored it |
| `CollectionCooldown.cfg` | `CooldownHolds` | fails: two collections check for a recent signal before either inserts one |

## 13. What is only model-checked, and what is not modelled

Liveness (`ImportsSettleUnlessCancelled`, `RunsFinishOrStrand`,
`ValidationsSettle`, `DueIsServed`, `RunEnds`, `ClientSettles`) is out of the
prover's reach.
Every safety property and every action property of a passing run that is not
temporal in this sense is the subject of a theorem.

The library's induction theorems take an operator as a parameter, which the
installed provers cannot instantiate. Where a proof needs induction over the length
of a sequence, in QuantLineage, it uses the least number principle instead
(`WFMin` of `WellFoundedInduction` with `NatLessThanWellFounded`), which is about
sets: `Least`, `Induct` and `Recursion` derive from it, for sets of numbers, that a
set holding 0 and with each number the next holds all, and that a recursive function
exists.

Every property of a passing run has a mutant of the model, listed in
`PROJECT.json`, that it refutes: for example a snapshot written without comparing
`row_version`, or a claim that does not advance it.

Not modelled: parsing and content processing, prompts and model output, market
data and its connectors, authentication, presentation, exports and read-only
projections, migrations and row-level security, floating-point backtests. They
keep no state two actors share, or are one deterministic function of their
input.
