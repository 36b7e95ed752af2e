# TLA+ models of renpy-story-mapper

The program reads a Ren'Py game and builds a story map of it. Its hard parts are the durable
workflows around it: work is sent in pieces to paid or local language models by background
threads, survives crashes and cancellation, must not be paid for twice in silence, and is
published to readers that keep reading meanwhile. A second hard part is an algorithm: the
search that claims of a story whether a scene can be reached. Both are modelled here, checked by
TLC on small instances, and in large part proved for all of them by TLAPS.

Paths are relative to `src/renpy_story_mapper/` unless they start with `docs/` or `tests/`.
`PROJECT.json` lists the components, the runs, the source lines behind every definition (`map`),
a mutant for every checked property, the hazards and the theorems.

## 1. Inventory

| Component | State | Operations | Hard because | Modelled by |
|---|---|---|---|---|
| Durable repository `story_map_v2/durable_repository.py` | tables of runs, approvals, jobs (status, lease, continuation, resolution), attempts (disposition, accounting, retry lineage, validated result), retry approvals, cache, published results | about 25 transactions: approve, register, claim, reclaim, release, reserve, mark, complete, validate, continue, cache, finalize, defer, activate, publish, cancel, recover | leases expire, two runs share slots and cache identities, calls whose fate is unknown | `StoryMapRepository`, `StoryMapRepositorySpec`, `CallLedger` |
| Workflow service `story_map_v2/workflow_service.py` | worker threads, an abort event | execute, cancel; `_worker`, `_process_claim`, `_call`, review and refusal fallback | every step of a worker is a transaction of its own; cancellation, crash, expiry and other workers come between | `StoryMapWorkflow` |
| Adapter `story_map_v2/workflow_repository_adapter.py` | none | maps service calls to one *or two* transactions; `recover`; `status` | the second transaction may be missing after a crash; `recover` walks a snapshot | `StoryMapWorkflow` |
| Product vertical `story_map_v2/product_vertical.py` | rollup prose of the execution | mapping, sections, rollups, publication | work registered between executions, resumed from any point | `StoryMapWorkflow`, `GenerationPublication` |
| HTTP commands of the workflow `web/api.py` | futures of background executions | start, resume, cancel, approve-retry | commands race the execution | `StoryMapWorkflow`, `GenerationPublication` |
| Publication and reader `phase04_publication.py`, `reader*.py`, generation tables | descriptors, pages, two pointers, a saved view | create, activate and publish a generation; open, read, save a view | compare-and-swap on pointers, readers in between | `GenerationStore`, `GenerationPublication`, `MapHistory` |
| Narrative pipeline `narrative/` (M13) | reservations, attempts, cache, run row | pack, reserve, submit, settle, split, retry, restart | what a restart believes was spent; attempt limits across restarts | `NarrativeStore`, `NarrativeRun` |
| Guided organization `m07_model.py`, `m07_workflow.py`, `organization/` (M07) | usage ledger, scope checkpoints, corrections, cache, assemblies | prepare, start, run scopes on threads, commit serially, repair, replay, correct, apply, discard, refresh | a budget shared by threads, replacement of the project file under the run | `OrganizationStore`, `OrganizationRun` |
| Web process `web/api.py`, `web/state.py` | project, prepared run, cancel event, executor queue, settings file | open, refresh, prepare, start, cancel, save settings | one task admitted at a time, tested and dropped under different locks | `WebProcess` |
| Route solver `m12_solver.py` (M12) | frontier, retained states, candidates, limits | best-first search with dominance, loop acceleration and seven limits | a wrong negative is a claim about the story | `StateConstraints`, `StoryGraph`, `RouteSolver` |
| Planning, providers, storage engine, static analysis, ingestion, storyboard, legacy organization, presentation, evaluation, command line | | | | not modelled, section 9 |

How they interact: requests of `web/api.py` admit one background task at a time (M07, M12, M13,
opening, refreshing) and submit story-map verticals beside it, all on one executor thread. A
vertical runs the workflow service, whose worker threads call the durable repository through the
adapter, and then publishes a generation that readers read through pointers. M07 and M13 keep
stores of their own in the same project file. `storage.transaction` is the only shared
synchronisation below; events and one lock the only above.

## 2. Modules

Every store module is the tables and one operator or action per transaction; every run module is
the threads and commands above it.

* `StoryMapRepository` has the five tables as variables and one action per public method.
  `job[j]` is a row of `story_map_v2_jobs`; `attempts[j]` the attempt rows in ordinal order, with
  the rows that hang off an attempt as fields (`approval`: none, open, consumed; `retryOf`: the
  ordinal it repeats; the supplemental charge; the validated result). A lease is `token` and
  `expired`: `ExpireLease` is the clock passing `lease_expires_utc`. Tokens and elapsed time are
  one quantity, `units`. `WarmKeys` are cache identities that earlier runs may have filled.
* `StoryMapRepositorySpec` adds the most general client: any method, any order, any argument that
  the method accepts. It states the properties of the repository and its refinement of
  `CallLedger`: calls, their fates and the grants of the user, without leases, slots or stages.
* `StoryMapWorkflow` EXTENDS it: a worker step is a repository action plus the worker's move. A
  call that the repository refuses is the negation of the action's guard (`MayMark`,
  `Completable`, `MayFinalize`, ...) and leads to the exception path of the code: `abort.set()`,
  `release_claim`, the end of the thread and of the execution. `worker[w].pc` names the next
  transaction; `pool[r]` is the background future; `recovery[r]` is `adapter.recover` in progress,
  the snapshot of jobs it walks being `chore`; `hits[r]` the previewed cache hits; `sent[j]` a
  history variable: what really left the process. Between two executions `NextPhase` assembles the
  next derived jobs, and the transaction that registers one asks that every mapping job has
  published (`MappingsPublished`) and that the prose the job embeds is still the published one.
  Either refusal is an exception that ends the vertical: for the second, `pool[r]` remembers that
  the sections were assembled before the last mapping job published (`outdated`).
* `GenerationStore` has generations, pages, the pointer row, cancellation flags and the saved view.
  A generation identity is (run, kind), because plan, authority and coverage are fixed for a run;
  the rest of a descriptor (the baseline and the prose) is in the record, so that one identity
  with two descriptors is a conflict as in the code. `GenerationPublication` has the executor
  queues of two processes, the vertical in progress step by step (`work[p].pc`), reader windows
  and view saves. Running the jobs is one step with the outcomes `StoryMapWorkflow` allows.
  `MapHistory` is the abstract specification: maps published one after another, each by an
  uncancelled run, each replacing the map it was compared with.
* `NarrativeStore` has reservations, attempts, cache and run row, and the derived values that a
  restart reads (`Charged`, `HistoryOf`). `NarrativeRun` is the thread of the pipeline: packing,
  reserving, submitting, settling, splitting, retrying, over two phases, with cancel, crash and
  restart between any two steps.
* `OrganizationStore` has scope rows, attempts, corrections, cache and assemblies (an assembly is
  its payload, since its id is a hash of it). `OrganizationRun` is the coordinator, one worker per
  scope, the ledger, the repair permits, the reviewer's commands, refreshes on a copy of the
  project (`staged`) and crashes.
* `WebProcess` has the request threads, the executor thread and its queue, the admitted task with
  its cancel event, and the settings file. A step is what happens under one lock.
* `StateConstraints` is the arithmetic of the solver: comparisons, constraints, repetitions.
  `StoryGraph` is a graph over one variable and what the story can really do (`Reachable`
  and `Walkable`, the reference definitions). `RouteSolver` is the search of `solve_route`, one action per step.
* `*_proofs` modules hold theorems and lemmas; `MC*` modules hold constant values for TLC.

What is abstracted on purpose: identities, digests, timestamps, JSON and frozen plans (two results
are equal or different; `Flagged` is the set a validator flags); a provider call returns a result,
an invalid one, a refusal, a definite failure, an uncertain failure, a failure known not to have
left, or a withdrawal, the cases the code distinguishes; `storage.transaction` is atomic and serial
(`BEGIN IMMEDIATE` on one database). Definitions marked *faulty* belong to no specification: they
are the mutants, plausible mistakes that the properties must notice.

## 3. Runs

Each cfg opens with what its instance is; `PROJECT.json` names the properties of each run.

| Run | Instance | Shows |
|---|---|---|
| `repository_retry` | one job, a review and a retry, three attempts | the two rows that describe a call agree; no silent resend; an approval pays once; ceilings; `RepoSpec` implements `CallLedger` |
| `repository_shared` | two runs, one slot, one cache identity, two validators that disagree; the second run registers its job late (`create_run` accepts a run without jobs) | slot bound, run status, acceptance equals cache, cancellation final |
| `workflow_recovery` | one job, two workers, any two faults, a filled cache | the record never understates what was sent; a second request of a kind only under an approval |
| `workflow_pool` | two mappings, a section, a rollup, two workers, no fault | nothing raises, no claim is left, everything started gets published |
| `workflow_faults` | a mapping and its section, two fair workers, one fault, a cache that may be filled | derived jobs never run ahead; executions end; cancellation stops them |
| `organization_lifecycle` | two scopes, two runs, two generations, a correction, edits, a crash and a refresh | nothing cached is sent; checkpoints agree with the cache; only current assemblies live |
| `organization_budget` | two scopes (one of two parts) on two threads, every answer and report | the budget holds at admission; charges add up; one late attempt at most; completed scopes are durable; the run ends |
| `publication` | two runs in two processes, one rollup, three commands, crashes | readable pages are stored; windows are current; one history; views never regress |
| `narrative` | two scenes in one batch, a segment above them, two calls allowed, two starts | a phase stays in its limit; what was sent is charged; a restart agrees; accepted work is not resent; the run ends |
| `web` | two request threads, the executor, three projects of which two are listed, four requests, a crash | the running task hears cancel; calls are about what was consented; the recent projects are the last opened, latest first |
| `route` | every request of five graph families of four nodes, default and tight limits | no denied route exists; confirmed routes can be walked; reported repetitions happen; no direct route is better |
| `narrative_consent` | as `narrative`, transient failures only | the finding of section 7 |

**Bounds, and why they are enough.** `MaxFaults` counts crashes, expiries, uncertain and unsent
calls and resumes of a live run together: two lose a call and then its retry, or revoke a lease
under a worker and then crash. `MaxAttempts` cuts the repository runs after the second retry, when
lineage, approvals and supplemental charges have been passed on once; workflow runs never reach it.
What runs share (slots, cache identities, pointers, expired leases) is shared pairwise, so two runs
suffice. `SlotLimit` is 6 in the code; it is 1 where it must bind, and the number of workers in
`workflow_pool`, as in the code's largest pool. `workflow_faults` has no rollup, whose
registration after the sections `workflow_pool` exercises. In the organization runs `MaxRuns`,
`MaxTexts`, `MaxEdits`, `MaxEvents` bound what users, clock and crashes do; two runs are a run and
its replay, two events a crash or refresh around a cancellation. In `publication` three commands
are two verticals and a resume, in any processes. In `narrative` two starts are a run and its
restart, and two calls allowed with two scenes and a segment make the limit bind in each phase. In
`web` four requests are two that race and what they leave to two more; three projects opened one
after the other push one off a list of two (twelve in the code).
In `route` a search is exact for the numbers it meets: all increments of a graph have one sign and all literals lie below
`Horizon`, so values beyond it behave alike. Symmetry is declared only where a
cfg checks no liveness, over identities that nothing distinguishes (workers, results, processes,
generations together with the identities they give the first scope, the values in `web`).

**Deadlock** is checked in the repository runs: some method is always accepted. The other runs set
`CHECK_DEADLOCK FALSE`, because those systems stop: everything is published or cancelled, the bound
of commands or faults is spent, a search has its answer.

**Fairness.** `FairWorkflow`: weak fairness of each worker, of the coordinating thread of each run
and of a recovery once begun. `NarrativeRun!FairSpec`: of the pipeline thread.
`OrganizationRun!FairSpec`: of the coordinator and of each worker. The operating system runs
threads, each step of which is a transaction or a call that returns (providers have timeouts, which
are the uncertain outcomes). Nothing is assumed of users, crashes and clocks. Weak fairness is
enough, because no step of a thread is disabled by another once enabled: where a transaction is
refused the step takes the exception path instead.

## 4. Properties

* Repository: `AttemptMatchesJob`, `NoSilentResend`, `ApprovalSpentOnce`, `CeilingRespected`,
  `SlotBound`, `RunStatusFresh`, `AcceptedIsCached`; action property `CancellationHolds`;
  refinement `ImplementsLedger`.
* Workflow: `DefinitelyUnsent` and `SentTwiceOnlyIfApproved` compare the durable record with
  `sent`, which no transaction reads: they are about the world, not the bookkeeping. `CleanDrain`
  (`NoClaimLeft` and `NothingRefused`), `DerivedAfterMapping`; liveness
  `StartedIsPublished`, `ExecutionEnds`, `CancellationStops`.
* Publication: `ReadableIsStored`, `WindowIsCurrent`; action property `ViewNeverRegresses`;
  refinement `OneHistory`.
* Narrative: `PhaseWithinLimit`, `SentIsCharged`, `ResumeAgrees`; action property
  `AcceptedNeverResent`; liveness `RunEnds`.
* Organization: `BudgetHeld`, `ChargesAddUp`, `LateAtMostOnce`, `CompletedIsDurable`,
  `CachedIsNotSent`, `ValidatedIsCached`, `AssembliesAreCurrent`; liveness `RunEnds`.
* Web: `TaskHearsCancel`, `CallsAreBound`, `RecentAreOpened`.
* Solver: `NegativeIsTrue`, `ConfirmedIsWalkable`, `RepetitionsAreReal`, `NoDirectRouteIsBetter`,
  each against `StoryGraph`, which knows nothing of the search.

Every one of them is broken by a mutant of a modelled definition, run against the same cfg.

## 5. Proofs

TLAPS proves the following for every value of the constants that the named ASSUMEs allow; TLC
evaluates those on every run.

**Repository** (`StoryMapRepository_proofs`, `StoryMapLedger_proofs`; assumption
`RepositoryAssumption`; every client behaviour, so also every workflow). Every property of both
repository runs is a theorem:

* `TypeCorrect`. By cases of `RepoNext`, one lemma for each action, through lemmas about the row
  updates that actions share.
* `AttemptsMatch`. `AttemptMatchesJob` is inductive with the type invariant: a step either leaves
  attempts alone and moves the job between statuses without a call, or changes the last attempt
  and the job together.
* `ResendsAreApproved`. `NoSilentResend` is not inductive: an attempt may be resent because the one
  before it was an approved retry that did not leave. `AccountInv` adds, for each attempt, what its
  lineage accounts for (`Accounted`): `retryOf` points to the latest attempt that may have been
  transmitted, and a consumed approval stays consumed.
* `CancellationIsFinal`. Every transaction moves each job row in one of a few ways (`Moves`:
  stays, works, returns, reopens, ...); for a cancelled run the guards leave only inert ones.
* `AcceptedStaysCached`. `CacheInv`: rows on their way to acceptance already agree with the cache,
  which never overwrites.
* `ApprovalsAreSpentOnce`. `ApprovalInv` orders the attempts under one approval: each later one
  finds all earlier ones definitely untransmitted.
* `CeilingsHold`. `CeilingInv`: `FateInv` ties fate and charge of each attempt, so that a new
  reservation adds at most one element to the set of charged calls, and an ended one none.
* `SlotsAreBounded`. `SlotInv`; each action is shown either to let jobs only leave the slots
  (`AllYield`) or to let one in below the limit (`OneEnters`).
* `RunStatusIsDerived`. A run's status depends on its jobs only through which statuses occur
  (`SameCount`); an action either refreshes it (`FreshIn`) or moves its jobs within those.
* `LedgerIsKept`. The refinement: `LedgerInv` (fates, approvals, published results) gives that
  reservations map to the ledger's `MakeCall`, completions and recoveries to `Settle`, approvals to
  `Grant`, publications to `Publish`, cancellations to `Close`, and everything else to a stutter.

**Workflow** (`StoryMapWorkflow_proofs`; assumption `WorkflowAssumption`). Whatever threads,
recoveries, commands, crashes and expiries interleave:

* `WorkflowUsesRepository`, `WorkflowKeepsTables`, `WorkflowKeepsLedger`: with the service's types
  (`ServiceTypeOK`: a worker at a point remembers what its next call asks for) every step is shown
  to be at most one transaction of `RepoSpec`. So the workflow implements the repository's
  specification, and each theorem above holds of it, the refinement of `CallLedger` included.
* `UnsentIsUnsent`, `ResendsToProviderAreApproved`: the properties about what really left the
  process. `DefinitelyUnsent` is not inductive, as nothing in it keeps a worker from submitting an
  attempt that was settled meanwhile. `SentInv` adds that what left is on record as possibly
  transmitted, and of each worker in a call that its attempt exists, is the latest one of its job
  while it holds the lease, is no other worker's, did not leave until it is submitted, and is on
  record as possibly transmitted from `mark_submitting` on, whoever holds the lease by then. Each
  transaction is shown to take no call on the wire back (`NotTakenBack`, `Recorded`) and to hand
  the lease to nobody but a claimant (`Hands`); the one that does settle an attempt as unsent,
  `complete_attempt`, is made by the holder, who knows.
* `DrainLeavesNoClaim`: the first half of `CleanDrain`, `NoClaimLeft`. Its invariant (`DrainInv`,
  checked by TLC before it was proved) is that while nothing went wrong outside, each job that
  occupies a slot is in the hands of the worker its lease names, at a point of the call that goes
  with its status (`ClaimsHeld`), and that this worker is one of a pool at work (`BusyInv`). Every
  transaction either keeps a job in its slot under the same lease (`Lasts`) or is the step with
  which a worker claims, advances (`StaysAtWork`) or lets go (`LetsGo`). The proof needs that the
  results of `Results` differ from the other replies of a call, which the assumption says.
* `DrainIsClean`: all of `CleanDrain`, with `NothingRefused`: while nothing goes wrong outside and
  nobody cancels a run, the repository refuses no call of any of its workers. Two hypotheses, both
  needed and both met by `MCWorkflowPool`. `EnoughSlots`: at most `SlotLimit` workers, since the web
  server executes one run at a time (`web/api.py:749`) on `submission_slots` threads, 1 or the limit
  itself (`workflow_repository_adapter.py:478`). `PrivateKeys`: no two jobs share a cache identity.
  Within a plan it names the chunk, and those differ (`workflow_contracts.py:397`); a second run of
  the same plan is excluded, because entries that turn up behind a preview are rightly refused.
  The invariant (`CleanInv`, checked by TLC first) says of a run that nobody disturbs (`CalmRun`)
  that each job is untouched, published, or in the hands of exactly one worker, and of a worker
  that its job's row, attempts, cache entries and outcome are those of its point on the way
  (`OnTheWay`: `AtStart` to `AtEnd`), for the first call as well as for a review or a fallback.
  `WorkerAdvances` shows that a worker on its way is not refused and gets further; that the other
  steps leave it there is shown by what a transaction leaves of other jobs (`Elsewhere`, with the
  cache identities of `KeysOwn`) and by what an execution, a recovery and a command can still find to
  do in such a run (`RecoveryRests`; a cancellation is never ignored while a job waits, by
  `RunStatusFresh`). A slot is free for a continuation since each job in a slot has a worker of its
  own (`SlotIsFree`).
* `DerivedWait`: `DerivedAfterMapping`, whatever the cache holds, fails, crashes or is resumed, and
  however a recovery stores results beside the execution. The status the vertical looks at
  (`Blocked`) would not be enough, as it does not see jobs left at `cache_stored`; the invariant
  (`OrderInv`) rests on the registering transaction. What is left to show is that nothing
  registers a job but that transaction, and that no step takes a publication back: whatever a
  worker, a recovery or a command does, a published job stays published (`AllKeepSettled`) with the
  result it has (`ResultsStay`).

**Publication** (`GenerationPublication_proofs`). `StoredBeforeShown`, `WindowsAreCurrent`,
`ViewsAdvance`, `PublicationTypeCorrect`, and the refinement `PublishesOneHistory` of `MapHistory`.
The argument: records are only added (`Grows`), pointers change only under the comparison; the
inductive invariant says what a vertical knows at each step (`VerticalsInv`), that published
generations chain (`ChainInv`) and what a window may hold (`ReaderInv`).

**Narrative** (`NarrativeRun_proofs`). Every safety property of the run.

* `NarrativeTypeCorrect`, `PhaseStaysWithinLimit`, `AcceptedIsNeverResent`. The thread's count of
  calls is never below the calls on record that may have been made; during a call it is one ahead
  of them, or the call is on record already (`CountInv`). A cached job is neither open nor in a
  call whose attempts are still to be recorded (`CacheInv`).
* `SentCallsAreCharged`, `RestartReadsCounters`. Both rest on the numbers of attempts: the
  reservations of a job carry the numbers from one to their count, each once, and every attempt
  belongs to one of them (`NumberInv`), so that what a restart counts from attempts and unmatched
  reservations is the number of reservations (`HistoryIs`, `ChargedIs`). For a new reservation to
  be new, the memory of the thread must agree with the records up to the attempt that is pending
  (`HistoryInv`, `CallInv`), and the queue must hold disjoint batches that are not empty
  (`QueueInv`), which is where packing, halving and splitting into single jobs are shown to
  partition their jobs (`PackBatches`, `HalfBatches`, `SingletonBatches`).

**Organization** (`OrganizationRun_proofs`). Every safety property of both runs.

* `BudgetIsHeld`: what the ledger reserved and charged never exceeds the budget at an admission, and
  what it exceeds afterwards is the recorded overrun. `LateIsBounded`: after a cancellation, each
  scope has at most one attempt past its last look.
* `ValidatedStaysCached`: cache before checkpoint in the project and in the copy a refresh works on
  (`StagedCached`). `AssembliesStayCurrent`: the same for assemblies and generations
  (`StagedConsistent`).
* `CompletionIsDurable`, `CachedStaysUnsent`: neither is inductive, as the scheduler's lists and the
  rows are written by different steps. `ScheduleInv` says where each selected scope is (`Placed`:
  completed, pending, in flight, or not seen yet), that its row's status agrees, that the run's
  generation is the stored authority while the run holds its slot, and that what the run took for
  cached is in the cache.
* `ChargesAlwaysAddUp`: the ledger's totals are what its requests say (`Accounted`); a request
  collected from a provider has nothing open any more (`ReadyInv`), so it is charged once.

**Web** (`WebProcess_proofs`). `TasksHearCancel`, `NarrativeCallsAreBound`: at most one admitted
task exists; its future is done only after its event is dropped; one thread does all lifecycle
work, so a project is not replaced under a narrative run. `RecentStaysExact`: the list of recent
projects is exact, whatever its limit. What `record_project` computes is a recursive function of the
list, so this is the proof that needs induction over data. The library's induction theorems take
operators and cannot be used here; that the natural numbers are well-founded can (`LeastNatural`),
and gives induction and recursion in terms of sets (`Induction`, `Recursion`). With them
`WithoutAbsent` and `WithoutPresent` say what the filter leaves of a list, and `OthersInOrder` that
it keeps the order in which the others were last opened.

**Solver** (`RouteSolver_proofs`). Assumed: the stories asked about are well-formed graphs
(`IsGraph`), limits are positive, and `Unknown` and `None` are no values.

* `NarrowingIsSound`: for all integers, narrowing a constraint by a comparison loses no possible
  value, and a comparison that a possible value satisfies is no contradiction.
  `RepetitionsAreLeast`: the computed number of repetitions opens the exit and no smaller one does.
* `ConfirmedRoutesAreWalkable`: a confirmed route can be played edge by edge, with all laps of its
  loops. The invariant (`RouteInv`) says of each partial route without a warning that it follows
  edges (`Follows`), that its tracked value is what playing it gives (`Stands`, `Played`) and that
  its gates are open on the way (`WaysAreOpen`). A jump through a loop is unrolled lap by lap
  (`LapValues`, `LapNodes`, `LapsArePlayed`). The hypothesis `QuietEntry` is needed: where a loop
  is entered at a node that changes the variable itself, the laps are counted from the wrong value
  (`MCRouteRepeats`).
* `ReportedRepetitionsAreReal`: what a gate of a recommended route is said to have been met by is
  what the route performs up to that gate, fact by fact and repetition by repetition; the hypothesis
  is the same. The invariant (`CountInv`) adds to `RouteInv` that a value source counts what the
  writes of the path did since the variable was last assigned (`Agrees`, `Tally`): with the write of
  the current node (`Recorded`) while its ways on are tried, and without it while a partial route
  waits in the frontier (`Expects`); and that every requirement so far is true (`Told`), which no
  longer path can change (`RealLater`). A jump applies each write of a lap as often as it makes
  laps (`AllAppliedCount`), and these are the writes of its unrolled edges (`LapsTally`).
* `NoStaticRouteIsTrue`, without any hypothesis: the cone of the target is complete after as many
  rounds as there are nodes (`ConeIsClosed`), and no play enters it from outside (`OutOfCone`).
* `NegativeAnswersAreTrue`: where no loop may be jumped through, a destination called infeasible
  or without a route is reached by no play over all integers. While no limit has cut anything and
  nothing is found, each start value is covered by a state, and each retained state is handled:
  every edge toward the target that a value allowed by what is known can take leads to a covered
  value, or is still ahead (`SearchInv`: `Covered`, `Handled`, `Fits`). When nothing is ahead any
  more, the covered values enclose every play (`Encloses`, `Unreached`). This is where dominance and
  the collected constraints are shown to drop nothing. With loop authority the statement is false
  (`MCRouteGatedExit`).
* `NegativeIsTrueWithinTheHorizon`: the same as the property the runs check. `Reachable` cuts values
  off at `Horizon` to stay finite, which is exact for stories whose values stay within it.

## 6. What is only model-checked

* Liveness (`StartedIsPublished`, `ExecutionEnds`, `CancellationStops`, both `RunEnds`): fairness
  and ENABLED are beyond the prover.
* `NegativeIsTrue` of graphs with loop authority: false in general (`MCRouteGatedExit`). The run
  checks it on graphs where nothing behind an accelerated exit asks for more laps.
* `RepetitionsAreReal` where a loop is entered at a node with an effect: false (`MCRouteRepeats`).
* `NoDirectRouteIsBetter`: false in general (`MCRouteRepeats`). The run checks it on graphs whose
  scenes tell apart what a route repeats; a proof for those would compare all routes with the one
  found, by induction over their lengths.

## 7. Findings

The run `narrative_consent` is a listed violation: a restarted phase counts from its own calls
alone, so that the calls under one consent exceed the consented maximum (`narrative/workflow.py:503`;
`docs/milestones/M13/GOAL.md:78`, `:106`). The other disagreements met while modelling are kept as
cfgs to run by hand (`tlc -config X.cfg M`), each with a property that a document or a test
states and the code does not keep:

| cfg: property | What the code does |
|---|---|
| `MCWorkflowResume`: `ResumeSucceeds` | `adapter.recover` publishes every finalized job; one finalized as unsent is refused, and the resume command fails each time (`M15_PHASE_04/GOAL.md:169`) |
| `MCWorkflowContinuation`: `ContinuationIsCallable` | crash between a transmitted review and the second transaction of `record_validated`: the review is claimed again and its reservation refused for ever |
| `MCWorkflowFlagged`: `FlaggedNeverAccepted` | crash between the same two transactions: recovery accepts the flagged result |
| `MCWorkflowCheckpoints`: `RecoveryFinishesCheckpoints` | `recover` has no branch for `cache_stored` (its comment at `workflow_repository_adapter.py:781` claims it). Such a mapping job counts neither as pending nor as active, so each resumed vertical drains and then has the registration of its sections refused, until the run is cancelled |
| `MCWorkflowReview`: `FlaggedMappingIsReviewed` | a review is accepted only after the first attempt: a repeated mapping call cannot be reviewed and the worker raises |
| `MCWorkflowCancel`: `OfferedCancelWorks` | `can_cancel` is offered where `cancel_run` changes nothing |
| `MCPublicationResume`: `ResumeIsNotRefused` | a resumed vertical has no rollup prose, or meets a build another run left: it builds another generation of the same identity, refused for ever (`M15_PHASE_04/GOAL.md:169–170`) |
| `MCOrganizationReuse`: `ValidationIsKept` | registering a narrower selection deletes validated rows (docstring `m07_model.py:187`) |
| `MCOrganizationRefresh`: `CorrectionsSurvive` | what is committed between the backup and the replacement of a refresh is lost (`M07.1/GOAL.md:32–33`) |
| `MCNarrativeReplan`: `RestartAgrees` | below; two minutes with four workers |
| `MCWebProvider`: `ProviderIsKnown` | a refused second M13 start clears the provider of the running one (`web/api.py:2365`) |
| `MCWebSettings`: `SettingsAreKept` | of two concurrent requests one is lost (`web/state.py:46`) |
| `MCRouteGatedExit`: `NegativeIsTrue` | an accelerated loop stops at its earliest exit and its plain edge is suppressed without a limit being recorded: routes that need more laps are denied as proven (`M12/GOAL.md:77–79`, `:89–90`) |
| `MCRouteRepeats`: `RepetitionsAreReal` | a loop entered at a node with an effect of its own reports one lap too many (`M12/GOAL.md:69–71`) |
| `MCRouteRepeats`: `NoDirectRouteIsBetter` | of two partial routes of the same scenes and value the longer is dropped as dominated, although only the shorter must repeat an edge later, and repetitions rank before length: a complete search recommends the worse route (`m12_solver.py:691`; `M12/GOAL.md:91–94`) |

`RestartAgrees` was found by a proof that failed. The reservations of a call carry the identity of
the plan that made it, and `_load_compatible_call_usage` reads only those of the current plan. When
a scene that failed is accepted on a later start, its segment changes and with it the plan of the
second phase. Every job of that plan then starts from zero, the jobs whose own input did not change
included: their earlier calls are no longer counted, and their next attempt takes number one again
and overwrites the row of the first (`narrative/scheduler.py:2143`). Limits of calls and attempts
are not cumulative there, which `M13/GOAL.md` asks for "before every submit, including after
reopen". `SentIsCharged` and `ResumeAgrees` therefore speak of plans no other plan shares a job
with (`Unshared`), for which they hold; `RestartAgrees` is the claim without the condition.

The routes of `MCRouteGatedExit` and `MCRouteRepeats` are what `solve_route` answers when it is run
on such graphs, built as in `tests/test_m12_solver.py` (the loops as one edge from a node to itself):
`state_infeasible` for a destination that three laps reach, a count of four where a gate sees three,
and a confirmed route of one repetition beside one of none. `MCRouteRepeats` has two properties, and
`-continue` reports both.

One further cfg passes and is too long for a run of the project: `MCNarrativeLimit` (all failures up
to the limit of calls).

## 8. Hazards without a property

`PROJECT.json` lists each hazard at its line with the properties that would catch it. Six have none:
the two transactions of `record_validated`, the walk of `recover`, the review of a repeated call,
the resumed vertical, the refresh that loses commits and the gate behind an accelerated loop. In
each the code really goes wrong, as section 7 shows, so that no property of a passing run can say
otherwise.

## 9. What is not modelled, and why

* **Planning** of chunks and jobs: pure functions; their results are constants.
* **Providers and transports**: input and output; a call may end in every way the callers
  distinguish.
* **Storage**: one SQLite database whose transactions are atomic and serial is assumed.
* **Static analysis, ingestion, presentation, evaluation, command line, storyboard, legacy
  organization**: sequential transformations without shared or durable state of their own, or
  superseded code.

Inside the modelled components:

* Repository: overlay revisions; `finalize_success`, `finalize_failure`, `reclaim_job` and the
  cache hits of `claim_next_job` are actions that the service never uses.
* Repository, more permissive than the code: `WithinLimits` has no ceilings for the components of a
  rollup, and `MayContinue` does not compare the prior result with the results of its attempt. Derived jobs
  of a run without frozen plans, which only tests have, are not modelled.
* Vertical: in `StoryMapWorkflow` it ends where a generation is assembled, in
  `GenerationPublication` it continues from there; local and editorial shortcuts are its end; at
  most one rollup.
* Organization: refreshes by another process (a documented non-goal); times and money.
* Narrative: levels above the segment (they repeat the second phase), costs and elapsed time, the
  browser fields a crash can lose before a run can be named again.
* Web: creation of projects, route requests and organization runs (admitted as those modelled),
  other processes.
* Solver: several variables, calls and occurrences, lanes beyond the spine, accounting units,
  facts that are not proven, and floats.
