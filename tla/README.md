# A TLA+ model of the unified ephemeral runner broker

The broker hands out short-lived CI runners.  A client, or a GitHub workflow
job, asks for an allocation in a *pool*; the broker picks one of the pool's
*backends* (ARC, Lambda, Cloud Run, Kubernetes, azure-vm, ...), provisions a
runner there and keeps a record of the allocation until somebody completes or
cancels it or a deadline passes.  What has to be right is the bookkeeping: a
limit on runners must hold, a slot that was taken must come back exactly once, a
runner that was started must be torn down, and a job that waits must get a
runner, whatever requests, callbacks, background loops, restarts and provider
errors do in between.

The project models that bookkeeping in TLA+, checks it with TLC on small
instances, and proves the central results with TLAPS for every instance.

## Inventory

| Component | State | Operations | Hard behaviour | What makes it correct |
|---|---|---|---|---|
| Allocation store (`internal/store`) | one record per allocation | Save, MarkState, CompareAndMarkState, SaveIfState, SaveIfCapacity, Delete, PruneTerminal, List | each call is atomic, sequences of calls are not; `List` is a snapshot | the capacity check and the write are one step |
| File store (`store/file.go`) | the records in memory and in a file | the same, each followed by an atomic rewrite | a write fails before or after the rename | memory and file agree, or the restart repairs it |
| Ordered scheduler (`scheduler/stateful.go`) | slots in use by pool and backend, in memory | Reserve, Release | one instance per scheduler *name*; release without ownership | no slot is lost; the counters never go negative |
| Fair-share scheduler (`priority_fair_share.go`) | slots by tenant, ring cursor, starvation streaks, usage log | Reserve, Release | soft reserves against starvation; a limit of 0 means no limit | quotas and reserved lanes hold |
| Allocation service (`api/service.go`) | nothing of its own: threads with local copies of records | Allocate, Cancel, Complete, Claim, Register, SweepExpired, ReconcileQueue | every operation is a read, a decision and a write with others in between; Provision takes minutes | limits, no leak of slots or runners, finished means finished, requests end |
| Backend admission (`backend_admission.go`, `budget/tracker.go`) | circuit breakers, rate windows, budget counts | filter, allow, recordSuccess, recordFailure, probe | permits of a half-open circuit; check and charge are apart | permits come back, overshoot is bounded |
| Routing policies (`tier`, `capacity`, registration penalties) | cached decisions, snapshots, penalties | refresh, mark stale, filters | caches missing, stale or failed, read one after another | nothing known to be bad is used, nothing good is shut out for good |
| Workflow-job demand (`service_workflow_job.go`, `workflow_job_retry.go`) | job, binding and conclusion in the record; backoffs | job queued, in progress, completed, retry | events in any order; GitHub gives a runner to any job | one live allocation per job; the right runner is released |
| GitHub webhook intake (`github_webhook.go`, `store/inbox.go`) | work channel, delivery ids, leased inbox | accept, enqueue, claim, process, ack | leader changes with deliveries in flight, lost events | every delivery is handled, every waiting job found |
| Reconcile scan (`github_webhook.go`, `github/api.go`) | two scanners, an open deep pass, a call budget | list repositories, runs and jobs | cut off at any call, rate-limited, store emptied | no cursor parks, a closed pass is complete |
| Warm pools (`service.go`, `warm.go`) | warm records | refill, claim, hand over, recycle | a crash in the middle of the hand-over | slots and records agree |
| Restart recovery (`service.go` 248-700) | - | rehydrate, terminalize, rebuild, holds | a crash between any two steps | capacity after a restart covers the runners alive |
| Finished runners, orphans (`service_finished_runners.go`) | - | release, orphan pass | list first, judge later | a live runner is spared, a dead one released |
| Replicas (`store/postgres.go`, `cmd/broker/main.go`) | rows, leader lease | as the store, without its mutex | loops that outlive the lease | one allocation per job across replicas |
| Backend drivers (`internal/backend`) | runners at the providers | Provision, Cleanup, lists | any of them may fail | external: what the service sees of them |
| Dispatcher, HTTP, auth, configuration, observability, secrets | - | - | sequential, best effort or pure I/O | not modelled, see the end |

Threads of one process interact through the store, the schedulers and the
trackers only: HTTP handlers call the service directly, the loops of
`cmd/broker/main.go` work through snapshots (`List`) of the store, and
`releaseWithCleanup` is called by whoever ends an allocation.  No lock is held
from one call to the next, except `workflowJobMu` and `warmMu`, each within one
process.  The hazards this exposes are listed in `PROJECT.json`, each at its
line, with the properties that watch it.

## Modules

| Module | What it models | Extends |
|---|---|---|
| `AllocationStore` | states, records and the store's operations as operators | |
| `BrokerLifecycle` | the service, the ordered scheduler and the providers, with every thread's program counter: the core | `AllocationStore` |
| `CapacityPool` | the abstract promise: slots are granted only while there is room under both limits, and may be given back at any time | |
| `WorkflowDemand` | what the broker does with the three events of a workflow job, and which runner GitHub gives it | |
| `WorkflowIntake` | handler, worker, shared inbox, leader lease, poll; composes the intake with the demand | `WorkflowDemand` |
| `ReconcileScan` | the cycles of the poll, call by call | |
| `FairShare` | `priority_fair_share.go` as operators and steps | |
| `BackendAdmission` | circuit breaker, rate limit, budget | |
| `BackendGate` | `allocateNow` through all gates; composes the two above with the store's check | `FairShare`, `BackendAdmission` |
| `FileStore` | what a process writes and a restart loads, for the three kinds of store | |
| `RestartRecovery` | startup, warm pool, finished-runner and orphan passes, draining | `FileStore` |
| `RoutingPolicy` | the caches of tier, capacity and penalties and the filters that read them | |
| `MC...` | the instances TLC checks, one per model | |
| `BrokerLifecycle_proofs`, `BrokerCapacity_proofs`, `BrokerLeaks_proofs` | types; owners and limits, the refinement; pins, slots and runners that are not lost | `BrokerLifecycle` |
| `WorkflowIntake_proofs` | one live allocation per job, attempts, other jobs' runners, the end of a job ends the allocation that ran it | `WorkflowIntake` |
| `ReconcileScan_proofs` | the deep scan's share, what a closed pass has seen, a pass of all ages is kept | `ReconcileScan` |
| `BackendGate_proofs` | slots, limits, lanes, budget, permits | `BackendGate` |
| `RoutingPolicy_proofs` | limits under old readings, nodes known to be down, preference | `RoutingPolicy` |
| `RestartRecovery_proofs` | slots across restarts, admission after a restart, the orphan pass | `RestartRecovery` |

The models overlap at `allocateNow`, seen from four sides: `BrokerLifecycle` has
all its branches with every filter and refusal nondeterministic;
`BackendGate` has the filters, permits and limits exactly and the branches of
one lane; `RoutingPolicy` has the policy caches; `RestartRecovery` has the
process that may die in it.  Every definition called a *defect* in its comment
is a plausible wrong version of the definition after it.  No action uses it; it
shows that a property notices such a change (`mutants` in `PROJECT.json`).

Several modules take a set of `Worlds`: records that fix a deployment (kind of
store, switches, limits) and the number of faults in it.  One is chosen in
`Init`, so one run covers many configurations without mixing their state
spaces.

### BrokerLifecycle

| Variable | Code |
|---|---|
| `store` | `Memory.allocations`; a record keeps state, pool, selected backend, attempts, `RegisteredAt`/`ClaimedAt` as booleans, and the backend pinned by the stored request |
| `active` | `orderedScheduler.active` of all scheduler instances; `SchedulerOf` says which pools share one |
| `runners` | runners that exist at a provider, by allocation and backend (external) |
| `fresh` | ids `newID` has not returned |
| `worker` | the goroutines in `allocateNow`, HTTP requests and the queue loop: program counter and locals |
| `tail` | a pending `releaseWithCleanup`: first the slot, then the provider |
| `call` | `Complete`, `Claim`, `Register` between their `Get` and their write |
| `sweep`, `queue` | what is left of the snapshot of `SweepExpired` and of `ReconcileQueue` |

One action is one critical section of the store or the scheduler, or one call of
a backend; what a thread does between two of them is part of the earlier or the
later one.

- `allocateNow`: `Filter`/`FilterRejects`, `Reserve`/`Saturated`/`NoCapacity` (the
  lanes: ARC first, then local backends, then the rest),
  `Admit`/`DenyCircuitOpen`/`DenyRateLimited` (admission consumes a permit after
  the reservation), `SaveReserved`/`SaveRefused` (`SaveIfCapacity`),
  `BackendMissing`/`MarkMissing`, `ProvisionOK`/`ProvisionErr`, `Commit`
  (`SaveIfState(reserved)`), `Abandon`, then `RetryCapacity`, `RetryARC` or
  `RetryQueue`.
- `Cancel` is a `Get` and a compare-and-swap repeated until it succeeds: one step.
  `Complete` is `CompleteRead` and `CompleteMark`, a plain `MarkState`; `Claim` and
  `Register` are `ClaimRead` and `ClaimSave`, a plain `Save` of what was read.
- The reaper: `SweepList`, one of `SweepUnregistered`, `SweepJobTimeout`,
  `SweepQuarantine`, `SweepKeep` for each record of the snapshot, `SweepPrune`.
- The queue loop: `QueueList`, `QueueKeep`, `QueueDrop` or `QueueRetry` for each
  record of its snapshot, the steps of `allocateNow`, `QueueExit`.
- `Release` and `Cleanup` (or `CleanupFails`) finish any thread's release.

Abstractions: a deadline that may have passed is a nondeterministic choice; the
filters keep any non-empty subset of the backends; the round robin returns any
available backend; admission refuses for any reason in `Denials`; a disabled or
unhealthy backend has `MaxRunners` 0; a `Provision` that fails leaves no runner
(the drivers' contract); store writes do not fail (`FileStore` has those).

### WorkflowDemand and WorkflowIntake

An allocation has an *origin* (the job that asked) and a *binding* (the job its
runner was seen to execute), because GitHub gives a runner to any job with its
labels.  `alloc` is the store, `run` the runner or worker lease that exists for
an allocation, `epoch` the number of leases of a persistent azure-vm worker
(whose name is reused), `gh` GitHub's own view, `op` the operation that holds
`workflowJobMu` of a replica, step by step between its store calls, `backoff` the
jobs in `jobRetries`.  The intake adds `net` (events under way, in any order),
`workCh`, `guids`, `inbox` with `locked`, `leader`, the `worker` and the `batch` it
or the inbox loop has claimed, and `plan`, the job the poll saw queued.  Events
can be lost and redelivered, the leader lease can expire at any moment, an inbox
lease can end while its delivery is being handled, and a replica of the
high-availability deployment can stop and start anywhere.  The queue loop, the
reaper and retention touch the records as steps of their own.
The conclusion of a job is not told apart (success and failure end an
allocation alike), and label and repository matching are taken as given.

### ReconcileScan

`sc` is the pair of scanners with cursor, repository in progress and position,
`spent` the cycle budget, `cutoffs` the deadline count per unit, and `deepOpen`,
`allAges`, `openFor`, `sinceDeep`, `saw` the deep pass.  A step is one listing or
check (`ListRuns`, `ProcessRun`), each of which costs one request or more, may
succeed, fail or be cut off by the deadline (`CutOff`).  Time is counted in
cycles.

### FairShare, BackendAdmission and BackendGate

`active`, `tenantActive`, `cursor`, `starve`, `tenantLog` are the fields of
`priorityFairShareState`; `circuit`, `limit`, `budget` those of the trackers.
`BackendGate` runs requests through `Filter`, `Reserve` (pinned, best score, or
quality-ranked) or `ReserveFails`, `Admit` or one of the denials, `SaveReserved` or
`SaveRefused`, `Provision`, `Commit`, `recordBudgetUsage` and `Finish`, with
cancels, restarts, health probes, a budget day that ends and a clock of ticks.
What a path reports to the trackers, and with which tenant it releases, is as in
the code: a refused reservation is released without its tenant, and only
success and configured failure classes reach the breaker.  The quality ranking
is any order.

### FileStore and RestartRecovery

`rec` is the memory of the process and `disk` what the next one loads: nothing
for the memory store, everything for a shared one, the last written map for the
file store, where a write may fail before or after its rename.  `phase` and `todo`
walk through the startup: rehydrate, terminalize, rebuild, gaps.  `slots` is the
scheduler, `prov` the pods, `age` how far a record is along its deadlines, `thr`
the request and the warm refill, `snap` the list of an orphan pass.  One process
and one backend; `Complete`, `Cancel` and the reaper are single steps here, their
races being the subject of `BrokerLifecycle`.  A request and an orphan pass take
less time than the orphan grace (three minutes).

### RoutingPolicy

`node` and `level` are what the provider and the usage sources would say; `snap`,
`decision` and `penalty` what the broker has cached.  `RefreshCapacity` and
`RefreshTiers` copy, `RefreshCapacityFails` keeps the last good status, `...MarkStale`
ages an entry.  A request goes through the penalty, tier and capacity filters in
three steps, reserves, is launched or rejected, registers or expires.  Tier
rules give a decision per source; `Merged` is the most restrictive one.  A usage
level is an input: percentages and prices are left out.

## Runs

| Run | Instance | Shows |
|---|---|---|
| `lifecycle` | two pools with different schedulers share a backend limited to one runner; two requests, a cancel, a completion thread, the reaper | the limits hold in the store although the schedulers may count too few (`StoreCapacity`, `ImplementsCapacityPool`); every taken slot and every runner is answered for (`NoSlotLeak`, `NoRunnerLeak`); every reservation has a thread deciding its fate (`ReservedHasOwner`); finished stays finished (`NeverRevived`) |
| `fallback` | one pool, ARC with a static label, a cloud backend and one without implementation; all error kinds, refusals and pins, quarantine | rerouting ends (`RequestsAnswered`), all capacity comes back (`CapacityComesBack`) |
| `spill` | a pool that prefers ARC and one that prefers a local backend share one cloud slot and a scheduler | full lanes and refusals move requests on under new ids; a pin is kept (`PinHonoured`) |
| `claims` | one slot; a claim or register thread against a cancel, a completion and the reaper | a stale record written back costs no slot for good (`CapacityComesBack`) |
| `queue` | one slot, one request with three attempts, two cancels, the reaper, failing cleanups | an id never has two threads (`OneOwner`), no refusal keeps a slot (`NoSlotLeak`), nothing is pending for ever (`QueueSettles`) |
| `intake` | six worlds: one process whose runners GitHub swaps between two jobs, persistent workers, ARC with a redelivery, a lossy network with poll and retention, two replicas of which one may stop, two replicas that poll | one live allocation per job, on whatever replica (`OneLiveAllocationPerJob`); the end of a job ends the allocation that ran it, in either order of the events (`ExecutedJobEndsItsAllocation`), and takes nobody else's runner (`OtherJobsKeepTheirRunner`); retries are bounded (`BoundedAttempts`) |
| `intake_served` | two of these worlds, fair | a job that stays queued is found and served (`QueuedJobIsServed`); the inbox empties although its leader may stop (`InboxDrains`) |
| `scan` | two repositories; a quiet world and one with rate limit, multi-page listings, a list that changes and a repository that is not served | `CursorsNeverPark`, `ClosedPassCoversEverything`, `DeepGetsItsShare`, `AllAgesPassIsKept` |
| `gate` | twelve worlds, each with one gate: reserved lane, starvation, full reserve, quota, breaker with and without probe, pin and rate limit, budget, ranking, usage window, cross-pool limit | slots are counted right on every path (`HeldMatchesActive`); lanes, limits and quotas hold (`LaneKept`, `LimitsHeld`); `BudgetOvershoot`; permits come back while every launch reports (`PermitsReturn`) |
| `recovery` | seven worlds: memory, file and shared store, quarantine, failing cleanups and writes, one or two restarts, a changed `maxRunners`, vanishing pods, draining | `SlotsMatch` in every step, `StartupCoversProvider`, `OrphanPassSparesLiveRunners`, `FinishedRunnersAreReleased`, `GonePodFreesItsSlot` |
| `routing` | nine worlds: penalties, live capacity open or blocking, tier rules of each kind and failure mode, both policies | `KnownDownNodeSpared`, `BestTierFirst`, `RequestsRouted` |
| `circuit_stuck` | an unprobed breaker and a launch that fails unclassified | expected to fail: `PermitsReturn` does not hold (see the first gap) |

### Bounds

- `BrokerLifecycle`: a request uses one id for each backend it is rerouted to
  and every reroute removes a backend from the lane, so two to four ids never
  cut a behaviour off.  One slot for each pool and backend makes every limit
  bite with two requests; two pools on one backend is the smallest case in which
  a scheduler cannot see the other pool.  `MaxAttempts` of 3 takes the counter
  through a middle value.  One thread of each kind of call, used again and
  again: a listed hazard involves at most two threads and a loop.
- `WorkflowIntake`: two jobs (a runner can go to the wrong one), three ids
  (`MaxJobAllocations` is 2, one more shows that it is kept), a channel and a
  batch of one (both can be full), one loss, redelivery or crash per world.
- `ReconcileScan`: a budget of 5 with a reserve of 2 and listings of up to 2
  requests lets the recent scan overrun its limit; two cutoffs make a unit
  skipped; a pass of two repositories spans cycles and fits into `DeepMaxOpen`.
- `BackendGate`: two or three requests over one or two slots; two tenants and two
  lanes; `MaxUsage` of 3 caps the usage log and the drift of a tenant count in
  the guard of `Filter`.
- `RestartRecovery`: two ids and `maxRunners` 1 or 2, so that both a full and a
  half-full backend restart; a second restart meets the holds of the first.
- `RoutingPolicy`: two backends, two requests, one or two disturbances from an
  arbitrary initial state of provider and sources; two failed polls are told
  apart from one.
- Deadlock is checked in the runs of `BrokerLifecycle` and in `scan`, whose loops
  never stop.  The other models end when their jobs, restarts or requests are
  used up.  `Interchangeable` permutes threads of one kind, in runs without
  liveness only.

### Fairness

- `BrokerLifecycle`: weak fairness of every thread that has begun (goroutines are
  scheduled, calls of backends carry deadlines) and of the two loops (tickers of
  `cmd/broker/main.go`); strong fairness of `SweepJobTimeout` and of the queue
  loop's decision: time passes, so a loop that meets a record again and again at
  last finds its deadline passed.
- `WorkflowIntake`: weak fairness of each replica's operation, worker, backoff
  and poll and of the inbox lease's end; strong fairness where a thread competes
  for a mutex or the leadership (`ProcessQueued`, `InboxTick`), of the age limit
  of inbox deliveries (`DropExpired`), and of an `Allocate` that is not refused
  every time.
- `ReconcileScan`: weak fairness of the cycle and of the end of a rate limit.
- `BackendGate`, `RoutingPolicy`: weak fairness of the steps of a request that has
  begun, of the clock, the probes and the refresh loops; `RoutingPolicy` also lets a
  request be sent again (the queue or the poll does).
- `RestartRecovery`: weak fairness of startup, threads and the orphan pass;
  strong fairness of time, which a pass holds up but does not stop, and of a
  cleanup that does not fail every time.

Nothing is assumed of clients and GitHub: they may never cancel, complete, claim
or assign.

## Theorems

Each theorem holds for every value of the constants: any number of threads,
jobs, tenants, backends and restarts, any set of `Worlds`.  The only assumptions
are the named ones of the modules (`StoreAssumption`, `BrokerAssumption`,
`DemandAssumption`, `ScanAssumption`, `GateAssumption`, `RecoveryAssumption`,
`RoutingAssumption`): sets are finite where they are counted, names are distinct, limits and bounds are
naturals.  TLC evaluates them in the runs of the module.  A further hypothesis
of a theorem is part of its statement and explained below.

`BrokerLifecycle`:

- `TypeCorrect`: `Spec => []TypeOK`, claims included.  Two parts of it are more
  than typing: the scheduler's counters never go below zero although slots are
  released twice, and attempts never exceed the maximum although threads
  rewrite records from snapshots.  `TypeOK` is not inductive; `TypeInv` adds which
  program counters have a selected backend, an id or a pool, that a release has
  a pool, and that the snapshots hold records with a pool.
- `ReservationsAreOwned`, `IdsHaveOneOwner`: `[]ReservedHasOwner`, `[]OneOwner`.
  The inductive invariant is `TypeInv /\ OneOwner /\ OwnReservation /\
  ReservedHasOwner`: a commit or an abandon rewrites its own reservation only
  because no other thread has its id, and this holds because a pending record,
  which the queue loop may take over, has left the hands of its request.
- `CapacityRefinement`: `Spec => ImplementsCapacityPool`, with the accounted
  records of the store as the slots.  The only step that grants a slot is
  `SaveReserved`; `Commit` keeps it because of `OwnReservation`; all others keep it
  or give it back.
- `CapacityKept`: `[]StoreCapacity`, from the refinement's step.

All but the first assume `Claims = {}`: no claim or register callback between
its read and its write.  The assumption is necessary: a claim that read an
active record may write it back after a cancel ended it and another allocation
took its room, and so accounts for a record without asking for room.

- `PinsAreHonoured`: `[]PinHonoured`, claims and queue included.  The invariant adds
  that a pinned thread at `reserve` asks for its backend and is not in a
  preferred lane.
- `FinishedStaysFinished`: `Spec => NeverRevived`; `NoSlotIsLost`: `[]NoSlotLeak`;
  `NoRunnerIsLost`: `[]NoRunnerLeak`.

The last three assume `Claims = {}` and `~QueueEnabled`, `NoSlotIsLost` also that the
threads are finitely many (it counts them), `NoRunnerIsLost` also
`~CleanupMayFail` (a cleanup that fails is not tried again by its thread).  The
queue has to be off: TLC finds all three violated in the instance of the `queue`
run with a completion thread, which may read a record while it is pending, and
mark it once the queue loop has reserved it, without releasing anything.

All three rest on `RecordInv`, about stale reads: an id that was not handed out
has no record; what a completion or the reaper has read of a record still names
its pool and backend, as long as the record counts (`CallsAgree`, `SweepAgrees`);
nobody but its own thread makes a reservation ready, and an abandoned one is
over (`Settled`).  So a stale writer may end a record twice but never loses a
slot, and every step changes a record in one of four ways (`Evolves`).
`NoSlotLeak` itself is not inductive: a thread that finds no implementation of
its backend releases the slot first and marks the record afterwards, so between
the two its record must not count as an answer (`Live`, `Ledger`).  `NoRunnerLeak`
needs that a thread that failed or has not begun to provision has no runner
under its id, and that runners are on backends with an implementation
(`RunnersKnown`).  The steps of `allocateNow` are first reduced to fifteen shapes
(`RequestShapes`), those of the callbacks and the reaper to two (`OtherShapes`); the
invariants are proved over the shapes.

`WorkflowIntake` (all replicas, lost and redelivered events, crashes):

- `TypesKept`, `JobHasOneLiveAllocation`, `AttemptsAreBounded`:
  `[]TypeOK`, `[]OneLiveAllocationPerJob`, `[]BoundedAttempts`.
- `RunnersOfOthersKept`: `Spec => OtherJobsKeepTheirRunner`, the event of one job
  never takes the runner that another one is executing on.

The invariant has six parts: `TypeInv`; which runner an allocation has in which
state (`RunnerInv`); that GitHub gives a runner of its own to one job, while the
allocation has it (`GitHubInv`); that a binding names the job seen on the
runner, that an operation holds an allocation only if its job may release it,
and that what it has read of the record is still so (`BindingInv`); that a
process outside the deployment does nothing (`OutsidersInv`); and, for each kind
of store, what stands between the check for a live allocation and the insert
(`AttemptsInv`: the unique index of PostgreSQL, `workflowJobMu` of a single
process).

- `OwnRunnersEnd`: with one broker process, in any deployment, when the
  `in_progress` and the `completed` event of a job were both processed, the
  allocation that was launched for the job and ran it is over.
- `ExecutedJobsEnd`: `[]ExecutedJobEndsItsAllocation`, the same for a runner that
  was launched for another job and that GitHub gave to this one.  It assumes
  `SimpleWorlds`: every world with one process either has no poll and no
  retention and does not mix ARC with runners of their own name, or has one job.
  The worlds of the run are of this kind.  TLC finds the property violated when
  any part of the assumption is dropped (gaps 13 and 14); that it speaks of one
  process is a condition of the property itself (gap 10).

The order of the two events does not matter: a claim leaves the binding that a
completion looks for, and a completion that does not find its runner leaves the
conclusion that a claim looks for.  Their invariant (`ExecInv`) says this while
the allocation is live: a claim that was processed has bound it, and a completion
that was processed has left its conclusion and has seen no claim.  It needs to
know what the steps between a read and a write can rely on: GitHub has sent
every event the broker knows of (`EventsInv`), runners have names their
deployment knows (`NamesInv`), the only process finds a record it holds as it left it (`ReadInv`),
and, without the poll and retention, a job has one record (`RecordInv`), so that
the conclusion is read from the record it was written to.

`ReconcileScan`:

- `DeepShareKept`: `[]DeepGetsItsShare`, by `ShareInv`: the verdict "budget" of the
  deep scan comes only after its share was spent, however far a listing of many
  pages pushed the recent scan past its limit, and ends the work of the cycle.
- `ClosedPassIsComplete`: `Spec => ClosedPassCoversEverything`, by `CoverInv`: over a
  steady list, what lies behind the deep cursor of an open pass was looked at,
  and what is left of it is what the pass still counts.
- `AllAgesAreKept`: `Spec => AllAgesPassIsKept`, by `PaceInv`: each cycle of an open
  pass uses up at least one of the tries it can need, `MaxCutoffs` for each run
  and for each listing of a repository.  It assumes `PassFits`: the age limit
  `DeepMaxOpen`, in cycles, exceeds these tries, and the rescue and the listing
  of the repositories leave something of the budget.  Without the first the age
  limit restarts a pass before it can close.  In the run the limit is 9 and the
  tries are 8.  In the code the limit is an hour, so with a cycle each minute
  the theorem covers lists that need fewer than 60 tries when every cycle
  manages only one; a cycle has a budget of about 100 calls and usually manages
  many more, which the theorem does not use.

`BackendGate`:

- `SlotsAreCounted`: `[]HeldMatchesActive`; `LimitsAreKept`: `[]LimitsHeld`;
  `LanesAreKept`: `[]LaneKept`; `BudgetKept`: `[]BudgetOvershoot` when no world has
  both a budget and restarts.  That hypothesis is necessary: a restart between
  the commit and the charge forgets the charge.
- `PermitsAreBounded`: a half-open circuit never has more than
  `halfOpenMaxRequests` permits out and a circuit in any other state has none
  (`PermitInv`, inductive as it stands), whatever failures, successes, probes and
  restarts come between.  That permits come back at all is `PermitsReturn`, and
  needs the launches to report (the `circuit_stuck` gap).

Every step of a request rewrites one thread and one record and keeps, takes or
gives back one slot, and a record is accounted for only by the store's check.
Two limits need more than that, because `SaveIfCapacity` reads 0 as no limit:
`maxRunners` follows from the scheduler's own count (`WithinMax`), since what has
a record has a slot, and a lane without room is kept out at the reservation
(`LaneInv`).  That lanes nest needs sums over sets of lanes.  For the budget
(`BudgetInv`) the launches made are at most those charged and those that wait for
their charge.

`RoutingPolicy`:

- `OldReadingsStayWithinMax`: the slots given out on a backend never exceed its
  `maxRunners`, although a request compares with a limit computed earlier, from a
  reading that may be old, failed or missing.  `LimitInv`: every limit a request
  carries is within `maxRunners`, and so is the scheduler's count.
- `KnownDownIsSpared`: `Spec => KnownDownNodeSpared`.  `KnownInv`: what was last
  read of a node that is down is still in the snapshot after one failed poll,
  so `EffectiveMaxRunners` is 0 for it under every policy.  After the second
  failure it is not (gap 8), and the property says so.
- `PreferenceIsKept`: `Spec => BestTierFirst`, from the types alone: it is a fact
  about what the filter computes from any mixture of data.

`RestartRecovery`:

- `SlotsSurviveRestarts`, `RecoveryTypesKept`: `[](HoldsAreNew => SlotsMatch)`,
  `[](HoldsAreNew => TypeOK)`.  `HoldsAreNew` is true in every state of a memory or
  shared store and of a file store until its second restart; it is necessary,
  see the eleventh gap.
- `StoreNeverRefuses`: what the scheduler of a process has admitted, the store's
  own check admits too.  (`SaveReserved` of the model has no branch for a
  refusal; this is why it needs none.)
- `RestartDoesNotOverAdmit`: `Spec => StartupCoversProvider`.  While the holds are
  made, the slots taken and the holds to come are as many as the live runners,
  or the limit is reached (`GapInv`).
- `OrphanPassIsSafe`: `Spec => OrphanPassSparesLiveRunners`.  A live runner the pass
  did not list belongs to an allocation that is younger than the grace
  (`PassInv`): it was launched by a thread whose allocation no timer has reached.

`SlotsMatch` is an equation between an in-memory counter and the records, with
two corrections for threads on their way.  Its proof needs, for each thread,
that its allocation is its own, is in the store as the thread left it and is too
young for the reaper (`ThreadInv`); for each startup phase, that its list still
describes the records (`StartInv`); and that nobody runs meanwhile.

The sums over sets of lanes in `BackendGate_proofs` need an induction that the
library has no usable theorem for.  It is done by a smallest counterexample: a
well-founded order on the finite subsets has a minimal one (`WFMin`,
`FS_StrictSubsetOrderingWellFounded`), and removing one element of it gives a
contradiction.

Only model-checked:

- liveness (`RequestsAnswered`, `CapacityComesBack`, `QueueSettles`,
  `QueuedJobIsServed`, `InboxDrains`, `CursorsNeverPark`, `PermitsReturn`,
  `FinishedRunnersAreReleased`, `GonePodFreesItsSlot`, `RequestsRouted`): fairness
  is out of the prover's reach;
- `NoSlotLeak` with the queue enabled and no completions (the `queue` run);
- `TypeOK` of `BackendGate`: it bounds the length of a log that is filtered with
  `SelectSeq`, of which the prover knows nothing, and the drift of the tenant
  counts by a bound of the model (its circuits are `PermitsAreBounded`).

## Known gaps of the code

What the models show the code not to do.  The first is a run; the others are kept
out of the passing runs by an instance without the two actors they need, or by
a condition stated in the property.

1. A half-open launch that reports neither success nor failure keeps its permit;
   `probeDue` looks at open circuits only, and the backend is refused for ever
   (`backend_admission.go:226`, against `docs/architecture.md:271`; run
   `circuit_stuck`).
2. `Complete` reads a *pending* record and marks it after the queue loop made it
   ready: nothing releases the slot, and the terminal record is never reaped
   (`service.go:1610`, against README.md:312-313 "the broker-side reaper reclaims
   capacity so stuck allocations cannot hold `maxRunners` forever").
3. `Claim` and `Register` write back what they read: a canceled allocation is
   active again until the reaper meets it (`service.go:3493`, against the comment at
   3475-3477, "remains active until job_timeout or explicit completion/cancel").
4. Two overlapping completions both release (`service.go:1598`, against
   README.md:186-187 "do not re-release scheduler capacity").
   `StoreCapacity` holds in spite of it.
5. The reaper releases the backend named in its snapshot, which the queue loop
   may have changed (`service.go:1679`).
6. A refused reservation is released without its tenant, whose count then stays
   too high (`service.go:955`).
7. The starvation bypass of the fair-share scheduler is refused by
   `SaveIfCapacity`, which checks the same reserve (`service.go:1265`); where the
   reserve leaves nothing at all the limit becomes 0, which means none, and the
   bypass succeeds (`priority_fair_share.go:476`).
8. After two failed polls in a row a node that was known to be down is free
   capacity again (`capacity/refresh.go:69`).
9. On PostgreSQL an ended record of a job keeps its unique index entry, so the
   retry of a failed job is refused until retention removes it
   (`postgres.go:79`, against `github_webhook.go:569-572`).
10. Two replicas can overwrite a deferred conclusion: `SaveIfState` compares the
    state only (`service_workflow_job.go:279`).
11. A hold of an earlier restart that the file store kept is refreshed without
    taking a slot for the new gap, also when it had ended and has none
    (`service.go:646`).  The scheduler then counts one slot less than the store,
    and when the hold ends a slot is released that it never had.
12. A restart between the commit of an allocation and `recordBudgetUsage` forgets
    the charge, so a budget can be overshot by more than the requests in flight
    (`service.go:1064`, `1208`).
13. Where a pool has ARC and other backends, the event of a job whose runner has
    no committed record yet is applied to the ARC allocation of the job itself
    (`service_workflow_job.go:448`), and the runner that ran it is left to its
    timeout.
14. A completion that does not know its runner leaves its conclusion on the job's
    record.  When the poll, having seen the job queued, adds a newer record, or
    retention removes that one, the late claim reads no conclusion
    (`service_workflow_job.go:480`), and the runner stays until its timeout.

## Not modelled

- The lifecycle webhook dispatcher: best-effort notifications with bounded
  retries, read by nothing in the broker.
- HTTP parsing, authentication, configuration and its validation, label
  matching, signatures: sequential functions without state.
- Observability and tracing: no decision reads them.
- Runtime and secrets: reading of Kubernetes secrets behind a cache.
- The SQL and the isolation level of PostgreSQL, and the admission document that
  replicas overwrite: a lost update there needs no model to be seen.
- The clouds behind the drivers, and the formula of the quality score.

## Plan

Done: the modules above and their theorems.  Next: replicas with a scheduler
each over one store.
