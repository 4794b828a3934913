--------------------------- MODULE BrokerLifecycle ---------------------------
(***************************************************************************)
(* The life of an allocation in one broker process (internal/api/service.go *)
(* over internal/store and internal/scheduler).  Concurrent HTTP requests  *)
(* allocate, cancel, complete, claim and register; two background loops    *)
(* reap expired allocations and retry the queued ones.  Nothing but the    *)
(* mutex inside the store and the mutex inside the scheduler orders them,  *)
(* so one action is one critical section, or one call of a backend.        *)
(*                                                                         *)
(* State: the store's records, the scheduler's in-memory slot counters, the *)
(* runners that exist at the providers, and the program counter and local  *)
(* variables of every thread.                                              *)
(*                                                                         *)
(* Left out: fair share and quotas, warm pools, workflow-job demand,       *)
(* several replicas, restarts and failing writes of the store.  The clock  *)
(* is abstracted: a deadline that may have passed is a nondeterministic    *)
(* choice.                                                                 *)
(***************************************************************************)
EXTENDS AllocationStore, FiniteSetsExt

CONSTANTS
    ARC,               \* the backend named "arc"
    CloudBackends,     \* the backends of the cloud fallback lane
    Registered,        \* the backends that have an implementation
    Configured,        \* Configured[p]: the backends of pool p
    MaxRunners,        \* MaxRunners[p][b]; 0 also stands for disabled or unhealthy
    CrossPoolMax,      \* CrossPoolMax[p][b]: crossPoolMaxRunners; 0 is no limit
    BrokerLimit,       \* BrokerLimit[b]: broker.backendLimits; 0 is no limit
    StaticLabel,       \* StaticLabel[p]: the backends of p with a static runner label
    SchedulerOf,       \* SchedulerOf[p]: the name of the scheduler of p
    Requests,          \* POST /allocations calls
    Pins,              \* what they ask for: backends they pin, None for no pin
    Cancels,           \* threads that serve cancel calls
    Completes,         \* threads that serve completion callbacks
    Claims,            \* threads that serve claim and register callbacks
    Queue, Sweep,      \* the loops reconcile-queue and sweep-expired
    QueueEnabled,      \* broker.queue.enabled
    OrphanCleanup,     \* broker.orphanCleanup.enabled
    CleanupMayFail,    \* whether Cleanup of a backend may return an error
    Denials,           \* reasons for which admission may refuse a backend
    FailureKinds,      \* kinds of error Provision may return
    CompletionStates   \* states the completion callbacks ask for

VARIABLES
    store,     \* Store.allocations
    active,    \* orderedScheduler.active, by pool and backend
    runners,   \* <<id, backend>>: runners that exist at a provider
    fresh,     \* ids newID has not handed out
    worker,    \* the threads in allocateNow
    tail,      \* a thread's pending releaseWithCleanup
    call,      \* the threads between a Get and the write based on it
    sweep,     \* SweepExpired: its snapshot of the store
    queue      \* ReconcileQueue: its snapshot of the store

vars == <<store, active, runners, fresh, worker, tail, call, sweep, queue>>

Workers == Requests \cup {Queue}
Callers == Completes \cup Claims
Threads == Workers \cup Cancels \cup Completes \cup {Sweep}

\* Failures of allocateNow: what Provision returns, what admission and the
\* scheduler return, and everything that is neither retried nor rerouted.
ErrorKinds == {"none", "capacity", "unavailable", "throttled", "deadline",
               "circuit-open", "rate-limited", "no-capacity", "fatal"}

ASSUME BrokerAssumption ==
    /\ ARC \notin CloudBackends
    /\ CloudBackends \cup Registered \subseteq Backend
    /\ Configured \in [Pool -> SUBSET Backend]
    /\ StaticLabel \in [Pool -> SUBSET Backend]
    /\ MaxRunners \in [Pool -> [Backend -> Nat]]
    /\ CrossPoolMax \in [Pool -> [Backend -> Nat]]
    /\ BrokerLimit \in [Backend -> Nat]
    /\ None \notin Id /\ "rerouted" \notin Backend \cup {None}
    /\ Queue \notin Requests
    /\ (Cancels \cup Completes) \cap Workers = {}
    /\ Sweep \notin Workers \cup Cancels \cup Completes
    /\ Completes \cap (Cancels \cup Claims) = {}
    /\ {QueueEnabled, OrphanCleanup, CleanupMayFail} \subseteq BOOLEAN
    /\ Denials \subseteq {"circuit-open", "rate-limited"}
    /\ FailureKinds \subseteq {"capacity", "unavailable", "throttled", "deadline", "fatal"}
    /\ CompletionStates \subseteq TerminalStates

-----------------------------------------------------------------------------
(***************************************************************************)
(* Types.                                                                  *)
(***************************************************************************)
WorkerPC == {"idle", "filter", "reserve", "admit", "save", "provision", "missing",
             "commit", "abandon", "retry", "exit", "done"}

\* The local variables of allocateNow.  pin is the pinned backend of the
\* request ("rerouted" once a rate limit dropped the pin), elig the backends
\* that passed the filters, lane and want the pool and the backend that are
\* tried next, first whether the lane is the preferred one, snap the existing
\* record of a queued allocation.
Worker == [pc    : WorkerPC,
           pool  : Pool \cup {None},
           pin   : Backend \cup {None, "rerouted"},
           elig  : SUBSET Backend,
           lane  : SUBSET Backend,
           want  : Backend \cup {None},
           first : BOOLEAN,
           sel   : Backend \cup {None},
           id    : Id \cup {None},
           snap  : Record,
           err   : ErrorKinds]

NoWork(pc) == [pc |-> pc, pool |-> None, pin |-> None, elig |-> {}, lane |-> {},
               want |-> None, first |-> FALSE, sel |-> None, id |-> None,
               snap |-> NoRecord, err |-> "none"]

Tail == [phase   : {"none", "release", "cleanup"},
         id      : Id \cup {None},
         pool    : Pool \cup {None},
         backend : Backend \cup {None}]

NoTail == [phase |-> "none", id |-> None, pool |-> None, backend |-> None]

Call == [id : Id \cup {None}, rec : Record, to : TerminalStates \cup {"none", "claim", "register"}]

NoCall == [id |-> None, rec |-> NoRecord, to |-> "none"]

NoTodo == [i \in Id |-> NoRecord]

TypeOK ==
    /\ store \in [Id -> Record]
    /\ active \in [Pool \X Backend -> Nat]
    /\ runners \subseteq Id \X Backend
    /\ fresh \subseteq Id
    /\ worker \in [Workers -> Worker]
    /\ tail \in [Threads -> Tail]
    /\ call \in [Callers -> Call]
    /\ sweep \in [running : BOOLEAN, todo : [Id -> Record]]
    /\ queue \in [Id -> Record]

Init ==
    /\ store = NoTodo
    /\ active = [x \in Pool \X Backend |-> 0]
    /\ runners = {}
    /\ fresh = Id
    /\ worker = [t \in Workers |-> NoWork("idle")]
    /\ tail = [a \in Threads |-> NoTail]
    /\ call = [c \in Callers |-> NoCall]
    /\ sweep = [running |-> FALSE, todo |-> NoTodo]
    /\ queue = NoTodo

-----------------------------------------------------------------------------
(***************************************************************************)
(* The scheduler (internal/scheduler/stateful.go) and the lanes of a pool. *)
(***************************************************************************)

\* Defect: broker.backendLimits is forgotten.
BackendLimitOfPool(p, b) == CrossPoolMax[p][b]

\* resolvePool folds broker.backendLimits into crossPoolMaxRunners.
BackendLimit(p, b) ==
    IF BrokerLimit[b] > 0 /\ (CrossPoolMax[p][b] = 0 \/ BrokerLimit[b] < CrossPoolMax[p][b])
    THEN BrokerLimit[b]
    ELSE CrossPoolMax[p][b]

\* One scheduler instance serves all pools that name it, so it sees the slots
\* of those pools only.
ActiveBackend(p, b) ==
    MapThenSumSet(LAMBDA q : active[<<q, b>>], {q \in Pool : SchedulerOf[q] = SchedulerOf[p]})

Available(p, b) ==
    /\ active[<<p, b>>] < MaxRunners[p][b]
    /\ BackendLimit(p, b) > 0 => ActiveBackend(p, b) < BackendLimit(p, b)

\* What Reserve may return: the pinned backend, or any one of the lane (the
\* order of the round robin is left open).
Candidates(w) ==
    {b \in w.lane : (w.want # None => b = w.want) /\ Available(w.pool, b)}

Usable(p, B) == {b \in B : MaxRunners[p][b] > 0}

\* fallbackBackends: everything but ARC.
FallbackBackends(B) == B \ {ARC}

HasFallback(p, B) == Usable(p, FallbackBackends(B)) # {}

LocalBackends(p, B) == Usable(p, FallbackBackends(B) \ CloudBackends)

\* The lane an allocation tries first.  An unpinned request of a pool with a
\* usable backend besides ARC prefers ARC, or the local backends when the pool
\* has no ARC; everything else goes to all backends that passed the filters.
FirstLane(p, B, want) ==
    IF want # None \/ ~HasFallback(p, B)
    THEN [lane |-> B, want |-> want, first |-> FALSE]
    ELSE IF ARC \in Usable(p, B)
    THEN [lane |-> {ARC}, want |-> ARC, first |-> TRUE]
    ELSE IF ARC \notin Configured[p] /\ LocalBackends(p, B) # {}
    THEN [lane |-> LocalBackends(p, B), want |-> None, first |-> TRUE]
    ELSE [lane |-> FallbackBackends(B), want |-> None, first |-> FALSE]

\* An unpinned request that lost ARC goes to the other backends.
LeavesARC(w) ==
    w.sel = ARC /\ w.pin = None /\ HasFallback(w.pool, w.elig)

-----------------------------------------------------------------------------
(***************************************************************************)
(* Steps shared by the threads.                                            *)
(***************************************************************************)
At(t, pc) == worker[t].pc = pc /\ tail[t] = NoTail

Goto(t, w) == worker' = [worker EXCEPT ![t] = w]

\* allocateNow returns without an error.
Return(t) == Goto(t, NoWork(IF t = Queue THEN "idle" ELSE "done"))

\* allocateNow returns an error: the HTTP request is over, the queue loop
\* decides what becomes of the record.
Fail(t, kind) ==
    Goto(t, IF t = Queue
            THEN [NoWork("exit") EXCEPT !.id = worker[t].id, !.snap = worker[t].snap, !.err = kind]
            ELSE NoWork("done"))

ReleaseTail(i, p, b) == [phase |-> "release", id |-> i, pool |-> p, backend |-> b]

CleanupTail(i, p, b) == [phase |-> "cleanup", id |-> i, pool |-> p, backend |-> b]

SetTail(a, x) == tail' = [tail EXCEPT ![a] = x]

\* Defect: the counter is decremented without looking at it.
ReleaseSlotUnchecked(p, b) ==
    active' = IF b # None THEN [active EXCEPT ![<<p, b>>] = @ - 1] ELSE active

\* The scheduler half of releaseWithCleanup: the counter never goes below 0.
ReleaseSlot(p, b) ==
    active' = IF b # None /\ active[<<p, b>>] > 0
              THEN [active EXCEPT ![<<p, b>>] = @ - 1]
              ELSE active

Release(a) ==
    /\ tail[a].phase = "release"
    /\ ReleaseSlot(tail[a].pool, tail[a].backend)
    /\ tail' = [tail EXCEPT ![a].phase = "cleanup"]
    /\ UNCHANGED <<store, runners, fresh, worker, call, sweep, queue>>

\* The provider half: the runner of the allocation is torn down.  A Cleanup
\* that fails is logged and not tried again by this thread.
Cleanup(a) ==
    /\ tail[a].phase = "cleanup"
    /\ runners' = IF tail[a].backend \in Registered
                  THEN runners \ {<<tail[a].id, tail[a].backend>>}
                  ELSE runners
    /\ SetTail(a, NoTail)
    /\ UNCHANGED <<store, active, fresh, worker, call, sweep, queue>>

CleanupFails(a) ==
    /\ CleanupMayFail
    /\ tail[a].phase = "cleanup"
    /\ <<tail[a].id, tail[a].backend>> \in runners
    /\ SetTail(a, NoTail)
    /\ UNCHANGED <<store, active, runners, fresh, worker, call, sweep, queue>>

-----------------------------------------------------------------------------
(***************************************************************************)
(* allocateNow.                                                            *)
(***************************************************************************)

\* The errors queueAllocation accepts, and those that send an unpinned
\* allocation from ARC to the other backends.
Queueable == {"circuit-open", "unavailable", "throttled"}
ARCUnavailable == {"unavailable", "deadline"}

CanQueue(w, kind) ==
    QueueEnabled /\ kind \in Queueable /\ w.snap.attempts < MaxAttempts

\* The record prepareAllocation and queueAllocation build from the existing
\* one.  An HTTP request has none: its attempts are 0.
RecordOf(w, state, b, pin) ==
    [w.snap EXCEPT !.state = state, !.pool = w.pool, !.backend = b, !.pin = pin]

\* queueAllocation saves the allocation as pending and allocateNow returns,
\* or it refuses and allocateNow returns the error.  The id is that of the
\* allocation, or a new one when there is none yet.
QueueOrFail(t, i, b, pin, kind) ==
    IF CanQueue(worker[t], kind)
    THEN /\ i # None \/ fresh # {}
         /\ LET id == IF i = None THEN CHOOSE x \in fresh : TRUE ELSE i
            IN  /\ store' = Save(store, id, RecordOf(worker[t], "pending", b, pin))
                /\ fresh' = fresh \ {id}
         /\ Return(t)
    ELSE /\ Fail(t, kind)
         /\ UNCHANGED <<store, fresh>>

\* A request arrives: any pool, pinned or not.
Allocate(t, p, pin) ==
    /\ At(t, "idle")
    /\ Goto(t, [NoWork("filter") EXCEPT !.pool = p, !.pin = pin])
    /\ UNCHANGED <<store, active, runners, fresh, tail, call, sweep, queue>>

\* The filters keep the backends that match the request, are admissible, and
\* have tier, live capacity and budget left; a pinned backend must be one of
\* them, unless a rate limit drops the pin.
Filter(t, B, dropPin) ==
    LET w == worker[t]
        want == IF dropPin THEN None ELSE w.pin
        lane == FirstLane(w.pool, B, want)
    IN  /\ At(t, "filter")
        /\ B # {} /\ B \subseteq Configured[w.pool]
        /\ want # None => want \in B
        /\ dropPin => w.pin # None /\ "rate-limited" \in Denials
        /\ Goto(t, [w EXCEPT !.pc = "reserve", !.elig = B,
                             !.pin = IF dropPin THEN "rerouted" ELSE @,
                             !.lane = lane.lane, !.want = lane.want, !.first = lane.first])
        /\ UNCHANGED <<store, active, runners, fresh, tail, call, sweep, queue>>

\* No backend is left.  Only a pinned backend is refused as circuit-open.
FilterRejects(t, kind) ==
    /\ At(t, "filter")
    /\ kind = "circuit-open" => kind \in Denials /\ worker[t].pin # None
    /\ QueueOrFail(t, worker[t].id, None, worker[t].pin, kind)
    /\ UNCHANGED <<active, runners, tail, call, sweep, queue>>

Reserve(t, b) ==
    /\ At(t, "reserve")
    /\ b \in Candidates(worker[t])
    /\ active' = [active EXCEPT ![<<worker[t].pool, b>>] = @ + 1]
    /\ Goto(t, [worker[t] EXCEPT !.pc = "admit", !.sel = b, !.first = FALSE])
    /\ UNCHANGED <<store, runners, fresh, tail, call, sweep, queue>>

\* The preferred lane is full, for ARC after waiting for a slot.
Saturated(t) ==
    /\ At(t, "reserve")
    /\ worker[t].first
    /\ Candidates(worker[t]) = {}
    /\ Goto(t, [worker[t] EXCEPT !.first = FALSE, !.want = None,
                                 !.lane = FallbackBackends(worker[t].elig)])
    /\ UNCHANGED <<store, active, runners, fresh, tail, call, sweep, queue>>

\* No slot in the lane, or the client went away while it waited for ARC.
NoCapacity(t) ==
    /\ At(t, "reserve")
    /\ Candidates(worker[t]) = {}
    /\ worker[t].first => worker[t].want = ARC
    /\ Fail(t, "no-capacity")
    /\ UNCHANGED <<store, active, runners, fresh, tail, call, sweep, queue>>

Admit(t) ==
    /\ At(t, "admit")
    /\ Goto(t, [worker[t] EXCEPT !.pc = "save"])
    /\ UNCHANGED <<store, active, runners, fresh, tail, call, sweep, queue>>

\* Defect: the refused slot is not given back.
DenyCircuitOpenKeepsSlot(t) ==
    /\ At(t, "admit")
    /\ "circuit-open" \in Denials
    /\ QueueOrFail(t, worker[t].id, worker[t].sel, worker[t].want, "circuit-open")
    /\ UNCHANGED <<active, runners, tail, call, sweep, queue>>

\* The circuit of the selected backend opened: the slot is given back, and
\* the allocation leaves ARC or is queued.
DenyCircuitOpen(t) ==
    LET w == worker[t]
    IN  /\ At(t, "admit")
        /\ "circuit-open" \in Denials
        /\ ReleaseSlot(w.pool, w.sel)
        /\ IF LeavesARC(w)
           THEN /\ Goto(t, [w EXCEPT !.pc = "reserve", !.want = None, !.sel = None,
                                     !.lane = FallbackBackends(w.elig)])
                /\ UNCHANGED <<store, fresh>>
           ELSE QueueOrFail(t, w.id, w.sel, w.want, "circuit-open")
        /\ UNCHANGED <<runners, tail, call, sweep, queue>>

\* Defect: the refused backend stays in the lane.
DenyRateLimitedKeepsLane(t) ==
    /\ At(t, "admit")
    /\ "rate-limited" \in Denials
    /\ ReleaseSlot(worker[t].pool, worker[t].sel)
    /\ Goto(t, [worker[t] EXCEPT !.pc = "reserve", !.want = None, !.sel = None])
    /\ UNCHANGED <<store, runners, fresh, tail, call, sweep, queue>>

\* The permits of the selected backend ran out: the slot is given back and the
\* rest of the lane is tried, whether the request was pinned or not.
DenyRateLimited(t) ==
    LET w == worker[t]
        rest == IF LeavesARC(w) THEN FallbackBackends(w.elig) ELSE w.lane \ {w.sel}
    IN  /\ At(t, "admit")
        /\ "rate-limited" \in Denials
        /\ ReleaseSlot(w.pool, w.sel)
        /\ IF rest # {}
           THEN Goto(t, [w EXCEPT !.pc = "reserve", !.want = None, !.sel = None, !.lane = rest])
           ELSE Fail(t, "rate-limited")
        /\ UNCHANGED <<store, runners, fresh, tail, call, sweep, queue>>

\* Defect: newID hands out the same id again.
SaveReservedSharesId(t) ==
    LET w == worker[t]
        i == IF t = Queue THEN w.id ELSE CHOOSE x \in fresh : TRUE
    IN  /\ At(t, "save")
        /\ t # Queue => fresh # {}
        /\ CapacityAllowed(store, i, w.pool, w.sel, MaxRunners[w.pool][w.sel],
                           BackendLimit(w.pool, w.sel))
        /\ store' = Save(store, i, RecordOf(w, "reserved", w.sel, w.want))
        /\ Goto(t, [w EXCEPT !.pc = "provision", !.id = i])
        /\ UNCHANGED <<active, runners, fresh, tail, call, sweep, queue>>

\* SaveIfCapacity succeeds: the allocation is reserved.
SaveReserved(t) ==
    LET w == worker[t]
        i == IF t = Queue THEN w.id ELSE CHOOSE x \in fresh : TRUE
    IN  /\ At(t, "save")
        /\ t # Queue => fresh # {}
        /\ CapacityAllowed(store, i, w.pool, w.sel, MaxRunners[w.pool][w.sel],
                           BackendLimit(w.pool, w.sel))
        /\ store' = Save(store, i, RecordOf(w, "reserved", w.sel, w.want))
        /\ fresh' = fresh \ {i}
        /\ Goto(t, [w EXCEPT !.pc = "provision", !.id = i])
        /\ UNCHANGED <<active, runners, tail, call, sweep, queue>>

\* SaveIfCapacity refuses: the slot is given back.
SaveRefused(t) ==
    LET w == worker[t]
        i == IF t = Queue THEN w.id ELSE CHOOSE x \in fresh : TRUE
    IN  /\ At(t, "save")
        /\ t # Queue => fresh # {}
        /\ ~CapacityAllowed(store, i, w.pool, w.sel, MaxRunners[w.pool][w.sel],
                            BackendLimit(w.pool, w.sel))
        /\ SetTail(t, ReleaseTail(w.id, w.pool, w.sel))
        /\ Fail(t, "no-capacity")
        /\ UNCHANGED <<store, active, runners, fresh, call, sweep, queue>>

\* The registry has no implementation of the backend: the slot is given back,
\* then the record is marked failed.
BackendMissing(t) ==
    LET w == worker[t]
    IN  /\ At(t, "provision")
        /\ w.sel \notin Registered
        /\ SetTail(t, ReleaseTail(w.id, w.pool, w.sel))
        /\ Goto(t, [w EXCEPT !.pc = "missing"])
        /\ UNCHANGED <<store, active, runners, fresh, call, sweep, queue>>

MarkMissing(t) ==
    /\ At(t, "missing")
    /\ store' = MarkState(store, worker[t].id, "failed")
    /\ Fail(t, "fatal")
    /\ UNCHANGED <<active, runners, fresh, tail, call, sweep, queue>>

\* Provision returns a runner.
ProvisionOK(t) ==
    LET w == worker[t]
    IN  /\ At(t, "provision")
        /\ w.sel \in Registered
        /\ runners' = runners \cup {<<w.id, w.sel>>}
        /\ Goto(t, [w EXCEPT !.pc = "commit"])
        /\ UNCHANGED <<store, active, fresh, tail, call, sweep, queue>>

\* Provision returns an error, and leaves no runner behind.
ProvisionErr(t, kind) ==
    /\ At(t, "provision")
    /\ worker[t].sel \in Registered
    /\ Goto(t, [worker[t] EXCEPT !.pc = "abandon", !.err = kind])
    /\ UNCHANGED <<store, active, runners, fresh, tail, call, sweep, queue>>

\* Defect: Save instead of SaveIfState.
CommitUnchecked(t) ==
    LET w == worker[t]
    IN  /\ At(t, "commit")
        /\ store' = Save(store, w.id, RecordOf(w, "ready", w.sel, w.want))
        /\ Return(t)
        /\ UNCHANGED <<active, runners, fresh, tail, call, sweep, queue>>

\* Defect: the runner of a lost commit is not torn down.
CommitSkipsCleanup(t) ==
    LET w == worker[t]
    IN  /\ At(t, "commit")
        /\ IF store[w.id].state = "reserved"
           THEN store' = Save(store, w.id, RecordOf(w, "ready", w.sel, w.want)) /\ Return(t)
           ELSE Fail(t, "fatal") /\ UNCHANGED store
        /\ UNCHANGED <<active, runners, fresh, tail, call, sweep, queue>>

\* SaveIfState(reserved): the allocation becomes ready, or, when it is no
\* longer reserved, the new runner is torn down and the slot is left to
\* whoever took the reservation.
Commit(t) ==
    LET w == worker[t]
        ready == [RecordOf(w, "ready", w.sel, w.want)
                     EXCEPT !.reg = @ \/ w.sel \in StaticLabel[w.pool]]
    IN  /\ At(t, "commit")
        /\ IF store[w.id].state = "reserved"
           THEN /\ store' = Save(store, w.id, ready)
                /\ Return(t)
                /\ UNCHANGED tail
           ELSE /\ SetTail(t, CleanupTail(w.id, w.pool, w.sel))
                /\ Fail(t, "fatal")
                /\ UNCHANGED store
        /\ UNCHANGED <<active, runners, fresh, call, sweep, queue>>

\* Defect: the slot of the failed reservation is not released.
AbandonKeepsSlot(t) ==
    /\ At(t, "abandon")
    /\ store' = MarkState(store, worker[t].id, "failed")
    /\ Goto(t, [worker[t] EXCEPT !.pc = "retry"])
    /\ UNCHANGED <<active, runners, fresh, tail, call, sweep, queue>>

\* Defect: the slot is released and the record stays reserved.
AbandonKeepsRecord(t) ==
    /\ At(t, "abandon")
    /\ SetTail(t, ReleaseTail(worker[t].id, worker[t].pool, worker[t].sel))
    /\ Goto(t, [worker[t] EXCEPT !.pc = "retry"])
    /\ UNCHANGED <<store, active, runners, fresh, call, sweep, queue>>

\* abandonReservedAllocation: a reservation that is still there is marked
\* failed and its slot released; a terminal record ends the call.
Abandon(t) ==
    LET w == worker[t]
        now == store[w.id]
    IN  /\ At(t, "abandon")
        /\ \/ /\ now.state = "reserved"
              /\ store' = MarkState(store, w.id, "failed")
              /\ SetTail(t, ReleaseTail(w.id, w.pool, w.sel))
              /\ Goto(t, [w EXCEPT !.pc = "retry"])
           \/ /\ IsTerminal(now)
              /\ Fail(t, IF now.state = "canceled" THEN "fatal" ELSE w.err)
              /\ UNCHANGED <<store, tail>>
           \/ /\ now.state # "reserved" /\ ~IsTerminal(now)
              /\ Goto(t, [w EXCEPT !.pc = "retry"])
              /\ UNCHANGED <<store, tail>>
        /\ UNCHANGED <<active, runners, fresh, call, sweep, queue>>

\* What follows a failed Provision.  A provider without capacity, or an
\* unavailable ARC, sends the allocation to other backends: the record of an
\* HTTP request is deleted and the next attempt has a new id.
Reroute(t, rest) ==
    /\ store' = IF t = Queue THEN store ELSE Delete(store, {worker[t].id})
    /\ IF rest # {}
       THEN Goto(t, [worker[t] EXCEPT !.pc = "reserve", !.want = None, !.sel = None,
                                      !.lane = rest, !.err = "none",
                                      !.id = IF t = Queue THEN @ ELSE None])
       ELSE Fail(t, "capacity")
    /\ UNCHANGED fresh

\* Defect: a pinned request is rerouted like any other.
RetryCapacityDropsPin(t) ==
    LET w == worker[t]
    IN  /\ At(t, "retry")
        /\ w.err = "capacity"
        /\ Reroute(t, IF w.sel = ARC THEN FallbackBackends(w.elig) ELSE w.lane \ {w.sel})
        /\ UNCHANGED <<active, runners, tail, call, sweep, queue>>

\* A pinned request is not rerouted when its backend has no capacity.
RetryCapacity(t) ==
    LET w == worker[t]
    IN  /\ At(t, "retry")
        /\ w.err = "capacity"
        /\ Reroute(t, IF w.pin = w.sel THEN {}
                      ELSE IF w.sel = ARC /\ w.pin = None THEN FallbackBackends(w.elig)
                      ELSE w.lane \ {w.sel})
        /\ UNCHANGED <<active, runners, tail, call, sweep, queue>>

RetryARC(t) ==
    LET w == worker[t]
    IN  /\ At(t, "retry")
        /\ w.err \in ARCUnavailable /\ LeavesARC(w)
        /\ Reroute(t, FallbackBackends(w.elig))
        /\ UNCHANGED <<active, runners, tail, call, sweep, queue>>

\* Any other failure is queued under the same id, or returned.
RetryQueue(t) ==
    LET w == worker[t]
    IN  /\ At(t, "retry")
        /\ w.err # "capacity" /\ ~(w.err \in ARCUnavailable /\ LeavesARC(w))
        /\ QueueOrFail(t, w.id, w.sel, w.want, w.err)
        /\ UNCHANGED <<active, runners, tail, call, sweep, queue>>

AllocateStep(t) ==
    \/ \E B \in SUBSET Backend, dropPin \in BOOLEAN : Filter(t, B, dropPin)
    \/ \E kind \in {"circuit-open", "fatal"} : FilterRejects(t, kind)
    \/ \E b \in Backend : Reserve(t, b)
    \/ Saturated(t) \/ NoCapacity(t)
    \/ Admit(t) \/ DenyCircuitOpen(t) \/ DenyRateLimited(t)
    \/ SaveReserved(t) \/ SaveRefused(t)
    \/ BackendMissing(t) \/ MarkMissing(t)
    \/ ProvisionOK(t) \/ Commit(t)
    \/ \E kind \in FailureKinds : ProvisionErr(t, kind)
    \/ Abandon(t) \/ RetryCapacity(t) \/ RetryARC(t) \/ RetryQueue(t)

-----------------------------------------------------------------------------
(***************************************************************************)
(* The calls of clients and runners.                                       *)
(***************************************************************************)

\* Cancel reads the record and marks it canceled with a compare-and-swap,
\* again until the swap succeeds: one atomic step.  A terminal record is left
\* alone.
Cancel(c, i) ==
    /\ tail[c] = NoTail
    /\ store[i].state # "absent" /\ ~IsTerminal(store[i])
    /\ store' = MarkState(store, i, "canceled")
    /\ SetTail(c, ReleaseTail(i, store[i].pool, store[i].backend))
    /\ UNCHANGED <<active, runners, fresh, worker, call, sweep, queue>>

\* Complete and Claim read the record, and return when it is terminal.
ReadForWrite(c, i, to) ==
    /\ call[c] = NoCall
    /\ store[i].state # "absent" /\ ~IsTerminal(store[i])
    /\ call' = [call EXCEPT ![c] = [id |-> i, rec |-> store[i], to |-> to]]
    /\ UNCHANGED <<store, active, runners, fresh, worker, tail, sweep, queue>>

CompleteRead(c, i, to) == tail[c] = NoTail /\ ReadForWrite(c, i, to)

\* Complete then marks the record whatever its state has become, and releases
\* the slot of the record it read.
CompleteMark(c) ==
    LET i == call[c].id
        old == call[c].rec
    IN  /\ call[c] # NoCall
        /\ store' = MarkState(store, i, call[c].to)
        /\ SetTail(c, IF store[i].state # "absent" /\ IsActive(old)
                      THEN ReleaseTail(i, old.pool, old.backend)
                      ELSE NoTail)
        /\ call' = [call EXCEPT ![c] = NoCall]
        /\ UNCHANGED <<active, runners, fresh, worker, sweep, queue>>

ClaimRead(c, i, kind) == ReadForWrite(c, i, kind)

\* Claim and Register write back the record they read, with the mark set.
ClaimSave(c) ==
    /\ call[c] # NoCall
    /\ store' = Save(store, call[c].id,
                     [call[c].rec EXCEPT !.reg = TRUE,
                                         !.claim = @ \/ call[c].to = "claim"])
    /\ call' = [call EXCEPT ![c] = NoCall]
    /\ UNCHANGED <<active, runners, fresh, worker, tail, sweep, queue>>

-----------------------------------------------------------------------------
(***************************************************************************)
(* SweepExpired: the reaper works through a snapshot of the store.         *)
(***************************************************************************)
SweepList ==
    /\ ~sweep.running
    /\ tail[Sweep] = NoTail
    /\ sweep' = [running |-> TRUE,
                 todo |-> [i \in Id |-> IF IsActive(store[i]) \/ store[i].state = "quarantined"
                                        THEN store[i] ELSE NoRecord]]
    /\ UNCHANGED <<store, active, runners, fresh, worker, tail, call, queue>>

Visit(i, from) ==
    /\ sweep.running
    /\ tail[Sweep] = NoTail
    /\ sweep.todo[i].state \in from
    /\ sweep' = [sweep EXCEPT !.todo[i] = NoRecord]

\* Defect: the reaper tears the runner down and forgets the slot.
ReapKeepsSlot(i, to) ==
    /\ store' = MarkState(store, i, to)
    /\ SetTail(Sweep, CleanupTail(i, sweep.todo[i].pool, sweep.todo[i].backend))
    /\ UNCHANGED <<active, runners, fresh, worker, call, queue>>

\* The reaper marks the record whatever its state has become, and releases
\* the slot of the record in its snapshot.
Reap(i, to) ==
    /\ store' = MarkState(store, i, to)
    /\ SetTail(Sweep, IF store[i].state # "absent"
                      THEN ReleaseTail(i, sweep.todo[i].pool, sweep.todo[i].backend)
                      ELSE NoTail)
    /\ UNCHANGED <<active, runners, fresh, worker, call, queue>>

\* The registration timeout passed: a static label must have been claimed, any
\* other runner registered or claimed.
SweepUnregistered(i) ==
    LET old == sweep.todo[i]
    IN  /\ Visit(i, ActiveStates)
        /\ ~old.claim
        /\ old.reg => old.backend \in StaticLabel[old.pool]
        /\ Reap(i, "expired")

\* Defect: a claimed allocation is never reaped.
SweepJobTimeoutUnclaimed(i) ==
    /\ Visit(i, ActiveStates)
    /\ ~sweep.todo[i].claim
    /\ Reap(i, "expired")

\* The job timeout passed without a completion.
SweepJobTimeout(i) ==
    /\ Visit(i, ActiveStates)
    /\ Reap(i, IF OrphanCleanup THEN "quarantined" ELSE "expired")

\* The quarantine is over: the cleanup is tried once more.
SweepQuarantine(i) ==
    /\ Visit(i, {"quarantined"})
    /\ store' = MarkState(store, i, "expired")
    /\ SetTail(Sweep, IF store[i].state # "absent"
                      THEN CleanupTail(i, sweep.todo[i].pool, sweep.todo[i].backend)
                      ELSE NoTail)
    /\ UNCHANGED <<active, runners, fresh, worker, call, queue>>

\* No deadline of the record passed.
SweepKeep(i) ==
    /\ Visit(i, ActiveStates \cup {"quarantined"})
    /\ UNCHANGED <<store, active, runners, fresh, worker, tail, call, queue>>

\* pruneFinishedAllocations drops the terminal records past the retention.
SweepPrune(D) ==
    /\ sweep.running
    /\ tail[Sweep] = NoTail
    /\ sweep.todo = NoTodo
    /\ D \subseteq Prunable(store)
    /\ store' = Delete(store, D)
    /\ sweep' = [sweep EXCEPT !.running = FALSE]
    /\ UNCHANGED <<active, runners, fresh, worker, tail, call, queue>>

SweepStep ==
    \/ SweepList
    \/ \E i \in Id : SweepUnregistered(i) \/ SweepJobTimeout(i) \/ SweepQuarantine(i) \/ SweepKeep(i)
    \/ \E D \in SUBSET Id : SweepPrune(D)

-----------------------------------------------------------------------------
(***************************************************************************)
(* ReconcileQueue: the queue loop works through a snapshot of the pending  *)
(* records, and runs allocateNow for the ones whose retry is due.          *)
(***************************************************************************)
QueueIdle == At(Queue, "idle") /\ QueueEnabled

QueueList ==
    /\ QueueIdle
    /\ queue = NoTodo
    /\ \E i \in Id : store[i].state = "pending"
    /\ queue' = [i \in Id |-> IF store[i].state = "pending" THEN store[i] ELSE NoRecord]
    /\ UNCHANGED <<store, active, runners, fresh, worker, tail, call, sweep>>

QueueVisit(i) ==
    /\ QueueIdle
    /\ queue[i] # NoRecord
    /\ queue' = [queue EXCEPT ![i] = NoRecord]

\* retry_after has not passed.
QueueKeep(i) ==
    /\ QueueVisit(i)
    /\ UNCHANGED <<store, active, runners, fresh, worker, tail, call, sweep>>

\* The pending allocation expired, or its attempts are used up.
QueueDrop(i, to) ==
    /\ QueueVisit(i)
    /\ to = "failed" => queue[i].attempts >= MaxAttempts
    /\ store' = MarkState(store, i, to)
    /\ UNCHANGED <<active, runners, fresh, worker, tail, call, sweep>>

\* Defect: the attempt is not counted.
QueueRetryUncounted(i) ==
    /\ QueueVisit(i)
    /\ queue[i].attempts < MaxAttempts
    /\ store' = Save(store, i, queue[i])
    /\ Goto(Queue, [NoWork("filter") EXCEPT !.pool = queue[i].pool, !.pin = queue[i].pin,
                                            !.id = i, !.snap = queue[i]])
    /\ UNCHANGED <<active, runners, fresh, tail, call, sweep>>

\* One more attempt: the snapshot is written back and allocateNow runs on it.
QueueRetry(i) ==
    LET old == queue[i]
        new == [old EXCEPT !.attempts = @ + 1]
    IN  /\ QueueVisit(i)
        /\ old.attempts < MaxAttempts
        /\ store' = Save(store, i, new)
        /\ Goto(Queue, [NoWork("filter") EXCEPT !.pool = old.pool, !.pin = old.pin,
                                                !.id = i, !.snap = new])
        /\ UNCHANGED <<active, runners, fresh, tail, call, sweep>>

\* allocateNow returned an error: the snapshot is queued again, or the record
\* is marked failed whatever its state has become.
QueueExit ==
    LET w == worker[Queue]
    IN  /\ At(Queue, "exit")
        /\ store' = IF CanQueue(w, w.err)
                    THEN Save(store, w.id, w.snap)
                    ELSE MarkState(store, w.id, "failed")
        /\ Goto(Queue, NoWork("idle"))
        /\ UNCHANGED <<active, runners, fresh, tail, call, sweep, queue>>

QueueStep ==
    \/ QueueList
    \/ \E i \in Id : QueueKeep(i) \/ QueueRetry(i) \/ \E to \in {"expired", "failed"} : QueueDrop(i, to)
    \/ QueueExit
    \/ AllocateStep(Queue)

-----------------------------------------------------------------------------
TailStep(a) == Release(a) \/ Cleanup(a) \/ CleanupFails(a)

Next ==
    \/ \E t \in Requests :
          \/ \E p \in Pool : \E pin \in Pins \cap (Configured[p] \cup {None}) : Allocate(t, p, pin)
          \/ AllocateStep(t)
    \/ \E c \in Cancels, i \in Id : Cancel(c, i)
    \/ \E c \in Completes :
          \/ \E i \in Id, to \in CompletionStates : CompleteRead(c, i, to)
          \/ CompleteMark(c)
    \/ \E c \in Claims :
          \/ \E i \in Id, kind \in {"claim", "register"} : ClaimRead(c, i, kind)
          \/ ClaimSave(c)
    \/ SweepStep
    \/ QueueStep
    \/ \E a \in Threads : TailStep(a)

Spec == Init /\ [][Next]_vars

-----------------------------------------------------------------------------
(***************************************************************************)
(* Safety.                                                                 *)
(***************************************************************************)

\* The limits of the configuration hold in the store: at most maxRunners
\* reserved or ready allocations of a pool on a backend, and at most
\* backendLimits of all pools together.  The scheduler does not ensure this
\* (a slot can be released twice); the check inside SaveIfCapacity does.
StoreCapacity ==
    /\ \A p \in Pool, b \in Backend : Cardinality(Occupants(store, p, b)) <= MaxRunners[p][b]
    /\ \A b \in Backend :
          BrokerLimit[b] > 0 => Cardinality(BackendOccupants(store, b)) <= BrokerLimit[b]

\* Whoever answers for a slot of the scheduler: an accounted record, a thread
\* between Reserve and SaveIfCapacity, a thread that is about to release.
Holding(p, b) ==
    {t \in Workers : worker[t].pc \in {"admit", "save"} /\ worker[t].pool = p /\ worker[t].sel = b}

Releasing(p, b) ==
    {a \in Threads : tail[a].phase = "release" /\ tail[a].pool = p /\ tail[a].backend = b}

\* No slot of the scheduler is lost: every one that is taken is answered for,
\* across all ways an allocation can end (abandoned provision, cancel,
\* completion, reaper, refused save, missing backend).
NoSlotLeak ==
    \A p \in Pool, b \in Backend :
        active[<<p, b>>] <= Cardinality(Occupants(store, p, b)) + Cardinality(Holding(p, b))
                        + Cardinality(Releasing(p, b))

\* No runner is forgotten at a provider: it belongs to an accounted record, or
\* a thread is about to commit it or to tear it down.
NoRunnerLeak ==
    \A x \in runners :
        \/ IsAccounted(store[x[1]]) /\ store[x[1]].backend = x[2]
        \/ \E t \in Workers : worker[t].pc = "commit" /\ worker[t].id = x[1] /\ worker[t].sel = x[2]
        \/ \E a \in Threads : tail[a].phase # "none" /\ tail[a].id = x[1] /\ tail[a].backend = x[2]

\* Where a thread in allocateNow still decides the fate of its reservation.
Deciding == {"provision", "missing", "commit", "abandon"}

\* A reserved record has a thread that still decides its fate: no allocation
\* is stranded in reserved, with a slot taken and nobody provisioning.
ReservedHasOwner ==
    \A i \in Id : store[i].state = "reserved" =>
        \E t \in Workers : worker[t].id = i /\ worker[t].pc \in Deciding

\* An allocation id has one owner: two threads in allocateNow never work on the
\* same id, and a record that waits in the queue, or in the snapshot of the
\* queue loop, is out of the hands of the request that created it.
OneOwner ==
    /\ \A t, u \in Workers : worker[t].id # None /\ worker[t].id = worker[u].id => t = u
    /\ \A t \in Workers : worker[t].id \notin fresh
    /\ \A i \in Id : store[i].state = "pending" \/ queue[i] # NoRecord =>
          i \notin fresh /\ \A t \in Requests : worker[t].id # i

\* A reservation is the one its thread made: while the record of a thread is
\* reserved, it names the pool and the backend whose slot the thread took.
OwnReservation ==
    \A t \in Workers : LET w == worker[t] IN
        w.pc \in Deciding /\ store[w.id].state = "reserved" =>
            store[w.id].pool = w.pool /\ store[w.id].backend = w.sel

\* A pin is kept: whatever a provider refuses, a request that names a backend
\* takes no slot anywhere else.  Only a rate limit may drop the pin.
PinHonoured ==
    "rate-limited" \notin Denials =>
        \A t \in Workers : worker[t].pin # None /\ worker[t].sel # None =>
            worker[t].sel = worker[t].pin

\* A finished allocation stays finished: no step makes a terminal record
\* pending, reserved or ready again; at most it is renamed to another terminal
\* state or pruned.
NeverRevived ==
    [][\A i \in Id : IsTerminal(store[i]) =>
          IsTerminal(store'[i]) \/ store'[i].state = "absent"]_vars

(***************************************************************************)
(* Refinement: the records in an accounted state are the slots in use.     *)
(***************************************************************************)
SlotsInUse ==
    [i \in Id |-> IF IsAccounted(store[i]) THEN <<store[i].pool, store[i].backend>> ELSE None]

Abstract == INSTANCE CapacityPool WITH slot <- SlotsInUse

\* The broker implements the capacity pool: whatever the threads do, a record
\* enters an accounted state only while there is room under both limits, and
\* keeps its pool and backend until it leaves it.
ImplementsCapacityPool == Abstract!PoolSpec

(***************************************************************************)
(* Liveness.  Every thread that has started keeps running: calls of        *)
(* backends return (they carry a deadline), goroutines are scheduled.  The *)
(* reaper runs every 30 seconds.  A deadline passes, and a reaper that     *)
(* meets the same active record again and again finds it overdue at last;  *)
(* so does the queue loop with retry_after of the same pending record.     *)
(***************************************************************************)
Fairness ==
    /\ \A t \in Requests : WF_vars(AllocateStep(t))
    /\ WF_vars(QueueStep)
    /\ \A c \in Completes : WF_vars(CompleteMark(c))
    /\ \A c \in Claims : WF_vars(ClaimSave(c))
    /\ \A a \in Threads : WF_vars(TailStep(a))
    /\ WF_vars(SweepStep)
    /\ \A i \in Id : SF_vars(SweepJobTimeout(i))
    /\ \A i \in Id : SF_vars(QueueRetry(i) \/ QueueDrop(i, "failed"))

FairSpec == Spec /\ Fairness

\* A request that has started is answered: rerouting from backend to backend
\* comes to an end.
RequestsAnswered ==
    \A t \in Requests : worker[t].pc = "filter" ~> worker[t].pc = "done"

\* Capacity comes back: once the requests are over, every slot is free and
\* every runner is gone, although no job ever reports its completion.
CapacityComesBack ==
    <>[](runners = {} /\ \A p \in Pool, b \in Backend : active[<<p, b>>] = 0)

\* The queue drains: retries are bounded, so no allocation is pending for ever,
\* even when stale snapshots of the queue loop write canceled ones back.
QueueSettles ==
    <>[](\A i \in Id : store[i].state # "pending")
=============================================================================
