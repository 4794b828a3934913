--------------------------- MODULE WorkflowDemand ---------------------------
(***************************************************************************)
(* Workflow-job demand: what the broker does with the queued, in_progress  *)
(* and completed events of GitHub workflow jobs.                            *)
(* (src/internal/api/service_workflow_job.go, workflow_job_retry.go and the *)
(* managed azure-vm driver src/internal/backend/azurevm/managed.go.)        *)
(*                                                                         *)
(* A queued event asks for a runner; which job that runner then executes is *)
(* GitHub's choice, because runners share their labels.  So an allocation   *)
(* has an ORIGIN (the job that asked for it) and a BINDING (the job its     *)
(* runner was seen to execute), and only the binding may release a runner.  *)
(*                                                                         *)
(* Each replica runs one such operation at a time: workflowJobMu is held    *)
(* from the first read to the last write.  The queue loop, the reaper, the  *)
(* other replica and GitHub itself take steps in between.                   *)
(***************************************************************************)
EXTENDS Naturals, FiniteSets

CONSTANTS
    Jobs,               \* GitHub workflow jobs
    Allocs,             \* allocation ids, in the order the broker draws them
    Workers,            \* persistent azure-vm workers, whose names are reused
    ArcRunner,          \* a runner of the ARC scale set, unknown to the broker
    ArcLabel,           \* the label the broker records for an ARC allocation
    Replicas,           \* broker processes
    None,
    Worlds,             \* the deployments, with the faults each one meets:
                        \* [replicas, jobs, drivers, postgres, loops, draws,
                        \*  events, losses, redeliveries, crashes]
    MaxJobAllocations   \* maxWorkflowJobAllocations

ASSUME DemandAssumption ==
    /\ Allocs \subseteq Nat
    /\ IsFiniteSet(Allocs)
    /\ MaxJobAllocations \in Nat \ {0}
    /\ None \notin Jobs \cup Allocs \cup Workers \cup {ArcRunner, ArcLabel}
    /\ Allocs \cap (Workers \cup {ArcRunner, ArcLabel}) = {}
    /\ ArcLabel \notin Workers \cup {ArcRunner}
    /\ IsFiniteSet(Replicas)
    /\ \A w \in Worlds :
         /\ w.replicas \subseteq Replicas /\ w.jobs \subseteq Jobs
         /\ w.postgres \/ Cardinality(w.replicas) = 1    \* ValidateReplicaSafety

VARIABLES
    world,    \* the deployment, chosen once
    alloc,    \* the store: one record per allocation id
    run,      \* per allocation, the runner (or worker lease) that exists for it
    epoch,    \* per worker, the number of leases it was given
    gh,       \* GitHub's own view of every job
    op,       \* per replica, the operation that holds workflowJobMu
    backoff   \* per replica, jobs whose jobRetries.next has not passed

demandVars == <<world, alloc, run, epoch, gh, op, backoff>>

\* completed, canceled, failed and expired are one state here.
Terminal == {"ended"}
Live == {"pending", "reserved", "ready"}
Absent == {"none", "pruned"}
Names == Allocs \cup Workers \cup {ArcRunner, ArcLabel}

\* lease is runner_lease_started_at, counted in leases of that worker: a job
\* that started in lease n of its worker started at or after lease n.
AllocRecord ==
    [state : Terminal \cup Live \cup Absent, job : Jobs \cup {None},
     bound : Jobs \cup {None}, deferred : BOOLEAN, claimed : BOOLEAN,
     name : Names \cup {None}, lease : Nat]

NoRunner == [name |-> None, lease |-> 0]

NewAlloc(state, j, runner) ==
    [state |-> state, job |-> j, bound |-> None, deferred |-> FALSE, claimed |-> FALSE,
     name |-> runner.name, lease |-> runner.lease]

NoAlloc == NewAlloc("none", None, NoRunner)

IdleOp == [pc |-> "idle", by |-> <<"none", "none">>, job |-> None, act |-> "none",
           retry |-> FALSE, a |-> 0, rec |-> NoAlloc, out |-> "none"]

DemandTypeOK ==
    /\ world \in Worlds
    /\ alloc \in [Allocs -> AllocRecord]
    /\ run \in [Allocs -> [name : Names \cup {None}, lease : Nat]]
    /\ epoch \in [Workers -> Nat]
    /\ gh \in [Jobs -> [status : {"idle", "queued", "in_progress", "completed"},
                        on : Names \cup {None}, started : Nat, bare : BOOLEAN]]
    /\ \A r \in Replicas : /\ op[r].pc \in {"idle", "allocate", "insert", "claim",
                                            "legacy", "bind", "stamp", "bound", "drop",
                                            "conclude", "finalize", "finish", "done"}
                           /\ op[r].rec \in AllocRecord
    /\ backoff \in [Replicas -> SUBSET Jobs]

DemandInit ==
    /\ world \in Worlds
    /\ alloc = [a \in Allocs |-> NoAlloc]
    /\ run = [a \in Allocs |-> NoRunner]
    /\ epoch = [w \in Workers |-> 0]
    /\ gh = [j \in Jobs |-> [status |-> "idle", on |-> None, started |-> 0, bare |-> FALSE]]
    /\ op = [r \in Replicas |-> IdleOp]
    /\ backoff = [r \in Replicas |-> {}]

-----------------------------------------------------------------------------
(* Lookups.  store.List has no order, so a lookup that returns one record   *)
(* of several is the set of the records it may return.                      *)

Present(a) == alloc[a].state \notin Absent
IsTerminal(a) == alloc[a].state \in Terminal

countWorkflowJobAllocations(j) ==
    Cardinality({a \in Allocs : Present(a) /\ alloc[a].job = j})

findByWorkflowJobID(j) ==
    LET mine == {a \in Allocs : Present(a) /\ alloc[a].job = j}
        live == {a \in mine : ~IsTerminal(a)}
    IN  IF live # {} THEN live ELSE mine

\* Defect: the last attempt does not count.
MayReallocateOnceMore(r, j) ==
    /\ countWorkflowJobAllocations(j) <= MaxJobAllocations
    /\ j \notin backoff[r]

\* The job of a retried demand may be replaced when its earlier record ended,
\* it has attempts left and its backoff has passed.
mayReallocateWorkflowJob(r, j) ==
    /\ countWorkflowJobAllocations(j) < MaxJobAllocations
    /\ j \notin backoff[r]

\* The allocation whose runner the event names: same runner name, not bound to
\* another job, and for a reused name a lease that had begun when the job
\* started.  Without a runner only an earlier binding counts.
executionAllocation(j, runner) ==
    LET named == {a \in Allocs : /\ Present(a)
                                 /\ alloc[a].name = runner
                                 /\ alloc[a].bound \in {None, j}
                                 /\ gh[j].started >= alloc[a].lease}
        exact == {a \in named : alloc[a].bound = j}
        newest == {a \in named : \A b \in named : alloc[b].lease <= alloc[a].lease}
        live == {a \in newest : ~IsTerminal(a)}
    IN  IF runner = None THEN {a \in Allocs : Present(a) /\ alloc[a].bound = j}
        ELSE IF exact # {} THEN exact
        ELSE IF live # {} THEN live ELSE newest

legacyARCWorkflowAllocation(a) == alloc[a].name = ArcLabel

-----------------------------------------------------------------------------
(* Runners.  The azure-vm driver leases persistent workers by routing       *)
(* labels; the other drivers create a runner named after its allocation.    *)

Leased(w) == \E a \in Allocs : run[a].name = w
Busy(n) == \E j \in Jobs : gh[j].status = "in_progress" /\ gh[j].on = n

\* What Provision may return: a runner of its own, the lease of an online
\* worker that is neither busy nor leased, or an ARC label that owns nothing.
Runners(a) ==
    (IF "jit" \in world.drivers THEN {[name |-> a, lease |-> 0]} ELSE {})
    \cup (IF "arc" \in world.drivers THEN {[name |-> ArcLabel, lease |-> 0]} ELSE {})
    \cup {[name |-> w, lease |-> epoch[w] + 1] :
              w \in {v \in Workers : "vm" \in world.drivers /\ ~Leased(v) /\ ~Busy(v)}}

\* The labels of a lease go on before Provision returns.
Provision(a, runner) ==
    /\ run' = [run EXCEPT ![a] = runner]
    /\ epoch' = IF runner.name \in Workers
                THEN [epoch EXCEPT ![runner.name] = runner.lease] ELSE epoch

\* Cleanup removes the runner, or only the labels this allocation put on a
\* persistent worker; a job the worker executes goes on.
Cleanup(a) == run' = [run EXCEPT ![a] = NoRunner]

-----------------------------------------------------------------------------
(* The operation of a replica.                                              *)

Done(r, out) == op' = [op EXCEPT ![r].pc = "done", ![r].out = out, ![r].a = 0, ![r].rec = NoAlloc]
Goto(r, pc) == op' = [op EXCEPT ![r].pc = pc]
Hold(r, pc, a) == op' = [op EXCEPT ![r].pc = pc, ![r].a = a, ![r].rec = alloc[a]]

\* The operation of thread `by' for an event takes workflowJobMu.
BeginOp(r, by, j, act, retry) ==
    /\ op[r].pc = "idle"
    /\ op' = [op EXCEPT ![r] =
                [IdleOp EXCEPT !.pc = CASE act = "queued" -> "allocate"
                                        [] act = "in_progress" -> "claim"
                                        [] OTHER -> "conclude",
                               !.by = by, !.job = j, !.act = act, !.retry = retry]]

\* Defect: any earlier record of the job answers a retried demand too.
AllocateCheckNeverReplaces(r) ==
    /\ op[r].pc = "allocate"
    /\ IF findByWorkflowJobID(op[r].job) = {} THEN Goto(r, "insert") ELSE Done(r, "duplicate")
    /\ UNCHANGED <<world, alloc, run, epoch, gh, backoff>>

\* AllocateForWorkflowJob reads the store first.
AllocateCheck(r) ==
    /\ op[r].pc = "allocate"
    /\ LET j == op[r].job IN
         \/ /\ findByWorkflowJobID(j) = {}
            /\ Goto(r, "insert")
         \/ \E a \in findByWorkflowJobID(j) :
              IF ~IsTerminal(a) \/ ~op[r].retry \/ ~mayReallocateWorkflowJob(r, j)
              THEN Done(r, "duplicate")
              ELSE op' = [op EXCEPT ![r].pc = "insert", ![r].a = a, ![r].rec = alloc[a]]
    /\ UNCHANGED <<world, alloc, run, epoch, gh, backoff>>

\* Defect: the table has no unique index on the job.
NoUniqueJobIndex(j) == FALSE

\* The PostgreSQL table has a unique index on workflow_job_id: an insert with
\* the job of any record that is still there, ended or not, is refused.
UniqueJobIndexRefuses(j) == world.postgres /\ countWorkflowJobAllocations(j) > 0

FreshAlloc(a) ==
    /\ alloc[a].state = "none" /\ a <= world.draws
    /\ \A b \in Allocs : alloc[b].state = "none" => a <= b

\* Allocate: refused by the store or by a policy, provisioned, left pending
\* for want of capacity, or failed at the provider (which leaves a record).
\* A replaced record has its job's backoff started.
AllocateInsert(r) ==
    /\ op[r].pc = "insert"
    /\ LET j == op[r].job
           again == op[r].rec # NoAlloc
           noted == IF again THEN [backoff EXCEPT ![r] = @ \cup {j}] ELSE backoff
       IN  \/ /\ Done(r, "error")
              /\ UNCHANGED <<alloc, run, epoch, backoff>>
           \/ \E a \in Allocs :
                /\ FreshAlloc(a)
                /\ ~UniqueJobIndexRefuses(j)
                /\ \/ \E runner \in Runners(a) :
                        /\ alloc' = [alloc EXCEPT ![a] = NewAlloc("ready", j, runner)]
                        /\ Provision(a, runner)
                        /\ backoff' = noted
                        /\ Done(r, "ok")
                   \/ /\ alloc' = [alloc EXCEPT ![a] = NewAlloc("pending", j, NoRunner)]
                      /\ backoff' = noted
                      /\ Done(r, "ok")
                      /\ UNCHANGED <<run, epoch>>
                   \/ /\ alloc' = [alloc EXCEPT ![a] = NewAlloc("ended", j, NoRunner)]
                      /\ Done(r, "error")
                      /\ UNCHANGED <<run, epoch, backoff>>
    /\ UNCHANGED <<world, gh>>

\* ClaimWorkflowJob resolves the runner.  A persistent worker that serves a
\* job outside its lease makes a pending demand of that job superfluous.
ClaimFind(r) ==
    /\ op[r].pc = "claim"
    /\ LET j == op[r].job
           found == executionAllocation(j, gh[j].on)
           waiting == {a \in findByWorkflowJobID(j) : alloc[a].state = "pending"}
       IN  \/ \E a \in found : IF IsTerminal(a) THEN Done(r, "ok") ELSE Hold(r, "bind", a)
           \/ /\ found = {}
              /\ IF gh[j].on \in Workers /\ waiting # {}
                 THEN \E a \in waiting : Hold(r, "drop", a)
                 ELSE Goto(r, "legacy")
    /\ UNCHANGED <<world, alloc, run, epoch, gh, backoff>>

\* ARC owns no runner resource: its allocation is claimed by its origin.
ClaimLegacy(r) ==
    /\ op[r].pc = "legacy"
    /\ LET origins == findByWorkflowJobID(op[r].job) IN
         \/ origins = {} /\ Done(r, "unknown")
         \/ \E a \in origins :
              IF ~legacyARCWorkflowAllocation(a) THEN Done(r, "unknown")
              ELSE IF IsTerminal(a) THEN Done(r, "ok") ELSE Hold(r, "bind", a)
    /\ UNCHANGED <<world, alloc, run, epoch, gh, backoff>>

\* cancelPendingWorkflowDemand: a compare-and-set from pending, so a record the
\* queue loop has reserved meanwhile keeps its runner.
cancelPendingWorkflowDemand(a) ==
    IF alloc[a].state = "pending"
    THEN alloc' = [alloc EXCEPT ![a].state = "ended"]
    ELSE UNCHANGED alloc

DropPending(r) ==
    /\ op[r].pc = "drop"
    /\ cancelPendingWorkflowDemand(op[r].a)
    /\ IF alloc[op[r].a].state = "pending" \/ (op[r].act = "completed" /\ Present(op[r].a))
       THEN Done(r, "ok")
       ELSE IF op[r].act = "completed" THEN Done(r, "unknown") ELSE Goto(r, "legacy")
    /\ UNCHANGED <<world, run, epoch, gh, backoff>>

\* SaveIfState writes the whole record that was read earlier, changed, if the
\* state is still the one that was read: whatever else changed is overwritten.
SaveIfState(r, rec, next) ==
    IF alloc[op[r].a].state = rec.state
    THEN /\ alloc' = [alloc EXCEPT ![op[r].a] = rec]
         /\ op' = [op EXCEPT ![r].pc = next, ![r].rec = rec]
    ELSE /\ Done(r, "error")
         /\ UNCHANGED alloc

\* bindWorkflowExecution; a binding that is there already is not written.
BindExecution(r) ==
    /\ op[r].pc = "bind"
    /\ LET next == IF op[r].act = "completed" THEN "bound" ELSE "stamp" IN
         IF op[r].rec.bound = op[r].job
         THEN Goto(r, next) /\ UNCHANGED alloc
         ELSE SaveIfState(r, [op[r].rec EXCEPT !.bound = op[r].job], next)
    /\ UNCHANGED <<world, run, epoch, gh, backoff>>

\* A claim also stamps ClaimedAt and RegisteredAt.
StampClaim(r) ==
    /\ op[r].pc = "stamp"
    /\ SaveIfState(r, [op[r].rec EXCEPT !.claimed = TRUE], "bound")
    /\ UNCHANGED <<world, run, epoch, gh, backoff>>

\* suppressSurplusDemand: the job runs on a runner launched for another job
\* that has already concluded, so its own pending demand is superfluous.
Surplus(r) ==
    {o \in findByWorkflowJobID(op[r].job) :
        /\ op[r].rec.job # op[r].job
        /\ op[r].rec.deferred
        /\ o # op[r].a
        /\ alloc[o].state = "pending"}

\* Defect: a claim does not look for a conclusion that came first.
AfterBindForgetsConclusion(r) ==
    /\ op[r].pc = "bound"
    /\ IF op[r].act = "completed" THEN Goto(r, "finish") ELSE Done(r, "ok")
    /\ UNCHANGED <<world, alloc, run, epoch, gh, backoff>>

\* After the binding a completion finishes the allocation; a claim does so
\* when the job's own demand already holds a deferred conclusion.
AfterBind(r) ==
    /\ op[r].pc = "bound"
    /\ IF Surplus(r) = {} THEN UNCHANGED alloc
       ELSE \E o \in Surplus(r) : cancelPendingWorkflowDemand(o)
    /\ \/ /\ op[r].act = "completed"
          /\ Goto(r, "finish")
       \/ /\ op[r].act = "in_progress"
          /\ \/ \E o \in findByWorkflowJobID(op[r].job) :
                  IF alloc[o].deferred THEN Goto(r, "finish") ELSE Done(r, "ok")
             \/ findByWorkflowJobID(op[r].job) = {} /\ Done(r, "ok")
    /\ UNCHANGED <<world, run, epoch, gh, backoff>>

\* FinalizeWorkflowJob first stores the conclusion on the demand's own record.
RecordConclusion(r) ==
    /\ op[r].pc = "conclude"
    /\ LET origins == findByWorkflowJobID(op[r].job) IN
         IF origins = {} THEN UNCHANGED alloc
         ELSE \E a \in origins : alloc' = [alloc EXCEPT ![a].deferred = TRUE]
    /\ Goto(r, "finalize")
    /\ UNCHANGED <<world, run, epoch, gh, backoff>>

\* Defect: without a runner in the event the job's own demand is finished.
FinalizeFindByOrigin(r) ==
    /\ op[r].pc = "finalize"
    /\ LET j == op[r].job
           found == IF gh[j].bare THEN {} ELSE executionAllocation(j, gh[j].on)
           origins == findByWorkflowJobID(j)
       IN  \/ \E a \in found : IF IsTerminal(a) THEN Done(r, "ok") ELSE Hold(r, "bind", a)
           \/ found = {} /\ origins = {} /\ Done(r, "unknown")
           \/ \E a \in origins : found = {} /\ Hold(r, "finish", a)
    /\ UNCHANGED <<world, alloc, run, epoch, gh, backoff>>

\* ... and then looks for the runner to release: the one the event names or an
\* earlier binding.  A named runner the broker does not know is not its own.
\* Without a runner a pending demand is cancelled, an ARC allocation finished,
\* and a launched runner left for the job that GitHub gives it.
FinalizeFind(r) ==
    /\ op[r].pc = "finalize"
    /\ LET j == op[r].job
           runner == IF gh[j].bare THEN None ELSE gh[j].on
           found == executionAllocation(j, runner)
           origins == findByWorkflowJobID(j)
       IN  \/ \E a \in found : IF IsTerminal(a) THEN Done(r, "ok") ELSE Hold(r, "bind", a)
           \/ found = {} /\ (runner # None \/ origins = {}) /\ Done(r, "unknown")
           \/ /\ found = {} /\ runner = None
              /\ \E a \in origins :
                   \/ IsTerminal(a) /\ Done(r, "ok")
                   \/ alloc[a].state = "pending" /\ Hold(r, "drop", a)
                   \/ /\ alloc[a].state \in {"reserved", "ready"}
                      /\ IF legacyARCWorkflowAllocation(a) THEN Hold(r, "finish", a)
                         ELSE Done(r, "ok")
    /\ UNCHANGED <<world, alloc, run, epoch, gh, backoff>>

\* finishWorkflowExecution: Cancel, or Complete when the job succeeded.  Both
\* leave a record that has ended already alone.
FinishExecution(r) ==
    /\ op[r].pc = "finish"
    /\ IF alloc[op[r].a].state \in Live
       THEN /\ alloc' = [alloc EXCEPT ![op[r].a].state = "ended"]
            /\ Cleanup(op[r].a)
       ELSE UNCHANGED <<alloc, run>>
    /\ Done(r, "ok")
    /\ UNCHANGED <<world, epoch, gh, backoff>>

OpStep(r) ==
    \/ AllocateCheck(r)
    \/ AllocateInsert(r)
    \/ ClaimFind(r)
    \/ ClaimLegacy(r)
    \/ DropPending(r)
    \/ BindExecution(r)
    \/ StampClaim(r)
    \/ AfterBind(r)
    \/ RecordConclusion(r)
    \/ FinalizeFind(r)
    \/ FinishExecution(r)

\* The backoff of a job passes.
BackoffPasses(r, j) ==
    /\ j \in backoff[r]
    /\ backoff' = [backoff EXCEPT ![r] = @ \ {j}]
    /\ UNCHANGED <<world, alloc, run, epoch, gh, op>>

-----------------------------------------------------------------------------
(* The rest of the broker, as far as it touches these records.  The loops   *)
(* of a world are the ones whose tick comes while its events are handled.   *)

\* The queue loop turns a pending record reserved ...
QueueReserve(a) ==
    /\ "queue" \in world.loops
    /\ alloc[a].state = "pending"
    /\ alloc' = [alloc EXCEPT ![a].state = "reserved"]
    /\ UNCHANGED <<world, run, epoch, gh, op, backoff>>

\* ... launches its runner, which may register and take a job at once ...
QueueLaunch(a) ==
    /\ alloc[a].state = "reserved"
    /\ run[a] = NoRunner
    /\ \E runner \in Runners(a) : Provision(a, runner)
    /\ UNCHANGED <<world, alloc, gh, op, backoff>>

\* ... and commits it: only now does the record name the runner.
QueueCommit(a) ==
    /\ alloc[a].state = "reserved"
    /\ run[a] # NoRunner
    /\ alloc' = [alloc EXCEPT ![a].state = "ready", ![a].name = run[a].name,
                              ![a].lease = run[a].lease]
    /\ UNCHANGED <<world, run, epoch, gh, op, backoff>>

\* The reaper ends a ready allocation that nothing claimed in time.
ExpireUnclaimed(a) ==
    /\ "reap" \in world.loops
    /\ alloc[a].state = "ready"
    /\ ~alloc[a].claimed
    /\ alloc' = [alloc EXCEPT ![a].state = "ended"]
    /\ Cleanup(a)
    /\ UNCHANGED <<world, epoch, gh, op, backoff>>

\* Retention removes ended records.
Prune(a) ==
    /\ "prune" \in world.loops
    /\ IsTerminal(a)
    /\ alloc' = [alloc EXCEPT ![a] = NewAlloc("pruned", None, NoRunner)]
    /\ UNCHANGED <<world, run, epoch, gh, op, backoff>>

\* The runners GitHub may give a queued job to: any idle one with its labels.
OnlineRunners ==
    {w \in Workers : Leased(w)}
    \cup {a \in Allocs : run[a].name = a /\ \A j \in Jobs : gh[j].on # a}
    \cup (IF "arc" \in world.drivers THEN {ArcRunner} ELSE {})

GitHubQueues(j) ==
    /\ j \in world.jobs
    /\ gh[j].status = "idle"
    /\ gh' = [gh EXCEPT ![j].status = "queued"]

GitHubAssigns(j) ==
    /\ gh[j].status = "queued"
    /\ \E n \in OnlineRunners :
         /\ ~Busy(n)
         /\ gh' = [gh EXCEPT ![j].status = "in_progress", ![j].on = n,
                             ![j].started = IF n \in Workers THEN epoch[n] ELSE 0]

\* A job ends, or is cancelled before any runner took it.  The completed
\* event names the runner, or does not.
GitHubCompletes(j) ==
    /\ gh[j].status \in {"queued", "in_progress"}
    /\ \E bare \in IF gh[j].on = None THEN {TRUE} ELSE BOOLEAN :
         gh' = [gh EXCEPT ![j].status = "completed", ![j].bare = bare]

=============================================================================
