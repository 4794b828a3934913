--------------------------- MODULE WorkflowIntake ---------------------------
(***************************************************************************)
(* The way of a GitHub event into the broker: the HTTP handler, the work    *)
(* channel and its one worker, the shared inbox of the non-leaders, the     *)
(* leader lease and the poll that finds queued jobs again.                  *)
(* (src/internal/api/github_webhook.go, src/internal/store/inbox.go, the    *)
(* inbox and the lease of src/internal/store/postgres.go, and the loops of  *)
(* src/cmd/broker/main.go.)                                                 *)
(*                                                                         *)
(* GitHub does not repeat an event by itself, so one that is acknowledged   *)
(* and then fails is gone; events arrive in any order, on any replica, and  *)
(* may be redelivered by hand.  A replica asks once whether it is leader    *)
(* and then acts, so two replicas may act at the same time.                 *)
(***************************************************************************)
EXTENDS WorkflowDemand, Sequences, SequencesExt

CONSTANTS
    WorkCap,        \* capacity of workCh (256)
    InboxBatch      \* deliveries claimed at a time (50)

ASSUME IntakeAssumption ==
    {WorkCap, InboxBatch} \subseteq Nat \ {0}

VARIABLES
    net,       \* deliveries GitHub has sent and no replica has answered
    workCh,    \* per replica, accepted deliveries waiting for the worker
    guids,     \* per replica, delivery ids in flight or done
    inbox,     \* the shared inbox, in the order of its ids
    locked,    \* inbox deliveries under a claim lease
    leader,    \* holder of the unexpired leader lease
    worker,    \* per replica, the delivery the worker has taken
    batch,     \* per replica and drainer, claimed deliveries not yet handled
    plan,      \* per replica, the job the reconcile pass saw queued
    handled,   \* in_progress and completed events processed without an error
    faults     \* losses, redeliveries and crashes so far

intakeVars == <<net, workCh, guids, inbox, locked, leader, worker, batch, plan,
                handled, faults>>
vars == <<demandVars, intakeVars>>

Acts == {"queued", "in_progress", "completed"}
Deliveries == Jobs \X Acts
Drainers == {"worker", "inbox"}
IdleWorker == [item |-> None, phase |-> "idle"]

TypeOK ==
    /\ DemandTypeOK
    /\ net \subseteq Deliveries
    /\ \A r \in Replicas :
         /\ Range(workCh[r]) \subseteq Deliveries /\ Len(workCh[r]) <= WorkCap
         /\ guids[r] \subseteq Deliveries
         /\ \A t \in Drainers : Range(batch[r][t]) \subseteq Deliveries
         /\ worker[r].item \in Deliveries \cup {None}
    /\ Range(inbox) \subseteq Deliveries /\ locked \subseteq Range(inbox)
    /\ leader \in Replicas \cup {None}
    /\ plan \in [Replicas -> Jobs \cup {None}]
    /\ handled \subseteq Deliveries

Init ==
    /\ DemandInit
    /\ net = {}
    /\ workCh = [r \in Replicas |-> <<>>]
    /\ guids = [r \in Replicas |-> {}]
    /\ inbox = <<>>
    /\ locked = {}
    /\ leader = None
    /\ worker = [r \in Replicas |-> IdleWorker]
    /\ batch = [r \in Replicas |-> [t \in Drainers |-> <<>>]]
    /\ plan = [r \in Replicas |-> None]
    /\ handled = {}
    /\ faults = [lost |-> 0, again |-> 0, crashes |-> 0]

-----------------------------------------------------------------------------
(* GitHub and the network.                                                  *)

Emit(d) ==
    /\ net' = IF d \in world.events THEN net \cup {d} ELSE net
    /\ UNCHANGED <<world, alloc, run, epoch, op, backoff>>
    /\ UNCHANGED <<workCh, guids, inbox, locked, leader, worker, batch, plan, handled, faults>>

GitHubStep(j) ==
    \/ GitHubQueues(j) /\ Emit(<<j, "queued">>)
    \/ GitHubAssigns(j) /\ Emit(<<j, "in_progress">>)
    \/ GitHubCompletes(j) /\ Emit(<<j, "completed">>)

\* No replica answers with success in GitHub's ten seconds.
Lose(d) ==
    /\ d \in net
    /\ faults.lost < world.losses
    /\ net' = net \ {d}
    /\ faults' = [faults EXCEPT !.lost = @ + 1]
    /\ UNCHANGED demandVars
    /\ UNCHANGED <<workCh, guids, inbox, locked, leader, worker, batch, plan, handled>>

Emitted(d) ==
    CASE d[2] = "queued" -> gh[d[1]].status # "idle"
      [] d[2] = "in_progress" -> gh[d[1]].on # None
      [] OTHER -> gh[d[1]].status = "completed"

Redeliver(d) ==
    /\ Emitted(d) /\ d \in world.events \ net
    /\ faults.again < world.redeliveries
    /\ net' = net \cup {d}
    /\ faults' = [faults EXCEPT !.again = @ + 1]
    /\ UNCHANGED demandVars
    /\ UNCHANGED <<workCh, guids, inbox, locked, leader, worker, batch, plan, handled>>

-----------------------------------------------------------------------------
(* The leader lease.                                                        *)

\* TryAcquireLeadership: free, expired or the replica's own.  A broker without
\* leader election is always leader.
TryAcquireLeadership(r) ==
    IF world.postgres THEN leader \in {None, r} /\ leader' = r ELSE UNCHANGED leader

LeaseExpires ==
    /\ leader # None
    /\ leader' = None
    /\ UNCHANGED demandVars
    /\ UNCHANGED <<net, workCh, guids, inbox, locked, worker, batch, plan, handled, faults>>

-----------------------------------------------------------------------------
(* The HTTP handler.                                                        *)

\* The leader claims the delivery id and hands the delivery to its worker; a
\* full channel is refused and the id given back.
Accept(r, d) ==
    /\ TryAcquireLeadership(r)
    /\ IF d \in guids[r] \/ Len(workCh[r]) = WorkCap
       THEN UNCHANGED <<workCh, guids>>
       ELSE /\ workCh' = [workCh EXCEPT ![r] = Append(@, d)]
            /\ guids' = [guids EXCEPT ![r] = @ \cup {d}]
    /\ UNCHANGED inbox

\* Another replica puts it into the shared inbox, where its id is unique.
enqueueForLeader(r, d) ==
    /\ world.postgres /\ leader \notin {None, r}
    /\ inbox' = IF d \in Range(inbox) THEN inbox ELSE Append(inbox, d)
    /\ UNCHANGED <<leader, workCh, guids>>

Serve(r, d) ==
    /\ r \in world.replicas
    /\ d \in net
    /\ net' = net \ {d}
    /\ Accept(r, d) \/ enqueueForLeader(r, d)
    /\ UNCHANGED demandVars
    /\ UNCHANGED <<locked, worker, batch, plan, handled, faults>>

-----------------------------------------------------------------------------
(* The worker, the inbox loop and the reconcile pass of a replica.          *)

\* ClaimWebhooks leases the oldest deliveries that no lease holds, in the order
\* of their ids.
Claimable == {i \in DOMAIN inbox : inbox[i] \notin locked}
ClaimWebhooks(r, t) ==
    LET n == Min({Cardinality(Claimable), InboxBatch}) IN
    \E f \in [1 .. n -> Claimable] :
        /\ \A k \in 1 .. n - 1 : f[k] < f[k + 1]
        /\ \A k \in 1 .. n, i \in Claimable \ Range(f) : f[k] < i
        /\ batch' = [batch EXCEPT ![r][t] = [k \in 1 .. n |-> inbox[f[k]]]]
        /\ locked' = locked \cup {inbox[i] : i \in Range(f)}

\* The worker drains the inbox before its own delivery, so that a completed
\* event does not overtake the queued event it belongs to; a full batch is
\* followed by another claim.
AfterClaim(r, d) ==
    worker' = [worker EXCEPT ![r] =
                 [item |-> d, phase |-> IF Cardinality(Claimable) < InboxBatch THEN "process" ELSE "drain"]]

WorkerTakes(r) ==
    /\ worker[r].phase = "idle" /\ workCh[r] # <<>>
    /\ workCh' = [workCh EXCEPT ![r] = Tail(@)]
    /\ ClaimWebhooks(r, "worker")
    /\ AfterClaim(r, Head(workCh[r]))
    /\ UNCHANGED demandVars
    /\ UNCHANGED <<net, guids, inbox, leader, plan, handled, faults>>

WorkerDrains(r) ==
    /\ worker[r].phase = "drain" /\ batch[r]["worker"] = <<>>
    /\ ClaimWebhooks(r, "worker")
    /\ AfterClaim(r, worker[r].item)
    /\ UNCHANGED demandVars
    /\ UNCHANGED <<net, workCh, guids, inbox, leader, plan, handled, faults>>

\* The loop of the leader does the same every five seconds.
InboxTick(r) ==
    /\ r \in world.replicas
    /\ batch[r]["inbox"] = <<>> /\ Claimable # {}
    /\ TryAcquireLeadership(r)
    /\ ClaimWebhooks(r, "inbox")
    /\ UNCHANGED demandVars
    /\ UNCHANGED <<net, workCh, guids, inbox, worker, plan, handled, faults>>

\* Defect: a claim is a lock, not a lease.
InboxLockStays(d) == FALSE /\ UNCHANGED vars

\* The lease of a claimed delivery ends before it is acknowledged.
InboxLeaseEnds(d) ==
    /\ d \in locked
    /\ locked' = locked \ {d}
    /\ UNCHANGED demandVars
    /\ UNCHANGED <<net, workCh, guids, inbox, leader, worker, batch, plan, handled, faults>>

\* The row with the delivery's id goes, if it is still there.
Delete(d) ==
    \/ d \notin Range(inbox) /\ UNCHANGED inbox
    \/ \E i \in DOMAIN inbox : inbox[i] = d /\ inbox' = RemoveAt(inbox, i)

\* Defect: the row goes, its claim stays.
AckWebhookKeepsClaim(d) ==
    /\ Delete(d)
    /\ UNCHANGED locked

\* A delivery older than inboxMaxAge is dropped instead of processed.
AckWebhook(d) ==
    /\ Delete(d)
    /\ locked' = locked \ {d}

DropExpired(r, t) ==
    /\ batch[r][t] # <<>> /\ op[r].by # <<t, "inbox">>
    /\ AckWebhook(Head(batch[r][t]))
    /\ batch' = [batch EXCEPT ![r][t] = Tail(@)]
    /\ UNCHANGED demandVars
    /\ UNCHANGED <<net, workCh, guids, leader, worker, plan, handled, faults>>

\* The reconcile pass of the leader finds the job queued at GitHub.
ReconcileSees(r, j) ==
    /\ r \in world.replicas /\ "poll" \in world.loops
    /\ plan[r] = None
    /\ gh[j].status = "queued"
    /\ TryAcquireLeadership(r)
    /\ plan' = [plan EXCEPT ![r] = j]
    /\ UNCHANGED demandVars
    /\ UNCHANGED <<net, workCh, guids, inbox, locked, worker, batch, handled, faults>>

\* A thread of the replica gets workflowJobMu for the event it has in hand.
Process(r, by, d, retry) ==
    /\ BeginOp(r, by, d[1], d[2], retry)
    /\ UNCHANGED <<world, alloc, run, epoch, gh, backoff>>
    /\ UNCHANGED intakeVars

ProcessInbox(r, t) == batch[r][t] # <<>> /\ Process(r, <<t, "inbox">>, Head(batch[r][t]), FALSE)
ProcessWork(r) ==
    /\ worker[r].phase = "process" /\ batch[r]["worker"] = <<>>
    /\ Process(r, <<"worker", "work">>, worker[r].item, FALSE)
ProcessQueued(r) ==
    /\ plan[r] # None
    /\ Process(r, <<"reconcile", "poll">>, <<plan[r], "queued">>, TRUE)

\* The result goes back to its thread.  The worker gives the id of a failed
\* delivery back (GitHub has had its answer: nothing repeats it); the inbox
\* keeps a failed delivery, and a completed one whose job it does not know.
FinishProcess(r) ==
    /\ op[r].pc = "done"
    /\ LET t == op[r].by[1]
           d == <<op[r].job, op[r].act>>
           failed == op[r].out = "error"
           kept == failed \/ (op[r].act = "completed" /\ op[r].out = "unknown")
       IN  /\ handled' = IF op[r].out = "ok" /\ op[r].act # "queued" THEN handled \cup {d} ELSE handled
           /\ \/ /\ op[r].by = <<"worker", "work">>
                 /\ guids' = IF failed THEN [guids EXCEPT ![r] = @ \ {d}] ELSE guids
                 /\ worker' = [worker EXCEPT ![r] = IdleWorker]
                 /\ UNCHANGED <<inbox, locked, batch, plan>>
              \/ /\ op[r].by = <<t, "inbox">>
                 /\ IF kept THEN UNCHANGED <<inbox, locked>> ELSE AckWebhook(d)
                 /\ batch' = [batch EXCEPT ![r][t] = Tail(@)]
                 /\ UNCHANGED <<guids, worker, plan>>
              \/ /\ op[r].by = <<"reconcile", "poll">>
                 /\ plan' = [plan EXCEPT ![r] = None]
                 /\ UNCHANGED <<guids, inbox, locked, worker, batch>>
    /\ op' = [op EXCEPT ![r] = IdleOp]
    /\ UNCHANGED <<world, alloc, run, epoch, gh, backoff>>
    /\ UNCHANGED <<net, workCh, leader, faults>>

\* A replica of the high-availability deployment stops and starts again: what
\* it held in memory is gone, the store and the inbox are not.
Crash(r) ==
    /\ r \in world.replicas
    /\ faults.crashes < world.crashes
    /\ faults' = [faults EXCEPT !.crashes = @ + 1]
    /\ op' = [op EXCEPT ![r] = IdleOp]
    /\ backoff' = [backoff EXCEPT ![r] = {}]
    /\ workCh' = [workCh EXCEPT ![r] = <<>>]
    /\ guids' = [guids EXCEPT ![r] = {}]
    /\ worker' = [worker EXCEPT ![r] = IdleWorker]
    /\ batch' = [batch EXCEPT ![r] = [t \in Drainers |-> <<>>]]
    /\ plan' = [plan EXCEPT ![r] = None]
    /\ UNCHANGED <<world, alloc, run, epoch, gh>>
    /\ UNCHANGED <<net, inbox, locked, leader, handled>>

DemandStep ==
    /\ \/ \E r \in Replicas : OpStep(r)
       \/ \E r \in Replicas, j \in Jobs : BackoffPasses(r, j)
       \/ \E a \in Allocs : \/ QueueReserve(a) \/ QueueLaunch(a) \/ QueueCommit(a)
                            \/ ExpireUnclaimed(a) \/ Prune(a)
    /\ UNCHANGED intakeVars

Next ==
    \/ \E j \in Jobs : GitHubStep(j)
    \/ \E d \in Deliveries : Lose(d) \/ Redeliver(d) \/ InboxLeaseEnds(d)
    \/ LeaseExpires
    \/ \E r \in Replicas, d \in Deliveries : Serve(r, d)
    \/ \E r \in Replicas : \/ WorkerTakes(r) \/ WorkerDrains(r) \/ InboxTick(r)
                           \/ ProcessWork(r) \/ ProcessQueued(r) \/ FinishProcess(r)
                           \/ Crash(r)
    \/ \E r \in Replicas, t \in Drainers : ProcessInbox(r, t) \/ DropExpired(r, t)
    \/ \E r \in Replicas, j \in Jobs : ReconcileSees(r, j)
    \/ DemandStep

\* Every loop keeps ticking while its process runs, a mutex is granted to a
\* thread that keeps asking for it, leases and backoffs end, a delivery that
\* stays in the inbox reaches its maximal age, and an Allocate that is tried
\* again and again is not refused every time.
Fairness ==
    /\ \A r \in Replicas :
         /\ WF_vars((OpStep(r) /\ UNCHANGED intakeVars) \/ FinishProcess(r))
         /\ WF_vars(WorkerTakes(r) \/ WorkerDrains(r))
         /\ WF_vars(ProcessWork(r))
         /\ WF_vars(\E j \in Jobs : BackoffPasses(r, j) /\ UNCHANGED intakeVars)
         /\ WF_vars(\E j \in Jobs : ReconcileSees(r, j))
    /\ WF_vars(\E d \in Deliveries : InboxLeaseEnds(d))
    /\ SF_vars(\E r \in Replicas : ProcessQueued(r))
    /\ SF_vars(\E r \in Replicas :
                 AllocateInsert(r) /\ op'[r].out = "ok" /\ UNCHANGED intakeVars)
    /\ SF_vars(\E r \in Replicas : InboxTick(r))
    /\ SF_vars(\E r \in Replicas, t \in Drainers : DropExpired(r, t))

Spec == Init /\ [][Next]_vars
FairSpec == Spec /\ Fairness

-----------------------------------------------------------------------------
(* Safety.                                                                  *)

\* AllocateForWorkflowJob is idempotent per job: however often an event is
\* delivered, polled or retried, and on whatever replica, a job never has two
\* allocations that are both still live.
OneLiveAllocationPerJob ==
    \A a, b \in Allocs :
        /\ alloc[a].state \in Live
        /\ alloc[b].state \in Live
        /\ alloc[a].job = alloc[b].job
        => a = b

\* FinalizeWorkflowJob and ClaimWorkflowJob never remove the runner that is
\* executing another job: "that runner may already be executing a different
\* queued job".  (The reaper is a different step.)
OtherJobsKeepTheirRunner ==
    [][\A r \in Replicas, a \in Allocs :
         (op[r] # op'[r] /\ run[a] # NoRunner /\ run'[a] = NoRunner)
           => \A j \in Jobs \ {op[r].job} :
                ~(gh[j].status = "in_progress" /\ gh[j].on = a)]_vars

\* With one broker process: when both the in_progress and the completed event
\* of a job have been processed, in either order and whether or not the
\* completed one named the runner, the allocation that ran the job has ended.
ExecutedJobEndsItsAllocation ==
    \A j \in Jobs, a \in Allocs :
        /\ Cardinality(world.replicas) = 1
        /\ {<<j, "in_progress">>, <<j, "completed">>} \subseteq handled
        /\ alloc[a].state \in Live
        => ~(gh[j].on = a /\ alloc[a].name = a)

\* With one broker process: a job holds at most maxWorkflowJobAllocations
\* records, so a job that can never run does not churn runners without end.
BoundedAttempts ==
    \A j \in Jobs : Cardinality(world.replicas) = 1
        => countWorkflowJobAllocations(j) <= MaxJobAllocations

-----------------------------------------------------------------------------
(* Liveness.                                                                *)

\* A job GitHub keeps queued is found by the poll although its event was lost,
\* refused or failed, and gets an allocation, until its attempts are used up.
\* (On PostgreSQL a record of the job, even an ended one, blocks a new one.)
QueuedJobIsServed ==
    \A j \in Jobs :
        (gh[j].status = "queued" /\ "poll" \in world.loops)
          ~> \/ gh[j].status # "queued"
             \/ \E a \in Allocs : alloc[a].job = j /\ alloc[a].state \in Live
             \/ countWorkflowJobAllocations(j) >= MaxJobAllocations
             \/ UniqueJobIndexRefuses(j)
             \/ \A a \in Allocs : ~FreshAlloc(a)    \* the model's ids are used up

\* The shared inbox empties in the end: every delivery in it is handled, or
\* dropped for its age, although the replica that claimed it may stop before
\* its ack.
InboxDrains == inbox # <<>> ~> inbox = <<>>

=============================================================================
