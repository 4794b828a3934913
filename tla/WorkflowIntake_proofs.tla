------------------------ MODULE WorkflowIntake_proofs ------------------------
(***************************************************************************)
(* The demand of workflow jobs, for any number of jobs, replicas, workers   *)
(* and deliveries, whatever is lost, repeated, delayed or restarted: the    *)
(* state stays typed, a job has at most one live allocation and at most     *)
(* maxWorkflowJobAllocations records, no operation on one job removes the   *)
(* runner of another, and the end of a job ends the allocation that ran it. *)
(***************************************************************************)
EXTENDS WorkflowIntake, FiniteSetTheorems, SequenceTheorems, TLAPS

-----------------------------------------------------------------------------
(* The inductive invariant.                                                 *)

OpPCs == {"idle", "allocate", "insert", "claim", "legacy", "bind", "stamp", "bound", "drop",
          "conclude", "finalize", "finish", "done"}
Threads == {<<"none", "none">>, <<"worker", "work">>, <<"reconcile", "poll">>}
           \cup (Drainers \X {"inbox"})
Holding == {"bind", "stamp", "bound", "finish"}    \* operations that own an allocation
Stored == Seq(Deliveries)

RunRecord == [name : Names \cup {None}, lease : Nat]
OpRecord == [pc : OpPCs, by : Threads, job : Jobs \cup {None}, act : Acts \cup {"none"},
             retry : BOOLEAN, a : Allocs \cup {0}, rec : AllocRecord,
             out : {"none", "ok", "error", "unknown", "duplicate"}]
GhRecord == [status : {"idle", "queued", "in_progress", "completed"},
             on : Names \cup {None}, started : Nat, bare : BOOLEAN]
WorkerRecord == [item : Deliveries \cup {None}, phase : {"idle", "process", "drain"}]

DemandType ==
    /\ world \in Worlds
    /\ alloc \in [Allocs -> AllocRecord]
    /\ run \in [Allocs -> RunRecord]
    /\ epoch \in [Workers -> Nat]
    /\ gh \in [Jobs -> GhRecord]
    /\ op \in [Replicas -> OpRecord]
    /\ backoff \in [Replicas -> SUBSET Jobs]
    /\ \A r \in Replicas : /\ op[r].pc # "idle" => op[r].job \in Jobs /\ op[r].act \in Acts
                           /\ op[r].pc \in Holding \cup {"drop"} => op[r].a \in Allocs

IntakeType ==
    /\ net \subseteq Deliveries
    /\ workCh \in [Replicas -> Stored]
    /\ guids \in [Replicas -> SUBSET Deliveries]
    /\ inbox \in Stored
    /\ locked \subseteq Range(inbox)
    /\ leader \in Replicas \cup {None}
    /\ worker \in [Replicas -> WorkerRecord]
    /\ batch \in [Replicas -> [Drainers -> Stored]]
    /\ plan \in [Replicas -> Jobs \cup {None}]
    /\ handled \subseteq Deliveries
    /\ \A r \in Replicas : Len(workCh[r]) <= WorkCap

\* The threads of a replica: what the one that holds workflowJobMu works on is
\* still there when it is done.
ThreadsInv ==
    \A r \in Replicas :
        /\ worker[r].phase # "idle" => worker[r].item \in Deliveries
        /\ worker[r].phase = "idle" => batch[r]["worker"] = <<>>
        /\ op[r].by = <<"worker", "work">> => worker[r].phase = "process" /\ batch[r]["worker"] = <<>>
        /\ \A t \in Drainers : op[r].by = <<t, "inbox">> => batch[r][t] # <<>>
        /\ op[r].pc = "idle" => op[r] = IdleOp

TypeInv == DemandType /\ IntakeType /\ ThreadsInv

\* Which records name a runner, and which have one.
RunnerOK(x, y) ==
    /\ x.state \in {"none", "pending", "reserved"} => x.name = None /\ x.bound = None
    /\ x.state \in {"none", "pending", "ended", "pruned"} => y = NoRunner
    /\ x.state = "ready" => y.name = x.name /\ x.name # None
    /\ x.state = "pruned" => x.name = None /\ x.bound = None
    /\ y.name = None => y = NoRunner
RunnerInv == \A a \in Allocs : RunnerOK(alloc[a], run[a])

\* GitHub gives a runner of its own to one job, while the allocation has it.
GitHubInv ==
    /\ \A j \in Jobs : gh[j].status \in {"idle", "queued"} => gh[j].on = None
    /\ \A i, j \in Jobs : gh[i].on = gh[j].on /\ gh[i].on \in Allocs => i = j
    /\ \A j \in Jobs, a \in Allocs :
         gh[j].on = a => alloc[a].state \in {"ended", "pruned"} \/ run[a].name = a

\* The job j may release a runner of name n: it executes on it, or the runner
\* is ARC's, which owns nothing.
MayRelease(j, n) == n # None /\ n \in {ArcLabel, gh[j].on}

\* A binding names the job the runner was seen to execute; an operation holds
\* an allocation only if its job may release it, and what it has read of the
\* record is what the record says, whatever else was changed meanwhile.
BindingInv ==
    /\ \A a \in Allocs : alloc[a].bound # None => MayRelease(alloc[a].bound, alloc[a].name)
    /\ \A r \in Replicas : op[r].pc \in Holding =>
         /\ alloc[op[r].a].state \in {"ready", "ended", "pruned"}
         /\ Present(op[r].a) => MayRelease(op[r].job, alloc[op[r].a].name)
    /\ \A r \in Replicas : op[r].pc \in {"bind", "stamp", "bound"} =>
         /\ op[r].rec.state = "ready"
         /\ op[r].rec.bound # None => MayRelease(op[r].rec.bound, op[r].rec.name)
         /\ Present(op[r].a) => /\ op[r].rec.job = alloc[op[r].a].job
                                /\ op[r].rec.name = alloc[op[r].a].name

\* The records of a job, and the replicas that may add one.
MineOf(j) == {a \in Allocs : Present(a) /\ alloc[a].job = j}
LiveOf(j) == {a \in Allocs : alloc[a].state \in Live /\ alloc[a].job = j}

\* A process that is not part of the deployment does nothing.
OutsidersInv ==
    \A r \in Replicas \ world.replicas :
        op[r] = IdleOp /\ plan[r] = None /\ workCh[r] = <<>> /\ worker[r] = IdleWorker
        /\ \A t \in Drainers : batch[r][t] = <<>>

AttemptsInv ==
    /\ world.postgres =>
         \A a, b \in Allocs : Present(a) /\ Present(b) /\ alloc[a].job = alloc[b].job => a = b
    /\ ~world.postgres =>
         /\ OneLiveAllocationPerJob
         /\ \A r \in Replicas : op[r].pc = "insert" => LiveOf(op[r].job) = {}
    /\ Cardinality(world.replicas) = 1 =>
         /\ \A j \in Jobs : Cardinality(MineOf(j)) <= MaxJobAllocations
         /\ \A r \in Replicas : op[r].pc = "insert" => Cardinality(MineOf(op[r].job)) < MaxJobAllocations

Inv == TypeInv /\ RunnerInv /\ GitHubInv /\ BindingInv /\ OutsidersInv /\ AttemptsInv

-----------------------------------------------------------------------------
(* Types: one lemma per way to write a record.                              *)

States == Terminal \cup Live \cup Absent

\* Writing one field of a record of the store.
LEMMA RecFields ==
    ASSUME NEW x \in AllocRecord
    PROVE  /\ \A s \in States :
                /\ [x EXCEPT !.state = s] \in AllocRecord
                /\ [x EXCEPT !.state = s].state = s
                /\ [x EXCEPT !.state = s].job = x.job
                /\ [x EXCEPT !.state = s].name = x.name
                /\ [x EXCEPT !.state = s].bound = x.bound
           /\ \A j \in Jobs :
                /\ [x EXCEPT !.bound = j] \in AllocRecord
                /\ [x EXCEPT !.bound = j].state = x.state
                /\ [x EXCEPT !.bound = j].job = x.job
                /\ [x EXCEPT !.bound = j].name = x.name
                /\ [x EXCEPT !.bound = j].bound = j
           /\ /\ [x EXCEPT !.claimed = TRUE] \in AllocRecord
              /\ [x EXCEPT !.claimed = TRUE].state = x.state
              /\ [x EXCEPT !.claimed = TRUE].job = x.job
              /\ [x EXCEPT !.claimed = TRUE].name = x.name
              /\ [x EXCEPT !.claimed = TRUE].bound = x.bound
           /\ /\ [x EXCEPT !.deferred = TRUE] \in AllocRecord
              /\ [x EXCEPT !.deferred = TRUE].state = x.state
              /\ [x EXCEPT !.deferred = TRUE].job = x.job
              /\ [x EXCEPT !.deferred = TRUE].name = x.name
              /\ [x EXCEPT !.deferred = TRUE].bound = x.bound
  <1> DEFINE B == BOOLEAN
  <1>1. TRUE \in B /\ AllocRecord = [state : States, job : Jobs \cup {None}, bound : Jobs \cup {None},
                                    deferred : B, claimed : B, name : Names \cup {None}, lease : Nat]
    BY DEF AllocRecord, States
  <1> HIDE DEF B
  <1> QED BY <1>1

\* What Allocate writes, and what Prune leaves.
LEMMA FreshFields ==
    ASSUME NEW s \in States, NEW j \in Jobs \cup {None}, NEW y \in RunRecord
    PROVE  /\ NewAlloc(s, j, y) \in AllocRecord
           /\ NewAlloc(s, j, y).state = s /\ NewAlloc(s, j, y).job = j
           /\ NewAlloc(s, j, y).name = y.name /\ NewAlloc(s, j, y).bound = None
  <1> DEFINE B == BOOLEAN
             F == FALSE
  <1>1. F \in B /\ AllocRecord = [state : States, job : Jobs \cup {None}, bound : Jobs \cup {None},
                                    deferred : B, claimed : B, name : Names \cup {None}, lease : Nat]
    BY DEF AllocRecord, States
  <1>2. NewAlloc(s, j, y) = [state |-> s, job |-> j, bound |-> None, deferred |-> F,
                   claimed |-> F, name |-> y.name, lease |-> y.lease]
    BY DEF NewAlloc
  <1>3. y.name \in Names \cup {None} /\ y.lease \in Nat
    BY DEF RunRecord
  <1> HIDE DEF B, F
  <1> QED BY <1>1, <1>2, <1>3

\* The records that stand for nothing are typed.
LEMMA NoneRecords ==
    /\ NoAlloc \in AllocRecord /\ NoRunner \in RunRecord /\ IdleOp \in OpRecord
    /\ IdleWorker \in WorkerRecord
  <1>1. NoRunner \in RunRecord /\ IdleWorker \in WorkerRecord
    BY DEF NoRunner, RunRecord, IdleWorker, WorkerRecord
  <1>2. NoAlloc \in AllocRecord
    BY <1>1, FreshFields DEF NoAlloc, States, Absent
  <1>3. IdleOp \in OpRecord
    BY <1>2 DEF IdleOp, OpRecord, OpPCs, Threads
  <1> QED BY <1>1, <1>2, <1>3

\* The operation of r goes on: nobody else's does, and it stays what it is.
OpMove(r) ==
    /\ op' \in [Replicas -> OpRecord]
    /\ op[r].pc # "idle" /\ op'[r].pc # "idle"
    /\ op'[r].by = op[r].by /\ op'[r].job = op[r].job /\ op'[r].act = op[r].act
    /\ op'[r].retry = op[r].retry
    /\ op'[r].pc \in Holding \cup {"drop"} => op'[r].a \in Allocs
    /\ \A q \in Replicas : q # r => op'[q] = op[q]

\* The operation is over.
LEMMA DoneMove ==
    ASSUME DemandType, NEW r \in Replicas, op[r].pc # "idle",
           NEW out \in {"none", "ok", "error", "unknown", "duplicate"}, Done(r, out)
    PROVE  OpMove(r) /\ op'[r].pc = "done" /\ op'[r].out = out
  <1> DEFINE v == [op[r] EXCEPT !.pc = "done", !.out = out, !.a = 0, !.rec = NoAlloc]
  <1>1. op \in [Replicas -> OpRecord] /\ op[r] \in OpRecord /\ op' = [op EXCEPT ![r] = v]
    BY DEF Done, DemandType
  <1>2. /\ v \in OpRecord /\ v.pc = "done" /\ v.out = out
        /\ v.by = op[r].by /\ v.job = op[r].job /\ v.act = op[r].act /\ v.retry = op[r].retry
    BY <1>1, NoneRecords DEF OpRecord, OpPCs
  <1> HIDE DEF v
  <1> QED BY <1>1, <1>2 DEF OpMove, Holding

\* The operation goes on with what it holds.
LEMMA GotoMove ==
    ASSUME DemandType, NEW r \in Replicas, op[r].pc # "idle", NEW pc \in OpPCs \ {"idle"},
           pc \in Holding \cup {"drop"} => op[r].a \in Allocs, Goto(r, pc)
    PROVE  OpMove(r) /\ op'[r].pc = pc /\ op'[r].a = op[r].a /\ op'[r].rec = op[r].rec
  BY DEF Goto, OpMove, DemandType, OpRecord

\* The operation takes an allocation as the store has it.
LEMMA HoldMove ==
    ASSUME DemandType, NEW r \in Replicas, op[r].pc # "idle", NEW pc \in OpPCs \ {"idle"},
           NEW a \in Allocs, Hold(r, pc, a)
    PROVE  OpMove(r) /\ op'[r].pc = pc /\ op'[r].a = a /\ op'[r].rec = alloc[a]
  <1> DEFINE v == [op[r] EXCEPT !.pc = pc, !.a = a, !.rec = alloc[a]]
  <1>1. op \in [Replicas -> OpRecord] /\ op[r] \in OpRecord /\ op' = [op EXCEPT ![r] = v]
    BY DEF Hold, DemandType
  <1>2. alloc[a] \in AllocRecord
    BY DEF DemandType
  <1>3. /\ v \in OpRecord /\ v.pc = pc /\ v.a = a /\ v.rec = alloc[a]
        /\ v.by = op[r].by /\ v.job = op[r].job /\ v.act = op[r].act /\ v.retry = op[r].retry
    BY <1>1, <1>2 DEF OpRecord
  <1> HIDE DEF v
  <1> QED BY <1>1, <1>3 DEF OpMove

\* SaveIfState: the write of the whole record, or the error.
LEMMA SaveMove ==
    ASSUME DemandType, NEW r \in Replicas, op[r].pc # "idle", op[r].a \in Allocs,
           NEW rec \in AllocRecord, NEW next \in OpPCs \ {"idle"}, SaveIfState(r, rec, next)
    PROVE  /\ OpMove(r)
           /\ \/ /\ alloc[op[r].a].state = rec.state
                 /\ alloc' = [alloc EXCEPT ![op[r].a] = rec]
                 /\ op'[r].pc = next /\ op'[r].a = op[r].a /\ op'[r].rec = rec
              \/ alloc' = alloc /\ op'[r].pc = "done" /\ op'[r].out = "error"
  <1>1. CASE alloc[op[r].a].state = rec.state
    BY <1>1 DEF SaveIfState, OpMove, DemandType, OpRecord
  <1>2. CASE alloc[op[r].a].state # rec.state
    BY <1>2, DoneMove DEF SaveIfState
  <1> QED BY <1>1, <1>2

-----------------------------------------------------------------------------
(* What one step may do to an allocation.                                   *)

Late == {"ready", "ended", "pruned"}

\* The allocation a is as RunnerInv wants it after the step, its runner did not
\* change hands, what an operation holds of it stays, its binding is honest ...
Sound(a) ==
    /\ RunnerOK(alloc'[a], run'[a])
    /\ alloc[a].state \in {"ended", "pruned"} => alloc'[a].state \in {"ended", "pruned"}
    /\ run'[a] = run[a] \/ run[a] = NoRunner \/ alloc'[a].state \in {"ended", "pruned"}
    /\ alloc[a].state \in Late => alloc'[a].state \in Late
    /\ alloc[a].state \in Late /\ alloc'[a].state \notin Absent =>
         alloc[a].state \notin Absent /\ alloc'[a].name = alloc[a].name /\ alloc'[a].job = alloc[a].job
    /\ alloc'[a].bound # None => MayRelease(alloc'[a].bound, alloc'[a].name)

\* ... and it is no new one.
Old(a) ==
    /\ alloc'[a].state \in Live => alloc[a].state \in Live
    /\ alloc'[a].state \notin Absent => alloc[a].state \notin Absent /\ alloc'[a].job = alloc[a].job

Untouched(a) == alloc'[a] = alloc[a] /\ run'[a] = run[a]

\* What the operation of q needs of the allocation it holds after the step.
HoldsWell(q) ==
    /\ op'[q].pc \in Holding =>
         /\ op'[q].a \in Allocs
         /\ alloc'[op'[q].a].state \in Late
         /\ alloc'[op'[q].a].state \notin Absent => MayRelease(op'[q].job, alloc'[op'[q].a].name)
    /\ op'[q].pc \in {"bind", "stamp", "bound"} =>
         /\ op'[q].rec.state = "ready"
         /\ op'[q].rec.bound # None => MayRelease(op'[q].rec.bound, op'[q].rec.name)
         /\ alloc'[op'[q].a].state \notin Absent =>
              /\ op'[q].rec.job = alloc'[op'[q].a].job
              /\ op'[q].rec.name = alloc'[op'[q].a].name

\* Runners, bindings and holders survive a step that leaves GitHub alone.
LEMMA SoundStep ==
    ASSUME Inv, UNCHANGED <<world, gh>>, alloc' \in [Allocs -> AllocRecord],
           \A a \in Allocs : Untouched(a) \/ Sound(a),
           \A q \in Replicas : op'[q] = op[q] \/ HoldsWell(q)
    PROVE  RunnerInv' /\ GitHubInv' /\ BindingInv'
  <1>1. RunnerInv'
    BY DEF Inv, RunnerInv, Untouched, Sound
  <1>2. GitHubInv'
    <2>1. \A a \in Allocs : a # None
      BY DemandAssumption DEF DemandAssumption
    <2>2. ASSUME NEW j \in Jobs, NEW a \in Allocs, gh[j].on = a
          PROVE  alloc'[a].state \in {"ended", "pruned"} \/ run'[a].name = a
      <3>1. alloc[a].state \in {"ended", "pruned"} \/ run[a].name = a
        BY <2>2 DEF Inv, GitHubInv
      <3>2. run[a] = NoRunner => run[a].name # a
        BY <2>1 DEF NoRunner
      <3> QED BY <3>1, <3>2 DEF Untouched, Sound
    <2> QED BY <2>2 DEF Inv, GitHubInv
  <1>3. \A j, n : MayRelease(j, n)' <=> MayRelease(j, n)
    BY DEF MayRelease
  <1>4. \A a \in Allocs : alloc'[a].bound # None => MayRelease(alloc'[a].bound, alloc'[a].name)
    BY DEF Inv, BindingInv, Untouched, Sound
  <1>5. ASSUME NEW q \in Replicas PROVE HoldsWell(q)
    <2>1. CASE op'[q] = op[q] /\ op[q].pc \in Holding
      <3>1. op[q].a \in Allocs /\ alloc[op[q].a].state \in Late
        BY <2>1 DEF Inv, TypeInv, DemandType, BindingInv, Late
      <3>2. alloc'[op[q].a].state \in Late
        BY <3>1 DEF Untouched, Sound
      <3>3. alloc'[op[q].a].state \notin Absent =>
               /\ alloc[op[q].a].state \notin Absent
               /\ alloc'[op[q].a].name = alloc[op[q].a].name
               /\ alloc'[op[q].a].job = alloc[op[q].a].job
        BY <3>1 DEF Untouched, Sound
      <3> QED BY <2>1, <3>1, <3>2, <3>3 DEF HoldsWell, Inv, BindingInv, Present
    <2>2. CASE op'[q] = op[q] /\ op[q].pc \notin Holding
      BY <2>2 DEF HoldsWell, Holding
    <2> QED BY <2>1, <2>2
  <1>6. BindingInv'
    BY <1>3, <1>4, <1>5 DEF BindingInv, HoldsWell, Present, Late
  <1> QED BY <1>1, <1>2, <1>6

\* The finite sets that are counted.
LEMMA MineFinite ==
    ASSUME NEW j
    PROVE  IsFiniteSet(MineOf(j)) /\ Cardinality(MineOf(j)) \in Nat /\ MineOf(j) \subseteq Allocs
  <1>1. MineOf(j) \in SUBSET Allocs
    BY DEF MineOf
  <1>2. IsFiniteSet(MineOf(j))
    BY <1>1, FS_Subset, DemandAssumption DEF DemandAssumption
  <1> QED BY <1>1, <1>2, FS_CardinalityType

\* A step that adds no record, and lets no operation begin to add one, keeps the
\* counts.
LEMMA AttemptsStep ==
    ASSUME Inv, world' = world,
           \A a \in Allocs : Untouched(a) \/ Old(a),
           \A q \in Replicas : op'[q].pc = "insert" => op[q].pc = "insert" /\ op'[q].job = op[q].job
    PROVE  AttemptsInv'
  <1>1. \A a \in Allocs : Old(a)
    BY DEF Untouched, Old
  <1>2. \A j : MineOf(j)' \subseteq MineOf(j) /\ LiveOf(j)' \subseteq LiveOf(j)
    BY <1>1 DEF Old, MineOf, LiveOf, Present, Live, Absent
  <1>3. \A j : IsFiniteSet(MineOf(j)) /\ Cardinality(MineOf(j)) \in Nat
    BY MineFinite
  <1>4. \A j : /\ IsFiniteSet(MineOf(j)') /\ Cardinality(MineOf(j)') \in Nat
               /\ Cardinality(MineOf(j)') <= Cardinality(MineOf(j))
    BY <1>2, <1>3, FS_Subset, FS_CardinalityType
  <1>5. MaxJobAllocations \in Nat
    BY DemandAssumption DEF DemandAssumption
  <1>6. world.postgres => (\A a, b \in Allocs :
           Present(a) /\ Present(b) /\ alloc[a].job = alloc[b].job => a = b)'
    BY <1>1 DEF Inv, AttemptsInv, Old, Present
  <1>7. ~world.postgres => OneLiveAllocationPerJob'
    BY <1>1 DEF Inv, AttemptsInv, Old, OneLiveAllocationPerJob, Live, Absent
  <1>8. ~world.postgres => (\A r \in Replicas : op[r].pc = "insert" => LiveOf(op[r].job) = {})'
    BY <1>2 DEF Inv, AttemptsInv
  <1>9. ASSUME Cardinality(world.replicas) = 1
        PROVE  (/\ \A j \in Jobs : Cardinality(MineOf(j)) <= MaxJobAllocations
                /\ \A r \in Replicas : op[r].pc = "insert" => Cardinality(MineOf(op[r].job)) < MaxJobAllocations)'
    <2>1. \A j \in Jobs : Cardinality(MineOf(j)) <= MaxJobAllocations
      BY <1>9 DEF Inv, AttemptsInv
    <2>2. \A j \in Jobs : Cardinality(MineOf(j)') <= MaxJobAllocations
      BY <1>3, <1>4, <1>5, <2>1
    <2>3. ASSUME NEW r \in Replicas, op'[r].pc = "insert"
          PROVE  Cardinality(MineOf(op[r].job)') < MaxJobAllocations
      <3>1. op[r].pc = "insert" /\ op'[r].job = op[r].job
        BY <2>3
      <3>2. PICK j : j = op[r].job
        OBVIOUS
      <3>3. Cardinality(MineOf(j)) < MaxJobAllocations
        BY <1>9, <3>1, <3>2 DEF Inv, AttemptsInv
      <3>4. MineOf(op[r].job)' = MineOf(j)'
        BY <3>1, <3>2 DEF MineOf
      <3> QED BY <1>3, <1>4, <1>5, <3>3, <3>4
    <2> QED BY <2>2, <2>3
  <1> QED BY <1>6, <1>7, <1>8, <1>9 DEF AttemptsInv

-----------------------------------------------------------------------------
(* The operations.                                                          *)

\* The types after a step of the operation of r.
LEMMA OpTypeStep ==
    ASSUME TypeInv, NEW r \in Replicas, OpMove(r), UNCHANGED <<world, gh>>, UNCHANGED intakeVars,
           alloc' \in [Allocs -> AllocRecord], run' \in [Allocs -> RunRecord],
           epoch' \in [Workers -> Nat], backoff' \in [Replicas -> SUBSET Jobs]
    PROVE  TypeInv'
  <1>1. DemandType'
    BY DEF TypeInv, DemandType, OpMove
  <1>2. IntakeType'
    BY DEF TypeInv, IntakeType, intakeVars
  <1>3. ThreadsInv'
    <2>1. \A q \in Replicas : op'[q].by = op[q].by /\ (op'[q].pc = "idle" => op'[q] = op[q])
      BY DEF OpMove
    <2>2. worker' = worker /\ batch' = batch
      BY DEF intakeVars
    <2> QED BY <2>1, <2>2 DEF TypeInv, ThreadsInv
  <1> QED BY <1>1, <1>2, <1>3 DEF TypeInv

\* Only a process of the deployment has an operation.
LEMMA OpOutsiders ==
    ASSUME Inv, NEW r \in Replicas, OpMove(r), UNCHANGED world, UNCHANGED intakeVars
    PROVE  r \in world.replicas /\ OutsidersInv'
  <1>1. r \in world.replicas
    BY DEF Inv, OutsidersInv, OpMove, IdleOp
  <1> QED BY <1>1 DEF Inv, OutsidersInv, OpMove, intakeVars

\* A step of an operation that adds no record keeps the invariant.
LEMMA OpKeeps ==
    ASSUME Inv, NEW r \in Replicas, OpMove(r), UNCHANGED <<world, gh>>, UNCHANGED intakeVars,
           alloc' \in [Allocs -> AllocRecord], run' \in [Allocs -> RunRecord],
           epoch' \in [Workers -> Nat], backoff' \in [Replicas -> SUBSET Jobs],
           \A a \in Allocs : Untouched(a) \/ (Sound(a) /\ Old(a)),
           HoldsWell(r), op'[r].pc # "insert"
    PROVE  Inv'
  <1>1. TypeInv'
    BY OpTypeStep DEF Inv
  <1>2. OutsidersInv'
    BY OpOutsiders
  <1>3. \A q \in Replicas : op'[q] = op[q] \/ HoldsWell(q)
    BY DEF OpMove
  <1>4. RunnerInv' /\ GitHubInv' /\ BindingInv'
    BY <1>3, SoundStep
  <1>5. \A q \in Replicas : op'[q].pc = "insert" => op[q].pc = "insert" /\ op'[q].job = op[q].job
    BY DEF OpMove
  <1>6. AttemptsInv'
    BY <1>5, AttemptsStep
  <1> QED BY <1>1, <1>2, <1>4, <1>6 DEF Inv

\* An operation that only reads.
LEMMA OpReads ==
    ASSUME Inv, NEW r \in Replicas, OpMove(r), UNCHANGED <<world, alloc, run, epoch, gh, backoff>>,
           UNCHANGED intakeVars, HoldsWell(r), op'[r].pc # "insert"
    PROVE  Inv'
  BY OpKeeps DEF Untouched, Inv, TypeInv, DemandType

\* An operation that is done, or that looks for an allocation, holds nothing.
LEMMA NothingHeld ==
    ASSUME NEW r \in Replicas, op'[r].pc \notin Holding
    PROVE  HoldsWell(r)
  BY DEF HoldsWell, Holding

\* The pending demand of a job is cancelled, unless it is pending no more.
LEMMA CancelPending ==
    ASSUME Inv, NEW o \in Allocs, cancelPendingWorkflowDemand(o), run' = run
    PROVE  /\ alloc' \in [Allocs -> AllocRecord]
           /\ \A a \in Allocs : Untouched(a) \/ (Sound(a) /\ Old(a))
           /\ \A a \in Allocs : alloc[a].state \in Late => alloc'[a] = alloc[a]
  <1> DEFINE x == [alloc[o] EXCEPT !.state = "ended"]
  <1>1. alloc \in [Allocs -> AllocRecord] /\ alloc[o] \in AllocRecord /\ RunnerOK(alloc[o], run[o])
    BY DEF Inv, TypeInv, DemandType, RunnerInv
  <1>2. CASE alloc[o].state = "pending"
    <2>1. /\ x \in AllocRecord /\ x.state = "ended" /\ x.job = alloc[o].job
          /\ x.name = alloc[o].name /\ x.bound = alloc[o].bound
      BY <1>1, RecFields DEF States, Terminal
    <2>2. alloc' = [alloc EXCEPT ![o] = x]
      BY <1>1, <1>2 DEF cancelPendingWorkflowDemand
    <2> HIDE DEF x
    <2>3. Sound(o) /\ Old(o)
      BY <1>1, <1>2, <2>1, <2>2 DEF Sound, Old, RunnerOK, Late, Live, Absent
    <2> QED BY <1>1, <1>2, <2>1, <2>2, <2>3 DEF Untouched, Late
  <1>3. CASE alloc[o].state # "pending"
    BY <1>1, <1>3 DEF cancelPendingWorkflowDemand, Untouched
  <1> QED BY <1>2, <1>3

\* What a lookup returns is a record that is there.
LEMMA Lookups ==
    ASSUME TypeInv, NEW j, NEW runner
    PROVE  /\ \A a \in findByWorkflowJobID(j) : a \in Allocs /\ Present(a) /\ alloc[a].job = j
           /\ \A a \in executionAllocation(j, runner) :
                a \in Allocs /\ Present(a)
                /\ (alloc[a].bound = j \/ (runner # None /\ alloc[a].name = runner))
  BY DEF findByWorkflowJobID, executionAllocation

\* The lookups of a claim and of a completion: what they hold afterwards their job
\* may release.
LEMMA ClaimFindKeeps ==
    ASSUME Inv, NEW r \in Replicas, ClaimFind(r) \/ ClaimLegacy(r) \/ FinalizeFind(r),
           UNCHANGED intakeVars
    PROVE  Inv'
  <1> DEFINE j == op[r].job
  <1>1. /\ op[r].pc # "idle" /\ DemandType /\ j \in Jobs
        /\ UNCHANGED <<world, alloc, run, epoch, gh, backoff>>
    BY DEF ClaimFind, ClaimLegacy, FinalizeFind, Inv, TypeInv, DemandType
  <1>2. ASSUME NEW out \in {"ok", "unknown", "error"}, Done(r, out) PROVE Inv'
    <2>1. OpMove(r) /\ op'[r].pc = "done"
      BY <1>1, <1>2, DoneMove
    <2> QED BY <1>1, <2>1, OpReads, NothingHeld DEF Holding
  <1>3. ASSUME Goto(r, "legacy") PROVE Inv'
    <2>1. OpMove(r) /\ op'[r].pc = "legacy"
      BY <1>1, <1>3, GotoMove DEF OpPCs, Holding
    <2> QED BY <1>1, <2>1, OpReads, NothingHeld DEF Holding
  <1>4. ASSUME NEW a \in Allocs, Hold(r, "drop", a) PROVE Inv'
    <2>1. OpMove(r) /\ op'[r].pc = "drop"
      BY <1>1, <1>4, HoldMove DEF OpPCs
    <2> QED BY <1>1, <2>1, OpReads, NothingHeld DEF Holding
  <1>5. ASSUME NEW a \in Allocs, Present(a), ~IsTerminal(a), MayRelease(j, alloc[a].name),
               NEW pc \in {"bind", "finish"}, Hold(r, pc, a)
        PROVE Inv'
    <2>1. OpMove(r) /\ op'[r].pc = pc /\ op'[r].a = a /\ op'[r].rec = alloc[a] /\ op'[r].job = j
      BY <1>1, <1>5, HoldMove DEF OpPCs, OpMove
    <2>2. alloc[a].state = "ready"
      BY <1>5 DEF Inv, TypeInv, DemandType, AllocRecord, RunnerInv, RunnerOK, Present, IsTerminal,
                  MayRelease, Terminal, Live, Absent
    <2>3. alloc[a].bound # None => MayRelease(alloc[a].bound, alloc[a].name)
      BY DEF Inv, BindingInv
    <2>4. HoldsWell(r)
      BY <1>1, <1>5, <2>1, <2>2, <2>3 DEF HoldsWell, Late
    <2> QED BY <1>1, <1>5, <2>1, <2>4, OpReads
  <1>6. ASSUME NEW runner \in {gh[j].on, None}, NEW a \in executionAllocation(j, runner)
        PROVE  a \in Allocs /\ Present(a) /\ MayRelease(j, alloc[a].name)
    <2>1. /\ a \in Allocs /\ Present(a)
          /\ alloc[a].bound = j \/ (runner # None /\ alloc[a].name = runner)
      BY <1>6, Lookups DEF Inv
    <2>2. j # None
      BY <1>1, DemandAssumption DEF DemandAssumption
    <2>3. alloc[a].bound = j => MayRelease(j, alloc[a].name)
      BY <2>1, <2>2 DEF Inv, BindingInv
    <2>4. runner # None /\ alloc[a].name = runner => MayRelease(j, alloc[a].name)
      BY <1>6 DEF MayRelease
    <2> QED BY <2>1, <2>3, <2>4
  <1>7. \A a \in findByWorkflowJobID(j) :
          a \in Allocs /\ Present(a) /\ (legacyARCWorkflowAllocation(a) => MayRelease(j, alloc[a].name))
    BY Lookups, DemandAssumption DEF Inv, DemandAssumption, legacyARCWorkflowAllocation, MayRelease
  <1>8. CASE ClaimFind(r)
    BY <1>8, <1>2, <1>3, <1>4, <1>5, <1>6, <1>7 DEF ClaimFind
  <1>9. CASE ClaimLegacy(r)
    BY <1>9, <1>2, <1>5, <1>7 DEF ClaimLegacy
  <1>10. CASE FinalizeFind(r)
    BY <1>10, <1>2, <1>4, <1>5, <1>6, <1>7 DEF FinalizeFind, IsTerminal, Terminal
  <1> QED BY <1>8, <1>9, <1>10

\* A superfluous pending demand is dropped.
LEMMA DropKeeps ==
    ASSUME Inv, NEW r \in Replicas, DropPending(r), UNCHANGED intakeVars
    PROVE  Inv'
  <1>1. /\ op[r].pc = "drop" /\ DemandType /\ op[r].a \in Allocs
        /\ UNCHANGED <<world, run, epoch, gh, backoff>>
    BY DEF DropPending, Inv, TypeInv, DemandType
  <1>2. /\ alloc' \in [Allocs -> AllocRecord]
        /\ \A a \in Allocs : Untouched(a) \/ (Sound(a) /\ Old(a))
    BY <1>1, CancelPending DEF DropPending
  <1>3. OpMove(r) /\ op'[r].pc \in {"done", "legacy"}
    <2>1. CASE Done(r, "ok") \/ Done(r, "unknown")
      BY <1>1, <2>1, DoneMove
    <2>2. CASE Goto(r, "legacy")
      BY <1>1, <2>2, GotoMove DEF OpPCs, Holding
    <2> QED BY <2>1, <2>2 DEF DropPending
  <1>4. HoldsWell(r)
    BY <1>3, NothingHeld DEF Holding
  <1>5. run' \in [Allocs -> RunRecord] /\ epoch' \in [Workers -> Nat] /\ backoff' \in [Replicas -> SUBSET Jobs]
    BY <1>1 DEF DemandType
  <1> QED BY <1>1, <1>2, <1>3, <1>4, <1>5, OpKeeps

\* The whole record is written back with one field changed: nothing that it has
\* in common with the store is lost, because only a ready record is held and a
\* ready record keeps its job and its runner.
LEMMA SaveKeeps ==
    ASSUME Inv, NEW r \in Replicas, op[r].pc \in {"bind", "stamp"},
           NEW rec \in AllocRecord, NEW next \in {"bound", "stamp"},
           rec.state = op[r].rec.state, rec.job = op[r].rec.job, rec.name = op[r].rec.name,
           rec.bound \in {op[r].rec.bound, op[r].job},
           SaveIfState(r, rec, next), UNCHANGED <<world, run, epoch, gh, backoff>>, UNCHANGED intakeVars
    PROVE  Inv'
  <1> DEFINE a == op[r].a
  <1>1. /\ a \in Allocs /\ DemandType /\ op[r].pc # "idle" /\ alloc \in [Allocs -> AllocRecord]
        /\ op[r].rec.state = "ready" /\ op[r].job # None
    <2>1. op[r].job \in Jobs
      BY DEF Inv, TypeInv, DemandType
    <2>2. op[r].job # None
      BY <2>1, DemandAssumption DEF DemandAssumption
    <2> QED BY <2>2 DEF Inv, TypeInv, DemandType, BindingInv, Holding
  <1>2. run' \in [Allocs -> RunRecord] /\ epoch' \in [Workers -> Nat] /\ backoff' \in [Replicas -> SUBSET Jobs]
    BY <1>1 DEF DemandType
  <1>3. /\ OpMove(r)
        /\ \/ /\ alloc[a].state = rec.state /\ alloc' = [alloc EXCEPT ![a] = rec]
              /\ op'[r].pc = next /\ op'[r].a = a /\ op'[r].rec = rec
           \/ alloc' = alloc /\ op'[r].pc = "done"
    BY <1>1, SaveMove DEF OpPCs
  <1>4. CASE alloc' = alloc /\ op'[r].pc = "done"
    BY <1>1, <1>3, <1>4, OpReads, NothingHeld DEF Holding
  <1>5. CASE /\ alloc[a].state = rec.state /\ alloc' = [alloc EXCEPT ![a] = rec]
             /\ op'[r].pc = next /\ op'[r].a = a /\ op'[r].rec = rec
    <2>1. alloc[a].state = "ready" /\ Present(a)
      BY <1>1, <1>5 DEF Present, Absent
    <2>2. /\ rec.job = alloc[a].job /\ rec.name = alloc[a].name
          /\ MayRelease(op[r].job, alloc[a].name)
          /\ op[r].rec.bound # None => MayRelease(op[r].rec.bound, op[r].rec.name)
      BY <2>1 DEF Inv, BindingInv, Holding
    <2>3. rec.bound # None => MayRelease(rec.bound, rec.name)
      BY <2>2
    <2>4. RunnerOK(alloc[a], run[a])
      BY <1>1 DEF Inv, RunnerInv
    <2> HIDE DEF a
    <2>5. alloc'[a] = rec /\ alloc' \in [Allocs -> AllocRecord]
      BY <1>1, <1>5
    <2>6. Sound(a) /\ Old(a)
      BY <1>1, <1>5, <2>1, <2>2, <2>3, <2>4, <2>5 DEF Sound, Old, RunnerOK, Late, Live, Absent
    <2>7. \A b \in Allocs : Untouched(b) \/ (Sound(b) /\ Old(b))
      BY <1>1, <1>5, <2>6 DEF Untouched
    <2>8. HoldsWell(r)
      BY <1>1, <1>3, <1>5, <2>1, <2>2, <2>3, <2>5 DEF HoldsWell, OpMove, Late
    <2> QED BY <1>1, <1>2, <1>3, <1>5, <2>5, <2>7, <2>8, OpKeeps
  <1> QED BY <1>3, <1>4, <1>5

\* bindWorkflowExecution and the stamps of a claim.
LEMMA BindKeeps ==
    ASSUME Inv, NEW r \in Replicas, BindExecution(r) \/ StampClaim(r), UNCHANGED intakeVars
    PROVE  Inv'
  <1>1. /\ op[r].pc \in {"bind", "stamp"} /\ DemandType /\ op[r].a \in Allocs /\ op[r].job \in Jobs
        /\ op[r].rec \in AllocRecord /\ op[r].rec \in AllocRecord
        /\ UNCHANGED <<world, run, epoch, gh, backoff>>
    BY DEF BindExecution, StampClaim, Inv, TypeInv, DemandType, OpRecord, Holding
  <1>2. CASE StampClaim(r)
    <2> DEFINE rec == [op[r].rec EXCEPT !.claimed = TRUE]
    <2>1. /\ rec \in AllocRecord /\ rec.state = op[r].rec.state /\ rec.job = op[r].rec.job
          /\ rec.name = op[r].rec.name /\ rec.bound = op[r].rec.bound
      BY <1>1, RecFields
    <2>2. SaveIfState(r, rec, "bound")
      BY <1>2 DEF StampClaim
    <2> HIDE DEF rec
    <2> QED BY <1>1, <2>1, <2>2, SaveKeeps
  <1>3. CASE BindExecution(r)
    <2> DEFINE next == IF op[r].act = "completed" THEN "bound" ELSE "stamp"
               rec == [op[r].rec EXCEPT !.bound = op[r].job]
    <2>1. op[r].pc = "bind" /\ next \in {"bound", "stamp"}
      BY <1>3 DEF BindExecution
    <2> HIDE DEF next
    <2>2. CASE op[r].rec.bound = op[r].job
      <3>1. Goto(r, next) /\ UNCHANGED alloc
        BY <1>3, <2>2 DEF BindExecution, next
      <3>2. OpMove(r) /\ op'[r].pc = next /\ op'[r].a = op[r].a /\ op'[r].rec = op[r].rec
        BY <1>1, <2>1, <3>1, GotoMove DEF OpPCs
      <3>3. HoldsWell(r)
        BY <1>1, <2>1, <3>1, <3>2 DEF HoldsWell, OpMove, Inv, BindingInv, Present, Late, Holding
      <3> QED BY <1>1, <2>1, <3>1, <3>2, <3>3, OpReads
    <2>3. CASE op[r].rec.bound # op[r].job
      <3>1. SaveIfState(r, rec, next)
        BY <1>3, <2>3 DEF BindExecution, next
      <3>2. /\ rec \in AllocRecord /\ rec.state = op[r].rec.state /\ rec.job = op[r].rec.job
            /\ rec.name = op[r].rec.name /\ rec.bound = op[r].job
        BY <1>1, RecFields
      <3> HIDE DEF rec
      <3> QED BY <1>1, <2>1, <3>1, <3>2, SaveKeeps
    <2> QED BY <2>2, <2>3
  <1> QED BY <1>2, <1>3

\* What follows a binding.
LEMMA AfterBindKeeps ==
    ASSUME Inv, NEW r \in Replicas, AfterBind(r), UNCHANGED intakeVars
    PROVE  Inv'
  <1>1. /\ op[r].pc = "bound" /\ DemandType /\ op[r].a \in Allocs
        /\ UNCHANGED <<world, run, epoch, gh, backoff>>
    BY DEF AfterBind, Inv, TypeInv, DemandType, Holding
  <1>2. /\ alloc' \in [Allocs -> AllocRecord]
        /\ \A a \in Allocs : Untouched(a) \/ (Sound(a) /\ Old(a))
        /\ \A a \in Allocs : alloc[a].state \in Late => alloc'[a] = alloc[a]
    <2>1. CASE alloc' = alloc
      BY <1>1, <2>1 DEF Untouched, DemandType
    <2>2. CASE \E o \in Surplus(r) : cancelPendingWorkflowDemand(o)
      <3>1. PICK o \in Surplus(r) : cancelPendingWorkflowDemand(o)
        BY <2>2
      <3>2. o \in Allocs
        BY Lookups DEF Surplus, Inv
      <3> QED BY <1>1, <3>1, <3>2, CancelPending
    <2> QED BY <2>1, <2>2 DEF AfterBind
  <1>3. /\ OpMove(r)
        /\ \/ op'[r].pc = "done"
           \/ op'[r].pc = "finish" /\ op'[r].a = op[r].a
    <2>1. CASE Done(r, "ok")
      BY <1>1, <2>1, DoneMove
    <2>2. CASE Goto(r, "finish")
      BY <1>1, <2>2, GotoMove DEF OpPCs
    <2> QED BY <2>1, <2>2 DEF AfterBind
  <1>4. HoldsWell(r)
    <2>1. CASE op'[r].pc = "done"
      BY <2>1, NothingHeld DEF Holding
    <2>2. CASE op'[r].pc = "finish" /\ op'[r].a = op[r].a
      <3>1. /\ alloc[op[r].a].state \in Late
            /\ Present(op[r].a) => MayRelease(op[r].job, alloc[op[r].a].name)
        BY <1>1 DEF Inv, BindingInv, Holding, Late
      <3> QED BY <1>1, <1>2, <1>3, <2>2, <3>1 DEF HoldsWell, OpMove, Present
    <2> QED BY <1>3, <2>1, <2>2
  <1>5. run' \in [Allocs -> RunRecord] /\ epoch' \in [Workers -> Nat] /\ backoff' \in [Replicas -> SUBSET Jobs]
    BY <1>1 DEF DemandType
  <1> QED BY <1>1, <1>2, <1>3, <1>4, <1>5, OpKeeps

\* The conclusion of a job is kept on a record of its own demand.
LEMMA ConcludeKeeps ==
    ASSUME Inv, NEW r \in Replicas, RecordConclusion(r), UNCHANGED intakeVars
    PROVE  Inv'
  <1>1. /\ op[r].pc = "conclude" /\ DemandType /\ alloc \in [Allocs -> AllocRecord]
        /\ UNCHANGED <<world, run, epoch, gh, backoff>>
    BY DEF RecordConclusion, Inv, TypeInv, DemandType
  <1>2. OpMove(r) /\ op'[r].pc = "finalize"
    BY <1>1, GotoMove DEF RecordConclusion, OpPCs, Holding
  <1>3. HoldsWell(r)
    BY <1>2, NothingHeld DEF Holding
  <1>4. CASE alloc' = alloc
    BY <1>1, <1>2, <1>3, <1>4, OpReads
  <1>5. ASSUME NEW a \in findByWorkflowJobID(op[r].job), alloc' = [alloc EXCEPT ![a].deferred = TRUE]
        PROVE  Inv'
    <2> DEFINE x == [alloc[a] EXCEPT !.deferred = TRUE]
    <2>1. a \in Allocs /\ alloc[a] \in AllocRecord
      BY <1>1, Lookups DEF Inv
    <2>2. /\ x \in AllocRecord /\ x.state = alloc[a].state /\ x.job = alloc[a].job
          /\ x.name = alloc[a].name /\ x.bound = alloc[a].bound
      BY <2>1, RecFields
    <2>3. alloc' = [alloc EXCEPT ![a] = x]
      BY <1>1, <1>5, <2>1
    <2> HIDE DEF x
    <2>4. alloc'[a] = x /\ alloc' \in [Allocs -> AllocRecord]
      BY <1>1, <2>1, <2>2, <2>3
    <2>5. RunnerOK(alloc[a], run[a]) /\ (alloc[a].bound # None => MayRelease(alloc[a].bound, alloc[a].name))
      BY <2>1 DEF Inv, RunnerInv, BindingInv
    <2>6. Sound(a) /\ Old(a)
      BY <1>1, <2>2, <2>4, <2>5 DEF Sound, Old, RunnerOK, Late, Live, Absent
    <2>7. \A b \in Allocs : Untouched(b) \/ (Sound(b) /\ Old(b))
      BY <1>1, <2>3, <2>6 DEF Untouched
    <2>8. run' \in [Allocs -> RunRecord] /\ epoch' \in [Workers -> Nat] /\ backoff' \in [Replicas -> SUBSET Jobs]
      BY <1>1 DEF DemandType
    <2> QED BY <1>1, <1>2, <1>3, <2>4, <2>7, <2>8, OpKeeps
  <1> QED BY <1>4, <1>5 DEF RecordConclusion

\* A live allocation ends and its runner is removed.
LEMMA EndAllocation ==
    ASSUME Inv, NEW a \in Allocs, alloc[a].state \in Live,
           alloc' = [alloc EXCEPT ![a].state = "ended"], Cleanup(a)
    PROVE  /\ alloc' \in [Allocs -> AllocRecord] /\ run' \in [Allocs -> RunRecord]
           /\ \A b \in Allocs : Untouched(b) \/ (Sound(b) /\ Old(b))
  <1> DEFINE x == [alloc[a] EXCEPT !.state = "ended"]
  <1>1. /\ alloc \in [Allocs -> AllocRecord] /\ alloc[a] \in AllocRecord /\ run \in [Allocs -> RunRecord]
        /\ RunnerOK(alloc[a], run[a]) /\ (alloc[a].bound # None => MayRelease(alloc[a].bound, alloc[a].name))
    BY DEF Inv, TypeInv, DemandType, RunnerInv, BindingInv
  <1>2. /\ x \in AllocRecord /\ x.state = "ended" /\ x.job = alloc[a].job
        /\ x.name = alloc[a].name /\ x.bound = alloc[a].bound
    BY <1>1, RecFields DEF States, Terminal
  <1>3. alloc' = [alloc EXCEPT ![a] = x] /\ run' = [run EXCEPT ![a] = NoRunner]
    BY <1>1 DEF Cleanup
  <1> HIDE DEF x
  <1>4. alloc'[a] = x /\ run'[a] = NoRunner /\ alloc' \in [Allocs -> AllocRecord] /\ run' \in [Allocs -> RunRecord]
    BY <1>1, <1>2, <1>3, NoneRecords
  <1>5. Sound(a) /\ Old(a)
    BY <1>1, <1>2, <1>4 DEF Sound, Old, RunnerOK, Late, Live, Absent
  <1> QED BY <1>1, <1>3, <1>4, <1>5 DEF Untouched

\* finishWorkflowExecution ends the allocation its operation holds.
LEMMA FinishKeeps ==
    ASSUME Inv, NEW r \in Replicas, FinishExecution(r), UNCHANGED intakeVars
    PROVE  Inv'
  <1>1. /\ op[r].pc = "finish" /\ DemandType /\ op[r].a \in Allocs
        /\ UNCHANGED <<world, epoch, gh, backoff>> /\ Done(r, "ok")
    BY DEF FinishExecution, Inv, TypeInv, DemandType, Holding
  <1>2. OpMove(r) /\ op'[r].pc = "done" /\ HoldsWell(r)
    <2>1. OpMove(r) /\ op'[r].pc = "done"
      BY <1>1, DoneMove
    <2> QED BY <2>1, NothingHeld DEF Holding
  <1>3. CASE alloc[op[r].a].state \notin Live
    BY <1>1, <1>2, <1>3, OpReads DEF FinishExecution
  <1>4. CASE alloc[op[r].a].state \in Live
    <2>1. /\ alloc' \in [Allocs -> AllocRecord] /\ run' \in [Allocs -> RunRecord]
          /\ \A b \in Allocs : Untouched(b) \/ (Sound(b) /\ Old(b))
      BY <1>1, <1>4, EndAllocation DEF FinishExecution
    <2>2. epoch' \in [Workers -> Nat] /\ backoff' \in [Replicas -> SUBSET Jobs]
      BY <1>1 DEF DemandType
    <2> QED BY <1>1, <1>2, <2>1, <2>2, OpKeeps
  <1> QED BY <1>3, <1>4

\* With one process, or a store of its own, there is one operation.
LEMMA OneOperation ==
    ASSUME Inv, Cardinality(world.replicas) = 1,
           NEW q \in Replicas, NEW r \in Replicas, op[q].pc # "idle", op[r].pc # "idle"
    PROVE  q = r
  <1>1. world.replicas \in SUBSET Replicas /\ IsFiniteSet(Replicas)
    BY DemandAssumption DEF DemandAssumption, Inv, TypeInv, DemandType
  <1>2. IsFiniteSet(world.replicas)
    BY <1>1, FS_Subset
  <1>3. PICK x : world.replicas = {x}
    BY <1>2, FS_Singleton
  <1>4. q \in world.replicas /\ r \in world.replicas
    BY DEF Inv, OutsidersInv, IdleOp
  <1> QED BY <1>3, <1>4

\* A broker without PostgreSQL is one process (ValidateReplicaSafety).
LEMMA OneProcess ==
    ASSUME Inv, ~world.postgres
    PROVE  Cardinality(world.replicas) = 1
  BY DemandAssumption DEF DemandAssumption, Inv, TypeInv, DemandType

\* AllocateForWorkflowJob's first read: it goes on to the insert only when the
\* job has no live allocation, and an attempt left.
LEMMA CheckKeeps ==
    ASSUME Inv, NEW r \in Replicas, AllocateCheck(r), UNCHANGED intakeVars
    PROVE  Inv'
  <1> DEFINE j == op[r].job
  <1>1. /\ op[r].pc = "allocate" /\ DemandType /\ j \in Jobs
        /\ UNCHANGED <<world, alloc, run, epoch, gh, backoff>>
        /\ \A a \in Allocs : alloc[a].state \in States
    BY DEF AllocateCheck, Inv, TypeInv, DemandType, AllocRecord, States
  <1>2. CASE Done(r, "duplicate")
    <2>1. OpMove(r) /\ op'[r].pc = "done"
      BY <1>1, <1>2, DoneMove
    <2> QED BY <1>1, <2>1, OpReads, NothingHeld DEF Holding
  <1>3. ASSUME OpMove(r), op'[r].pc = "insert", LiveOf(j) = {}, Cardinality(MineOf(j)) < MaxJobAllocations
        PROVE  Inv'
    <2>1. TypeInv'
      BY <1>1, <1>3, OpTypeStep DEF Inv, TypeInv, DemandType
    <2>2. OutsidersInv'
      BY <1>1, <1>3, OpOutsiders
    <2>3. \A q \in Replicas : op'[q] = op[q] \/ HoldsWell(q)
      BY <1>3, NothingHeld DEF OpMove, Holding
    <2>4. RunnerInv' /\ GitHubInv' /\ BindingInv'
      BY <1>1, <2>3, SoundStep DEF Untouched, DemandType
    <2>5. \A k : MineOf(k)' = MineOf(k) /\ LiveOf(k)' = LiveOf(k)
      BY <1>1 DEF MineOf, LiveOf, Present
    <2>6. \A q \in Replicas : op'[q] = op[q] \/ (q = r /\ op'[q].job = j)
      BY <1>3 DEF OpMove
    <2>8. world.postgres => (\A a, b \in Allocs :
             Present(a) /\ Present(b) /\ alloc[a].job = alloc[b].job => a = b)'
      BY <1>1 DEF Inv, AttemptsInv, Present
    <2>9. ~world.postgres => OneLiveAllocationPerJob'
      BY <1>1 DEF Inv, AttemptsInv, OneLiveAllocationPerJob
    <2>10. ASSUME NEW q \in Replicas, op'[q].pc = "insert"
           PROVE  /\ ~world.postgres => LiveOf(op[q].job)' = {}
                  /\ Cardinality(world.replicas) = 1 => Cardinality(MineOf(op[q].job)') < MaxJobAllocations
      <3>1. PICK k : k = op'[q].job
        OBVIOUS
      <3>2. LiveOf(op[q].job)' = LiveOf(k) /\ MineOf(op[q].job)' = MineOf(k)
        BY <1>1, <3>1 DEF LiveOf, MineOf, Present
      <3>3. \/ op'[q] = op[q] /\ op[q].job = k
            \/ k = j
        BY <2>6, <3>1
      <3> QED BY <1>3, <2>10, <3>2, <3>3 DEF Inv, AttemptsInv
    <2>11. Cardinality(world.replicas) = 1 => (\A k \in Jobs : Cardinality(MineOf(k)) <= MaxJobAllocations)'
      BY <2>5 DEF Inv, AttemptsInv
    <2>12. AttemptsInv'
      BY <1>1, <2>8, <2>9, <2>10, <2>11 DEF AttemptsInv
    <2> QED BY <2>1, <2>2, <2>4, <2>12 DEF Inv
  <1>4. MaxJobAllocations \in Nat \ {0}
    BY DemandAssumption DEF DemandAssumption
  <1>5. CASE findByWorkflowJobID(j) = {} /\ Goto(r, "insert")
    <2>1. OpMove(r) /\ op'[r].pc = "insert"
      BY <1>1, <1>5, GotoMove DEF OpPCs, Holding
    <2>2. MineOf(j) = {}
      BY <1>5 DEF findByWorkflowJobID, MineOf
    <2>3. LiveOf(j) = {}
      BY <2>2 DEF MineOf, LiveOf, Present, Live, Absent
    <2>4. Cardinality(MineOf(j)) = 0
      BY <2>2, FS_EmptySet
    <2> QED BY <1>3, <1>4, <2>1, <2>3, <2>4
  <1>6. ASSUME NEW a \in findByWorkflowJobID(j), IsTerminal(a), mayReallocateWorkflowJob(r, j),
               op' = [op EXCEPT ![r].pc = "insert", ![r].a = a, ![r].rec = alloc[a]]
        PROVE  Inv'
    <2>1. Hold(r, "insert", a) /\ a \in Allocs
      BY <1>6, Lookups DEF Hold, Inv
    <2>2. OpMove(r) /\ op'[r].pc = "insert"
      BY <1>1, <2>1, HoldMove DEF OpPCs
    <2>3. Cardinality(MineOf(j)) < MaxJobAllocations
      BY <1>6 DEF mayReallocateWorkflowJob, countWorkflowJobAllocations, MineOf
    <2>4. LiveOf(j) = {}
      BY <1>6 DEF findByWorkflowJobID, LiveOf, IsTerminal, Present, Terminal, Live, Absent
    <2> QED BY <1>3, <2>2, <2>3, <2>4
  <1> QED BY <1>2, <1>5, <1>6 DEF AllocateCheck

\* What Provision may return.
LEMMA RunnerTypes ==
    ASSUME DemandType, NEW a \in Allocs, NEW runner \in Runners(a)
    PROVE  /\ runner \in RunRecord /\ runner.name \in Names /\ runner.name # None /\ runner.lease \in Nat
           /\ Provision(a, runner) => run' \in [Allocs -> RunRecord] /\ epoch' \in [Workers -> Nat]
  <1>1. PICK n \in Names, l \in Nat : runner = [name |-> n, lease |-> l]
    BY DEF Runners, Names, DemandType
  <1>2. None \notin Names
    BY DemandAssumption DEF DemandAssumption, Names
  <1>3. runner \in RunRecord /\ runner.name \in Names /\ runner.name # None /\ runner.lease \in Nat
    BY <1>1, <1>2 DEF RunRecord
  <1> QED BY <1>3 DEF Provision, DemandType

\* A fresh record is the first of its job that is live, and one attempt more.
LEMMA FreshAttempt ==
    ASSUME Inv, NEW r \in Replicas, op[r].pc = "insert", op'[r].pc = "done", NEW j \in Jobs, j = op[r].job,
           \A q \in Replicas : q # r => op'[q] = op[q],
           NEW a \in Allocs, FreshAlloc(a), ~UniqueJobIndexRefuses(j), world' = world,
           NEW x \in AllocRecord, x.job = j, x.state \in {"ready", "pending", "ended"},
           alloc' = [alloc EXCEPT ![a] = x]
    PROVE  AttemptsInv'
  <1>1. alloc \in [Allocs -> AllocRecord] /\ alloc[a].state = "none" /\ alloc'[a] = x
    BY DEF Inv, TypeInv, DemandType, FreshAlloc
  <1>2. \A b \in Allocs : b # a => alloc'[b] = alloc[b]
    BY <1>1
  <1>3. ~Present(a) /\ a \notin MineOf(j)
    BY <1>1 DEF Present, Absent, MineOf
  <1>4. MineOf(j)' = MineOf(j) \cup {a}
    BY <1>1, <1>2, <1>3 DEF MineOf, Present, Absent
  <1>5. \A k : k # j => MineOf(k)' = MineOf(k)
    BY <1>1, <1>2, <1>3 DEF MineOf, Present
  <1>6. IsFiniteSet(MineOf(j)) /\ Cardinality(MineOf(j)) \in Nat
    BY MineFinite
  <1>7. Cardinality(MineOf(j)') = Cardinality(MineOf(j)) + 1
    BY <1>3, <1>4, <1>6, FS_AddElement
  <1>8. world.postgres => MineOf(j) = {}
    <2>1. world.postgres => ~(Cardinality(MineOf(j)) > 0)
      BY DEF UniqueJobIndexRefuses, countWorkflowJobAllocations, MineOf
    <2> QED BY <1>6, <2>1, FS_EmptySet
  <1>9. world.postgres => (\A b, c \in Allocs :
           Present(b) /\ Present(c) /\ alloc[b].job = alloc[c].job => b = c)'
    <2> SUFFICES ASSUME world.postgres, NEW b \in Allocs, NEW c \in Allocs, Present(b)', Present(c)',
                        alloc'[b].job = alloc'[c].job
                 PROVE  b = c
      OBVIOUS
    <2>1. \A d \in Allocs : Present(d)' /\ alloc'[d].job = j => d = a
      BY <1>2, <1>8 DEF MineOf, Present
    <2> QED BY <1>1, <1>2, <2>1 DEF Inv, AttemptsInv, Present
  <1>10. ASSUME ~world.postgres
         PROVE  (OneLiveAllocationPerJob /\ \A q \in Replicas : op[q].pc = "insert" => LiveOf(op[q].job) = {})'
    <2>1. LiveOf(j) = {}
      BY <1>10 DEF Inv, AttemptsInv
    <2>2. \A q \in Replicas : q # r => op[q].pc = "idle"
      BY <1>10, OneProcess, OneOperation
    <2>3. \A q \in Replicas : op'[q].pc # "insert"
      BY <2>2
    <2>4. OneLiveAllocationPerJob
      BY <1>10 DEF Inv, AttemptsInv
    <2>5. OneLiveAllocationPerJob'
      BY <1>1, <1>2, <2>1, <2>4 DEF OneLiveAllocationPerJob, LiveOf
    <2> QED BY <2>3, <2>5
  <1>11. ASSUME Cardinality(world.replicas) = 1
         PROVE  (/\ \A k \in Jobs : Cardinality(MineOf(k)) <= MaxJobAllocations
                 /\ \A q \in Replicas : op[q].pc = "insert" => Cardinality(MineOf(op[q].job)) < MaxJobAllocations)'
    <2>1. /\ \A k \in Jobs : Cardinality(MineOf(k)) <= MaxJobAllocations
          /\ Cardinality(MineOf(j)) < MaxJobAllocations
      BY <1>11 DEF Inv, AttemptsInv
    <2>2. \A q \in Replicas : q # r => op[q].pc = "idle"
      BY <1>11, OneOperation
    <2>3. \A q \in Replicas : op'[q].pc # "insert"
      BY <2>2
    <2>4. MaxJobAllocations \in Nat
      BY DemandAssumption DEF DemandAssumption
    <2>5. \A k \in Jobs : Cardinality(MineOf(k)') <= MaxJobAllocations
      BY <1>5, <1>6, <1>7, <2>1, <2>4
    <2> QED BY <2>3, <2>5
  <1> QED BY <1>9, <1>10, <1>11 DEF AttemptsInv

\* Allocate, however it ends.
LEMMA InsertKeeps ==
    ASSUME Inv, NEW r \in Replicas, AllocateInsert(r), UNCHANGED intakeVars
    PROVE  Inv'
  <1> DEFINE j == op[r].job
             noted == IF op[r].rec # NoAlloc THEN [backoff EXCEPT ![r] = @ \cup {j}] ELSE backoff
  <1>1. /\ op[r].pc = "insert" /\ DemandType /\ j \in Jobs /\ UNCHANGED <<world, gh>>
        /\ alloc \in [Allocs -> AllocRecord] /\ run \in [Allocs -> RunRecord] /\ epoch \in [Workers -> Nat]
        /\ backoff \in [Replicas -> SUBSET Jobs] /\ noted \in [Replicas -> SUBSET Jobs]
    BY DEF AllocateInsert, Inv, TypeInv, DemandType
  <1>2. ASSUME NEW out \in {"ok", "error"}, Done(r, out)
        PROVE  OpMove(r) /\ op'[r].pc = "done" /\ HoldsWell(r)
    <2>1. OpMove(r) /\ op'[r].pc = "done"
      BY <1>1, <1>2, DoneMove
    <2> QED BY <2>1, NothingHeld DEF Holding
  <1>3. CASE Done(r, "error") /\ UNCHANGED <<alloc, run, epoch, backoff>>
    BY <1>1, <1>2, <1>3, OpReads
  <1>4. ASSUME NEW a \in Allocs, FreshAlloc(a), ~UniqueJobIndexRefuses(j),
               NEW x \in AllocRecord, x.job = j, x.state \in {"ready", "pending", "ended"}, x.bound = None,
               alloc' = [alloc EXCEPT ![a] = x], RunnerOK(x, run'[a]),
               \A b \in Allocs : b # a => run'[b] = run[b],
               run' \in [Allocs -> RunRecord], epoch' \in [Workers -> Nat],
               backoff' \in [Replicas -> SUBSET Jobs],
               NEW out \in {"ok", "error"}, Done(r, out)
        PROVE  Inv'
    <2>1. OpMove(r) /\ op'[r].pc = "done" /\ HoldsWell(r)
      BY <1>2, <1>4
    <2>2. alloc[a].state = "none" /\ alloc'[a] = x /\ alloc' \in [Allocs -> AllocRecord]
      BY <1>1, <1>4 DEF FreshAlloc
    <2>3. run[a] = NoRunner
      BY <2>2 DEF Inv, RunnerInv, RunnerOK
    <2>4. Sound(a)
      BY <1>4, <2>2, <2>3 DEF Sound, Late
    <2>5. \A b \in Allocs : Untouched(b) \/ Sound(b)
      BY <1>1, <1>4, <2>4 DEF Untouched
    <2>6. \A q \in Replicas : op'[q] = op[q] \/ HoldsWell(q)
      BY <2>1 DEF OpMove
    <2>7. RunnerInv' /\ GitHubInv' /\ BindingInv'
      BY <1>1, <2>2, <2>5, <2>6, SoundStep
    <2>8. TypeInv'
      BY <1>1, <1>4, <2>1, <2>2, OpTypeStep DEF Inv
    <2>9. OutsidersInv'
      BY <1>1, <2>1, OpOutsiders
    <2>10. AttemptsInv'
      BY <1>1, <1>4, <2>1, FreshAttempt DEF OpMove
    <2> QED BY <2>7, <2>8, <2>9, <2>10 DEF Inv
  <1>5. {"ready", "pending", "ended"} \subseteq States
    BY DEF States, Live, Terminal
  <1>6. ASSUME NEW a \in Allocs, FreshAlloc(a), ~UniqueJobIndexRefuses(j), NEW runner \in Runners(a),
               alloc' = [alloc EXCEPT ![a] = NewAlloc("ready", j, runner)],
               Provision(a, runner), backoff' = noted, Done(r, "ok")
        PROVE  Inv'
    <2> DEFINE x == NewAlloc("ready", j, runner)
    <2>1. /\ runner \in RunRecord /\ runner.name # None
          /\ run' \in [Allocs -> RunRecord] /\ epoch' \in [Workers -> Nat]
      BY <1>1, <1>6, RunnerTypes
    <2>2. x \in AllocRecord /\ x.state = "ready" /\ x.job = j /\ x.name = runner.name /\ x.bound = None
      BY <1>1, <1>5, <2>1, FreshFields
    <2>3. run'[a] = runner /\ \A b \in Allocs : b # a => run'[b] = run[b]
      BY <1>1, <1>6 DEF Provision
    <2>4. alloc' = [alloc EXCEPT ![a] = x]
      BY <1>6
    <2> HIDE DEF x
    <2>5. RunnerOK(x, run'[a])
      BY <2>1, <2>2, <2>3 DEF RunnerOK
    <2> QED BY <1>1, <1>4, <1>6, <2>1, <2>2, <2>3, <2>4, <2>5
  <1>7. ASSUME NEW a \in Allocs, FreshAlloc(a), ~UniqueJobIndexRefuses(j), NEW st \in {"pending", "ended"},
               alloc' = [alloc EXCEPT ![a] = NewAlloc(st, j, NoRunner)],
               UNCHANGED <<run, epoch>>, backoff' \in {noted, backoff}, NEW out \in {"ok", "error"}, Done(r, out)
        PROVE  Inv'
    <2> DEFINE x == NewAlloc(st, j, NoRunner)
    <2>1. x \in AllocRecord /\ x.state = st /\ x.job = j /\ x.name = None /\ x.bound = None
      <3>1. NoRunner \in RunRecord /\ NoRunner.name = None
        BY NoneRecords DEF NoRunner
      <3> QED BY <1>1, <1>5, <3>1, FreshFields
    <2>2. run[a] = NoRunner
      BY <1>7 DEF FreshAlloc, Inv, RunnerInv, RunnerOK
    <2>3. alloc' = [alloc EXCEPT ![a] = x]
      BY <1>7
    <2> HIDE DEF x
    <2>4. RunnerOK(x, run'[a])
      BY <1>7, <2>1, <2>2 DEF RunnerOK
    <2>5. backoff' \in [Replicas -> SUBSET Jobs]
      BY <1>1, <1>7
    <2> QED BY <1>1, <1>4, <1>7, <2>1, <2>3, <2>4, <2>5
  <1> HIDE DEF noted
  <1> QED BY <1>3, <1>6, <1>7 DEF AllocateInsert, noted

\* Any step of an operation.
LEMMA OpStepKeeps ==
    ASSUME Inv, NEW r \in Replicas, OpStep(r), UNCHANGED intakeVars
    PROVE  Inv'
  BY CheckKeeps, InsertKeeps, ClaimFindKeeps, DropKeeps, BindKeeps, AfterBindKeeps, ConcludeKeeps,
     FinishKeeps DEF OpStep

-----------------------------------------------------------------------------
(* The loops.                                                               *)

\* A step of a loop that adds no record keeps the invariant.
LEMMA LoopKeeps ==
    ASSUME Inv, UNCHANGED <<world, gh, op>>, UNCHANGED intakeVars,
           alloc' \in [Allocs -> AllocRecord], run' \in [Allocs -> RunRecord],
           epoch' \in [Workers -> Nat], backoff' \in [Replicas -> SUBSET Jobs],
           \A a \in Allocs : Untouched(a) \/ (Sound(a) /\ Old(a))
    PROVE  Inv'
  <1>1. TypeInv'
    <2>1. DemandType'
      BY DEF Inv, TypeInv, DemandType
    <2>2. IntakeType'
      BY DEF Inv, TypeInv, IntakeType, intakeVars
    <2>3. ThreadsInv'
      BY DEF Inv, TypeInv, ThreadsInv, intakeVars
    <2> QED BY <2>1, <2>2, <2>3 DEF TypeInv
  <1>2. RunnerInv' /\ GitHubInv' /\ BindingInv'
    BY SoundStep
  <1>3. OutsidersInv'
    BY DEF Inv, OutsidersInv, intakeVars
  <1>4. AttemptsInv'
    BY AttemptsStep
  <1> QED BY <1>1, <1>2, <1>3, <1>4 DEF Inv

\* The backoff of a job passes.
LEMMA BackoffKeeps ==
    ASSUME Inv, NEW r \in Replicas, NEW j \in Jobs, BackoffPasses(r, j), UNCHANGED intakeVars
    PROVE  Inv'
  BY LoopKeeps DEF BackoffPasses, Untouched, Inv, TypeInv, DemandType

\* The queue loop reserves, launches and commits a pending record; the reaper
\* and retention end it.
LEMMA QueueKeeps ==
    ASSUME Inv, NEW a \in Allocs, UNCHANGED intakeVars,
           \/ QueueReserve(a) \/ QueueLaunch(a) \/ QueueCommit(a)
           \/ ExpireUnclaimed(a) \/ Prune(a)
    PROVE  Inv'
  <1>1. /\ DemandType /\ UNCHANGED <<world, gh, op, backoff>>
        /\ alloc \in [Allocs -> AllocRecord] /\ alloc[a] \in AllocRecord
        /\ run \in [Allocs -> RunRecord] /\ run[a] \in RunRecord
        /\ epoch \in [Workers -> Nat] /\ backoff \in [Replicas -> SUBSET Jobs]
        /\ RunnerOK(alloc[a], run[a])
        /\ alloc[a].bound # None => MayRelease(alloc[a].bound, alloc[a].name)
    BY DEF Inv, TypeInv, DemandType, RunnerInv, BindingInv, QueueReserve, QueueLaunch, QueueCommit,
           ExpireUnclaimed, Prune
  <1>2. ASSUME NEW x \in AllocRecord, NEW y \in RunRecord, alloc' = [alloc EXCEPT ![a] = x],
               run' = [run EXCEPT ![a] = y], epoch' \in [Workers -> Nat],
               alloc'[a] = x /\ run'[a] = y => Sound(a) /\ Old(a)
        PROVE  Inv'
    <2>1. alloc'[a] = x /\ run'[a] = y /\ alloc' \in [Allocs -> AllocRecord] /\ run' \in [Allocs -> RunRecord]
      BY <1>1, <1>2
    <2>2. \A b \in Allocs : Untouched(b) \/ (Sound(b) /\ Old(b))
      BY <1>1, <1>2, <2>1 DEF Untouched
    <2> QED BY <1>1, <1>2, <2>1, <2>2, LoopKeeps
  <1>3. CASE QueueReserve(a)
    <2> DEFINE x == [alloc[a] EXCEPT !.state = "reserved"]
    <2>1. /\ x \in AllocRecord /\ x.state = "reserved" /\ x.job = alloc[a].job
          /\ x.name = alloc[a].name /\ x.bound = alloc[a].bound
      BY <1>1, RecFields DEF States, Live
    <2>2. alloc' = [alloc EXCEPT ![a] = x] /\ run' = [run EXCEPT ![a] = run[a]] /\ epoch' = epoch
      BY <1>1, <1>3 DEF QueueReserve
    <2>3. alloc[a].state = "pending"
      BY <1>3 DEF QueueReserve
    <2> HIDE DEF x
    <2>4. alloc'[a] = x /\ run'[a] = run[a] => Sound(a) /\ Old(a)
      BY <1>1, <2>1, <2>3 DEF Sound, Old, RunnerOK, Late, Live, Absent
    <2> QED BY <1>1, <1>2, <2>1, <2>2, <2>4
  <1>4. CASE QueueLaunch(a)
    <2>1. PICK runner \in Runners(a) : Provision(a, runner)
      BY <1>4 DEF QueueLaunch
    <2>2. /\ runner \in RunRecord /\ runner.name # None
          /\ epoch' \in [Workers -> Nat] /\ run' = [run EXCEPT ![a] = runner]
      BY <1>1, <2>1, RunnerTypes DEF Provision
    <2>3. alloc' = [alloc EXCEPT ![a] = alloc[a]] /\ alloc[a].state = "reserved" /\ run[a] = NoRunner
      BY <1>1, <1>4 DEF QueueLaunch
    <2>4. alloc'[a] = alloc[a] /\ run'[a] = runner => Sound(a) /\ Old(a)
      BY <1>1, <2>2, <2>3 DEF Sound, Old, RunnerOK, Late, Live, Absent
    <2> QED BY <1>1, <1>2, <2>2, <2>3, <2>4
  <1>5. CASE QueueCommit(a)
    <2> DEFINE x == [alloc[a] EXCEPT !.state = "ready", !.name = run[a].name, !.lease = run[a].lease]
    <2>1. /\ x \in AllocRecord /\ x.state = "ready" /\ x.job = alloc[a].job
          /\ x.name = run[a].name /\ x.bound = alloc[a].bound
      <3> DEFINE B == BOOLEAN
      <3>1. AllocRecord = [state : States, job : Jobs \cup {None}, bound : Jobs \cup {None},
                           deferred : B, claimed : B, name : Names \cup {None}, lease : Nat]
        BY DEF AllocRecord, States
      <3>2. run[a].name \in Names \cup {None} /\ run[a].lease \in Nat /\ "ready" \in States
        BY <1>1 DEF RunRecord, States, Live
      <3> HIDE DEF B
      <3> QED BY <1>1, <3>1, <3>2
    <2>2. alloc' = [alloc EXCEPT ![a] = x] /\ run' = [run EXCEPT ![a] = run[a]] /\ epoch' = epoch
      BY <1>1, <1>5 DEF QueueCommit
    <2>3. alloc[a].state = "reserved" /\ run[a] # NoRunner
      BY <1>5 DEF QueueCommit
    <2>4. run[a].name # None
      BY <1>1, <2>3 DEF RunnerOK
    <2> HIDE DEF x
    <2>5. alloc'[a] = x /\ run'[a] = run[a] => Sound(a) /\ Old(a)
      BY <1>1, <2>1, <2>3, <2>4 DEF Sound, Old, RunnerOK, Late, Live, Absent
    <2> QED BY <1>1, <1>2, <2>1, <2>2, <2>5
  <1>6. CASE ExpireUnclaimed(a)
    <2>1. alloc[a].state \in Live /\ epoch' = epoch
      BY <1>6 DEF ExpireUnclaimed, Live
    <2>2. /\ alloc' \in [Allocs -> AllocRecord] /\ run' \in [Allocs -> RunRecord]
          /\ \A b \in Allocs : Untouched(b) \/ (Sound(b) /\ Old(b))
      BY <1>6, <2>1, EndAllocation DEF ExpireUnclaimed
    <2> QED BY <1>1, <2>1, <2>2, LoopKeeps
  <1>7. CASE Prune(a)
    <2> DEFINE x == NewAlloc("pruned", None, NoRunner)
    <2>1. x \in AllocRecord /\ x.state = "pruned" /\ x.name = None /\ x.bound = None
      <3>1. NoRunner \in RunRecord /\ NoRunner.name = None
        BY NoneRecords DEF NoRunner
      <3> QED BY <3>1, FreshFields DEF States, Absent
    <2>2. alloc' = [alloc EXCEPT ![a] = x] /\ run' = [run EXCEPT ![a] = run[a]] /\ epoch' = epoch
      BY <1>1, <1>7 DEF Prune
    <2>3. alloc[a].state = "ended"
      BY <1>7 DEF Prune, IsTerminal, Terminal
    <2> HIDE DEF x
    <2>4. alloc'[a] = x /\ run'[a] = run[a] => Sound(a) /\ Old(a)
      BY <1>1, <2>1, <2>3 DEF Sound, Old, RunnerOK, Late, Live, Absent
    <2> QED BY <1>1, <1>2, <2>1, <2>2, <2>4
  <1> QED BY <1>3, <1>4, <1>5, <1>6, <1>7

-----------------------------------------------------------------------------
(* GitHub.                                                                  *)

\* GitHub gives a queued job a runner, and takes none away.
LEMMA GitHubView ==
    ASSUME Inv, NEW j \in Jobs, GitHubStep(j)
    PROVE  /\ gh' \in [Jobs -> GhRecord] /\ GitHubInv'
           /\ \A k \in Jobs : gh'[k].on = gh[k].on \/ gh[k].on = None
  <1>1. /\ gh \in [Jobs -> GhRecord] /\ gh[j] \in GhRecord /\ GitHubInv
        /\ UNCHANGED <<alloc, run>> /\ epoch \in [Workers -> Nat]
    BY DEF GitHubStep, Emit, Inv, TypeInv, DemandType
  <1>2. /\ \A n \in OnlineRunners : n \in Names
        /\ \A a \in OnlineRunners : a \in Allocs => run[a].name = a /\ \A k \in Jobs : gh[k].on # a
    BY DemandAssumption DEF DemandAssumption, OnlineRunners, Names
  <1>3. ASSUME NEW v \in GhRecord, gh' = [gh EXCEPT ![j] = v],
               v.status \in {"idle", "queued"} => v.on = None,
               v.on = gh[j].on \/ (gh[j].on = None /\ v.on \in OnlineRunners)
        PROVE  /\ gh' \in [Jobs -> GhRecord] /\ GitHubInv'
               /\ \A k \in Jobs : gh'[k].on = gh[k].on \/ gh[k].on = None
    <2>1. gh' \in [Jobs -> GhRecord] /\ gh'[j] = v /\ \A k \in Jobs : k # j => gh'[k] = gh[k]
      BY <1>1, <1>3
    <2>2. \A k \in Jobs : gh'[k].on = gh[k].on \/ (k = j /\ gh[k].on = None /\ gh'[k].on \in OnlineRunners)
      BY <1>3, <2>1
    <2>3. \A k \in Jobs : gh'[k].status \in {"idle", "queued"} => gh'[k].on = None
      BY <1>1, <1>3, <2>1 DEF GitHubInv
    <2>4. \A i, k \in Jobs : gh'[i].on = gh'[k].on /\ gh'[i].on \in Allocs => i = k
      BY <1>1, <1>2, <2>2 DEF GitHubInv
    <2>5. \A k \in Jobs, a \in Allocs :
             gh'[k].on = a => alloc[a].state \in {"ended", "pruned"} \/ run[a].name = a
      BY <1>1, <1>2, <2>2 DEF GitHubInv
    <2> QED BY <1>1, <2>1, <2>2, <2>3, <2>4, <2>5 DEF GitHubInv
  <1>4. CASE GitHubQueues(j)
    <2> DEFINE v == [gh[j] EXCEPT !.status = "queued"]
    <2>1. v \in GhRecord /\ v.status = "queued" /\ v.on = gh[j].on
      BY <1>1 DEF GhRecord
    <2>2. gh' = [gh EXCEPT ![j] = v] /\ gh[j].on = None
      BY <1>1, <1>4 DEF GitHubQueues, GitHubInv
    <2> HIDE DEF v
    <2> QED BY <1>3, <2>1, <2>2
  <1>5. CASE GitHubAssigns(j)
    <2>1. PICK n \in OnlineRunners :
             gh' = [gh EXCEPT ![j].status = "in_progress", ![j].on = n,
                              ![j].started = IF n \in Workers THEN epoch[n] ELSE 0]
      BY <1>5 DEF GitHubAssigns
    <2> DEFINE t == IF n \in Workers THEN epoch[n] ELSE 0
               v == [gh[j] EXCEPT !.status = "in_progress", !.on = n, !.started = t]
    <2>2. t \in Nat /\ n \in Names
      BY <1>1, <1>2, <2>1
    <2>3. gh' = [gh EXCEPT ![j] = v] /\ gh[j].on = None
      BY <1>1, <1>5, <2>1 DEF GitHubAssigns, GitHubInv
    <2> HIDE DEF t
    <2>4. v \in GhRecord /\ v.status = "in_progress" /\ v.on = n
      BY <1>1, <2>2 DEF GhRecord
    <2> HIDE DEF v
    <2> QED BY <1>3, <2>1, <2>3, <2>4
  <1>6. CASE GitHubCompletes(j)
    <2>1. PICK bare \in BOOLEAN : gh' = [gh EXCEPT ![j].status = "completed", ![j].bare = bare]
      BY <1>6 DEF GitHubCompletes
    <2> DEFINE v == [gh[j] EXCEPT !.status = "completed", !.bare = bare]
    <2>2. gh' = [gh EXCEPT ![j] = v]
      BY <1>1, <2>1
    <2>3. v \in GhRecord /\ v.status = "completed" /\ v.on = gh[j].on
      BY <1>1, <2>1 DEF GhRecord
    <2> HIDE DEF v
    <2> QED BY <1>3, <2>2, <2>3
  <1> QED BY <1>4, <1>5, <1>6 DEF GitHubStep

\* GitHub queues a job, gives it a runner or ends it, and says so.
LEMMA GitHubKeeps ==
    ASSUME Inv, NEW j \in Jobs, GitHubStep(j)
    PROVE  Inv'
  <1>1. /\ UNCHANGED <<world, alloc, run, epoch, op, backoff>>
        /\ UNCHANGED <<workCh, guids, inbox, locked, leader, worker, batch, plan, handled, faults>>
        /\ net' \subseteq net \cup {<<j, "queued">>, <<j, "in_progress">>, <<j, "completed">>}
    BY DEF GitHubStep, Emit
  <1>2. /\ gh' \in [Jobs -> GhRecord] /\ GitHubInv'
        /\ \A k \in Jobs : gh'[k].on = gh[k].on \/ gh[k].on = None
    BY GitHubView
  <1>3. TypeInv'
    <2>1. DemandType'
      BY <1>1, <1>2 DEF Inv, TypeInv, DemandType
    <2>2. net' \subseteq Deliveries
      BY <1>1 DEF Inv, TypeInv, IntakeType, Deliveries, Acts
    <2>3. IntakeType'
      BY <1>1, <2>2 DEF Inv, TypeInv, IntakeType
    <2>4. ThreadsInv'
      BY <1>1 DEF Inv, TypeInv, ThreadsInv
    <2> QED BY <2>1, <2>3, <2>4 DEF TypeInv
  <1>4. RunnerInv'
    BY <1>1 DEF Inv, RunnerInv
  <1>5. BindingInv'
    <2>1. ASSUME NEW k \in Jobs, NEW n, MayRelease(k, n) PROVE MayRelease(k, n)'
      BY <1>2, <2>1 DEF MayRelease
    <2>2. \A a \in Allocs : alloc[a].bound \in Jobs \cup {None}
      BY DEF Inv, TypeInv, DemandType, AllocRecord
    <2>3. \A r \in Replicas : op[r].rec.bound \in Jobs \cup {None}
      BY DEF Inv, TypeInv, DemandType, OpRecord, AllocRecord
    <2>4. \A r \in Replicas : op[r].pc \in Holding => op[r].job \in Jobs
      BY DEF Inv, TypeInv, DemandType, Holding
    <2>5. (\A a \in Allocs : alloc[a].bound # None => MayRelease(alloc[a].bound, alloc[a].name))'
      BY <1>1, <2>1, <2>2 DEF Inv, BindingInv
    <2>6. (\A r \in Replicas : op[r].pc \in Holding =>
             /\ alloc[op[r].a].state \in {"ready", "ended", "pruned"}
             /\ Present(op[r].a) => MayRelease(op[r].job, alloc[op[r].a].name))'
      BY <1>1, <2>1, <2>4 DEF Inv, BindingInv, Present
    <2>7. (\A r \in Replicas : op[r].pc \in {"bind", "stamp", "bound"} =>
             /\ op[r].rec.state = "ready"
             /\ op[r].rec.bound # None => MayRelease(op[r].rec.bound, op[r].rec.name)
             /\ Present(op[r].a) => /\ op[r].rec.job = alloc[op[r].a].job
                                    /\ op[r].rec.name = alloc[op[r].a].name)'
      BY <1>1, <2>1, <2>3 DEF Inv, BindingInv, Present
    <2> QED BY <2>5, <2>6, <2>7 DEF BindingInv
  <1>6. OutsidersInv'
    BY <1>1 DEF Inv, OutsidersInv
  <1>7. AttemptsInv'
    BY <1>1, AttemptsStep DEF Untouched
  <1> QED BY <1>2, <1>3, <1>4, <1>5, <1>6, <1>7 DEF Inv

-----------------------------------------------------------------------------
(* The intake.                                                              *)

\* What the queue operations do to a sequence of deliveries.
LEMMA Queues ==
    ASSUME NEW q \in Stored
    PROVE  /\ Len(q) \in Nat /\ DOMAIN q = 1 .. Len(q) /\ Range(q) \subseteq Deliveries
           /\ \A d \in Deliveries : /\ Append(q, d) \in Stored /\ Len(Append(q, d)) = Len(q) + 1
                                    /\ Range(q) \subseteq Range(Append(q, d))
                                    /\ Range(Append(q, d)) \subseteq Range(q) \cup {d}
           /\ q # <<>> => /\ Head(q) \in Deliveries /\ Tail(q) \in Stored /\ Len(Tail(q)) <= Len(q)
                          /\ Head(q) \in Range(q) /\ Range(Tail(q)) \subseteq Range(q)
  <1>1. Len(q) \in Nat /\ DOMAIN q = 1 .. Len(q) /\ Range(q) \subseteq Deliveries
    BY DEF Stored, Range
  <1>2. ASSUME NEW d \in Deliveries
        PROVE  /\ Append(q, d) \in Stored /\ Len(Append(q, d)) = Len(q) + 1
               /\ Range(q) \subseteq Range(Append(q, d))
               /\ Range(Append(q, d)) \subseteq Range(q) \cup {d}
    BY DEF Stored, Range
  <1>3. ASSUME q # <<>>
        PROVE  Head(q) \in Deliveries /\ Tail(q) \in Stored /\ Len(Tail(q)) <= Len(q)
    BY <1>3 DEF Stored
  <1>4. ASSUME q # <<>>
        PROVE  Head(q) \in Range(q) /\ Range(Tail(q)) \subseteq Range(q)
    BY <1>4 DEF Stored, Range
  <1> QED BY <1>1, <1>2, <1>3, <1>4

\* Delete takes one delivery out of the inbox, and no other.
LEMMA DeleteKeeps ==
    ASSUME inbox \in Stored, NEW d, Delete(d)
    PROVE  /\ inbox' \in Stored /\ Range(inbox) \ {d} \subseteq Range(inbox')
           /\ Range(inbox') \subseteq Range(inbox)
  <1>1. CASE UNCHANGED inbox
    BY <1>1
  <1>2. ASSUME NEW i \in DOMAIN inbox, inbox[i] = d, inbox' = RemoveAt(inbox, i)
        PROVE  /\ inbox' \in Stored /\ Range(inbox) \ {d} \subseteq Range(inbox')
               /\ Range(inbox') \subseteq Range(inbox)
    <2> DEFINE s == SubSeq(inbox, 1, i - 1)
               t == SubSeq(inbox, i + 1, Len(inbox))
    <2>1. inbox \in Seq(Deliveries) /\ i \in 1 .. Len(inbox) /\ Len(inbox) \in Nat
      BY <1>2 DEF Stored
    <2>2. /\ s \in Seq(Deliveries) /\ Len(s) = i - 1
          /\ \A k \in 1 .. i - 1 : s[k] = inbox[k]
      BY <2>1
    <2>3. /\ t \in Seq(Deliveries) /\ Len(t) = Len(inbox) - i
          /\ \A k \in 1 .. Len(inbox) - i : t[k] = inbox[k + i]
      BY <2>1
    <2>4. inbox' = s \o t
      BY <1>2 DEF RemoveAt
    <2> HIDE DEF s, t
    <2>5. /\ s \o t \in Seq(Deliveries) /\ Len(s \o t) = Len(inbox) - 1
          /\ \A k \in 1 .. i - 1 : (s \o t)[k] = inbox[k]
          /\ \A k \in i .. Len(inbox) - 1 : (s \o t)[k] = inbox[k + 1]
      <3>1. s \o t \in Seq(Deliveries) /\ Len(s \o t) = Len(inbox) - 1
        BY <2>1, <2>2, <2>3
      <3>2. \A k \in 1 .. i - 1 : (s \o t)[k] = inbox[k]
        BY <2>1, <2>2, <2>3
      <3>3. \A k \in i .. Len(inbox) - 1 : (s \o t)[k] = inbox[k + 1]
        BY <2>1, <2>2, <2>3
      <3> QED BY <3>1, <3>2, <3>3
    <2>6. ASSUME NEW k \in DOMAIN inbox, k # i PROVE inbox[k] \in Range(inbox')
      <3>1. k \in 1 .. Len(inbox)
        BY <2>1
      <3>2. CASE k < i
        <4>1. k \in 1 .. i - 1 /\ k \in DOMAIN inbox'
          BY <2>1, <2>4, <2>5, <3>1, <3>2
        <4>2. inbox'[k] = inbox[k]
          BY <2>4, <2>5, <4>1
        <4> QED BY <4>1, <4>2 DEF Range
      <3>3. CASE k > i
        <4>1. k - 1 \in i .. Len(inbox) - 1 /\ k - 1 \in DOMAIN inbox'
          BY <2>1, <2>4, <2>5, <3>1, <3>3
        <4>2. inbox'[k - 1] = inbox[k]
          BY <2>1, <2>4, <2>5, <3>1, <4>1
        <4> QED BY <4>1, <4>2 DEF Range
      <3> QED BY <2>1, <2>6, <3>1, <3>2, <3>3
    <2>7. Range(inbox) \ {d} \subseteq Range(inbox')
      BY <1>2, <2>6 DEF Range
    <2>8. ASSUME NEW k \in DOMAIN inbox' PROVE inbox'[k] \in Range(inbox)
      <3>1. k \in 1 .. Len(inbox) - 1
        BY <2>1, <2>4, <2>5
      <3>2. CASE k < i
        <4>1. k \in 1 .. i - 1 /\ k \in DOMAIN inbox
          BY <2>1, <3>1, <3>2
        <4>2. inbox'[k] = inbox[k]
          BY <2>4, <2>5, <4>1
        <4> QED BY <4>1, <4>2 DEF Range
      <3>3. CASE ~(k < i)
        <4>1. k \in i .. Len(inbox) - 1 /\ k + 1 \in DOMAIN inbox
          BY <2>1, <3>1, <3>3
        <4>2. inbox'[k] = inbox[k + 1]
          BY <2>4, <2>5, <4>1
        <4> QED BY <4>1, <4>2 DEF Range
      <3> QED BY <3>2, <3>3
    <2>9. Range(inbox') \subseteq Range(inbox)
      BY <2>8 DEF Range
    <2> QED BY <2>4, <2>5, <2>7, <2>9 DEF Stored
  <1> QED BY <1>1, <1>2 DEF Delete

\* A claim takes deliveries that are in the inbox.
LEMMA ClaimTakes ==
    ASSUME inbox \in Stored, locked \subseteq Range(inbox), NEW r \in Replicas, NEW t \in Drainers,
           batch \in [Replicas -> [Drainers -> Stored]], ClaimWebhooks(r, t)
    PROVE  /\ locked' \subseteq Range(inbox)
           /\ batch' \in [Replicas -> [Drainers -> Stored]]
           /\ \A q \in Replicas, u \in Drainers : <<q, u>> # <<r, t>> => batch'[q][u] = batch[q][u]
           /\ Range(batch'[r][t]) \subseteq Range(inbox)
  <1> DEFINE n == Min({Cardinality(Claimable), InboxBatch})
  <1>1. Len(inbox) \in Nat /\ DOMAIN inbox = 1 .. Len(inbox) /\ Range(inbox) \subseteq Deliveries
    BY Queues
  <1>2. Claimable \in SUBSET (1 .. Len(inbox))
    BY <1>1 DEF Claimable
  <1>3. Cardinality(Claimable) \in Nat
    <2>1. IsFiniteSet(1 .. Len(inbox))
      BY <1>1, FS_Interval
    <2>2. IsFiniteSet(Claimable)
      BY <1>2, <2>1, FS_Subset
    <2> QED BY <2>2, FS_CardinalityType
  <1>4. InboxBatch \in Nat
    BY IntakeAssumption DEF IntakeAssumption
  <1>5. n \in Nat
    <2> DEFINE M == {Cardinality(Claimable), InboxBatch}
    <2>1. \E x \in M : \A y \in M : x =< y
      BY <1>3, <1>4
    <2>2. Min(M) \in M
      BY <2>1, Zenon DEF Min
    <2> QED BY <1>3, <1>4, <2>2
  <1>6. PICK f \in [1 .. n -> Claimable] :
           /\ batch' = [batch EXCEPT ![r][t] = [k \in 1 .. n |-> inbox[f[k]]]]
           /\ locked' = locked \cup {inbox[i] : i \in Range(f)}
    BY DEF ClaimWebhooks
  <1> HIDE DEF n
  <1> DEFINE s == [k \in 1 .. n |-> inbox[f[k]]]
  <1>7. \A k \in 1 .. n : f[k] \in DOMAIN inbox /\ inbox[f[k]] \in Deliveries
    BY <1>1, <1>2, <1>6 DEF Range
  <1>8. s \in Stored /\ Range(s) \subseteq Range(inbox)
    <2>1. s \in Stored
      BY <1>5, <1>7 DEF Stored
    <2>2. DOMAIN s = 1 .. n /\ \A k \in 1 .. n : s[k] = inbox[f[k]]
      OBVIOUS
    <2>3. \A k \in 1 .. n : inbox[f[k]] \in Range(inbox)
      BY <1>7 DEF Range
    <2> HIDE DEF s
    <2>4. Range(s) \subseteq Range(inbox)
      BY <2>2, <2>3 DEF Range
    <2> QED BY <2>1, <2>4
  <1>9. locked' \subseteq Range(inbox)
    BY <1>1, <1>2, <1>6, <1>7 DEF Range
  <1>10. batch' = [batch EXCEPT ![r] = [batch[r] EXCEPT ![t] = s]]
    BY <1>6
  <1> HIDE DEF s
  <1>11. /\ batch' \in [Replicas -> [Drainers -> Stored]]
         /\ \A q \in Replicas, u \in Drainers : (q # r \/ u # t) => batch'[q][u] = batch[q][u]
         /\ batch'[r][t] = s
    BY <1>8, <1>10
  <1> QED BY <1>8, <1>9, <1>11

\* A step that leaves the store, the runners and GitHub alone, and lets no
\* operation take or add an allocation, keeps what is said about them.
LEMMA IntakeKeeps ==
    ASSUME Inv, UNCHANGED <<world, alloc, run, gh>>, TypeInv', OutsidersInv',
           \A q \in Replicas : op'[q] = op[q] \/ op'[q].pc \notin Holding \cup {"insert"}
    PROVE  Inv'
  <1>1. \A q \in Replicas : op'[q] = op[q] \/ HoldsWell(q)
    BY NothingHeld
  <1>2. RunnerInv' /\ GitHubInv' /\ BindingInv'
    BY <1>1, SoundStep DEF Untouched, TypeInv, DemandType
  <1>3. \A q \in Replicas : op'[q].pc = "insert" => op[q].pc = "insert" /\ op'[q].job = op[q].job
    OBVIOUS
  <1>4. AttemptsInv'
    BY <1>3, AttemptsStep DEF Untouched
  <1> QED BY <1>2, <1>4 DEF Inv

\* A step of the intake alone.
LEMMA StillKeeps ==
    ASSUME Inv, UNCHANGED demandVars, IntakeType', ThreadsInv', OutsidersInv'
    PROVE  Inv'
  <1>1. UNCHANGED <<world, alloc, run, epoch, gh, op, backoff>>
    BY DEF demandVars
  <1>2. DemandType'
    BY <1>1 DEF Inv, TypeInv, DemandType
  <1> QED BY <1>1, <1>2, IntakeKeeps DEF TypeInv

\* Deliveries are lost, repeated and unlocked, and leases end.
LEMMA NetworkKeeps ==
    ASSUME Inv, LeaseExpires \/ \E d \in Deliveries : Lose(d) \/ Redeliver(d) \/ InboxLeaseEnds(d)
    PROVE  Inv'
  <1>1. /\ UNCHANGED demandVars /\ UNCHANGED <<workCh, guids, inbox, worker, batch, plan, handled>>
        /\ net' \subseteq net \cup Deliveries /\ locked' \subseteq locked /\ leader' \in {leader, None}
    BY DEF LeaseExpires, Lose, Redeliver, InboxLeaseEnds
  <1>2. IntakeType'
    BY <1>1 DEF Inv, TypeInv, IntakeType
  <1>3. ThreadsInv'
    BY <1>1 DEF Inv, TypeInv, ThreadsInv, demandVars
  <1>4. OutsidersInv'
    BY <1>1 DEF Inv, OutsidersInv, demandVars
  <1> QED BY <1>1, <1>2, <1>3, <1>4, StillKeeps

\* A delivery is accepted, refused or put into the inbox.
LEMMA ServeKeeps ==
    ASSUME Inv, NEW r \in Replicas, NEW d \in Deliveries, Serve(r, d)
    PROVE  Inv'
  <1>1. /\ UNCHANGED demandVars /\ UNCHANGED <<locked, worker, batch, plan, handled>>
        /\ net' \subseteq net /\ r \in world.replicas
    BY DEF Serve
  <1>2. /\ workCh \in [Replicas -> Stored] /\ guids \in [Replicas -> SUBSET Deliveries] /\ inbox \in Stored
        /\ Len(workCh[r]) <= WorkCap /\ WorkCap \in Nat /\ Len(workCh[r]) \in Nat
        /\ leader \in Replicas \cup {None}
    BY Queues, IntakeAssumption DEF IntakeAssumption, Inv, TypeInv, IntakeType
  <1>3. /\ workCh' \in [Replicas -> Stored] /\ guids' \in [Replicas -> SUBSET Deliveries]
        /\ inbox' \in Stored /\ Range(inbox) \subseteq Range(inbox') /\ leader' \in Replicas \cup {None}
        /\ Len(workCh'[r]) <= WorkCap
        /\ \A q \in Replicas : q # r => workCh'[q] = workCh[q]
    <2>1. CASE Accept(r, d) /\ UNCHANGED <<workCh, guids>>
      BY <1>2, <2>1 DEF Accept, TryAcquireLeadership
    <2>2. CASE /\ Accept(r, d) /\ Len(workCh[r]) # WorkCap
               /\ workCh' = [workCh EXCEPT ![r] = Append(@, d)]
               /\ guids' = [guids EXCEPT ![r] = @ \cup {d}]
      <3>1. Append(workCh[r], d) \in Stored /\ Len(Append(workCh[r], d)) = Len(workCh[r]) + 1
        BY <1>2, Queues
      <3>2. UNCHANGED inbox /\ leader' \in Replicas \cup {None}
        BY <1>2, <2>2 DEF Accept, TryAcquireLeadership
      <3>3. workCh' \in [Replicas -> Stored] /\ workCh'[r] = Append(workCh[r], d)
        BY <1>2, <2>2, <3>1
      <3>4. Len(workCh'[r]) <= WorkCap
        BY <1>2, <2>2, <3>1, <3>3
      <3>5. guids' \in [Replicas -> SUBSET Deliveries]
        BY <1>2, <2>2
      <3> QED BY <1>2, <2>2, <3>2, <3>3, <3>4, <3>5
    <2>3. CASE enqueueForLeader(r, d)
      <3>1. Append(inbox, d) \in Stored /\ Range(inbox) \subseteq Range(Append(inbox, d))
        BY <1>2, Queues
      <3> QED BY <1>2, <2>3, <3>1 DEF enqueueForLeader
    <2> QED BY <2>1, <2>2, <2>3 DEF Serve, Accept
  <1>4. IntakeType'
    BY <1>1, <1>3 DEF Inv, TypeInv, IntakeType
  <1>5. ThreadsInv'
    BY <1>1 DEF Inv, TypeInv, ThreadsInv, demandVars
  <1>6. OutsidersInv'
    BY <1>1, <1>3 DEF Inv, OutsidersInv, demandVars
  <1> QED BY <1>1, <1>4, <1>5, <1>6, StillKeeps

\* The worker takes a delivery, and claims a batch of the inbox before it.
LEMMA WorkerKeeps ==
    ASSUME Inv, NEW r \in Replicas, WorkerTakes(r) \/ WorkerDrains(r)
    PROVE  Inv'
  <1>1. /\ UNCHANGED demandVars /\ UNCHANGED <<net, guids, inbox, leader, plan, handled>>
        /\ ClaimWebhooks(r, "worker") /\ "worker" \in Drainers
    BY DEF WorkerTakes, WorkerDrains, Drainers
  <1>2. /\ workCh \in [Replicas -> Stored] /\ workCh[r] \in Stored /\ worker \in [Replicas -> WorkerRecord]
        /\ inbox \in Stored /\ locked \subseteq Range(inbox) /\ batch \in [Replicas -> [Drainers -> Stored]]
        /\ \A q \in Replicas : Len(workCh[q]) <= WorkCap /\ Len(workCh[q]) \in Nat
        /\ WorkCap \in Nat
    BY Queues, IntakeAssumption DEF IntakeAssumption, Inv, TypeInv, IntakeType
  <1>3. /\ locked' \subseteq Range(inbox)
        /\ batch' \in [Replicas -> [Drainers -> Stored]]
        /\ \A q \in Replicas, u \in Drainers : <<q, u>> # <<r, "worker">> => batch'[q][u] = batch[q][u]
    BY <1>1, <1>2, ClaimTakes
  <1>4. /\ batch[r]["worker"] = <<>> /\ op[r].by # <<"worker", "work">> /\ r \in world.replicas
        /\ op[r].by # <<"worker", "inbox">>
    BY <1>1 DEF Inv, TypeInv, ThreadsInv, OutsidersInv, WorkerTakes, WorkerDrains, IdleWorker
  <1>5. PICK d \in Deliveries, p \in {"process", "drain"} :
           worker' = [worker EXCEPT ![r] = [item |-> d, phase |-> p]]
    <2>1. ASSUME NEW d \in Deliveries, AfterClaim(r, d)
          PROVE  \E p \in {"process", "drain"} : worker' = [worker EXCEPT ![r] = [item |-> d, phase |-> p]]
      BY <2>1 DEF AfterClaim
    <2>2. CASE WorkerTakes(r)
      BY <1>2, <2>1, <2>2, Queues DEF WorkerTakes
    <2>3. CASE WorkerDrains(r)
      BY <2>1, <2>3 DEF WorkerDrains, Inv, TypeInv, ThreadsInv
    <2> QED BY <2>2, <2>3
  <1>6. /\ worker' \in [Replicas -> WorkerRecord] /\ worker'[r].item \in Deliveries
        /\ worker'[r].phase # "idle" /\ \A q \in Replicas : q # r => worker'[q] = worker[q]
    <2>1. [item |-> d, phase |-> p] \in WorkerRecord
      BY <1>5 DEF WorkerRecord
    <2> QED BY <1>2, <1>5, <2>1
  <1>7. /\ workCh' \in [Replicas -> Stored] /\ \A q \in Replicas : Len(workCh'[q]) <= WorkCap
        /\ \A q \in Replicas : q # r => workCh'[q] = workCh[q]
    <2>1. CASE WorkerTakes(r)
      <3>1. /\ workCh[r] # <<>> /\ workCh' = [workCh EXCEPT ![r] = Tail(workCh[r])]
        BY <1>2, <2>1 DEF WorkerTakes
      <3>2. Tail(workCh[r]) \in Stored /\ Len(Tail(workCh[r])) <= Len(workCh[r])
        BY <1>2, <3>1, Queues
      <3>3. Len(Tail(workCh[r])) \in Nat
        BY <3>2, Queues
      <3> QED BY <1>2, <3>1, <3>2, <3>3
    <2>2. CASE WorkerDrains(r)
      BY <1>2, <2>2 DEF WorkerDrains
    <2> QED BY <2>1, <2>2
  <1>8. IntakeType'
    BY <1>1, <1>3, <1>6, <1>7 DEF Inv, TypeInv, IntakeType
  <1>9. \A q \in Replicas, u \in Drainers : (q # r \/ u # "worker") => batch'[q][u] = batch[q][u]
    BY <1>3
  <1>10. ThreadsInv'
    BY <1>1, <1>4, <1>6, <1>9 DEF Inv, TypeInv, ThreadsInv, demandVars, Drainers
  <1>11. OutsidersInv'
    BY <1>1, <1>4, <1>6, <1>7, <1>9 DEF Inv, OutsidersInv, demandVars
  <1> QED BY <1>1, <1>8, <1>10, <1>11, StillKeeps

\* The inbox loop claims a batch.
LEMMA TickKeeps ==
    ASSUME Inv, NEW r \in Replicas, InboxTick(r)
    PROVE  Inv'
  <1>1. /\ UNCHANGED demandVars /\ UNCHANGED <<net, workCh, guids, inbox, worker, plan, handled>>
        /\ ClaimWebhooks(r, "inbox") /\ "inbox" \in Drainers /\ r \in world.replicas
        /\ batch[r]["inbox"] = <<>> /\ TryAcquireLeadership(r)
    BY DEF InboxTick, Drainers
  <1>2. inbox \in Stored /\ locked \subseteq Range(inbox) /\ batch \in [Replicas -> [Drainers -> Stored]]
    BY DEF Inv, TypeInv, IntakeType
  <1>3. /\ locked' \subseteq Range(inbox)
        /\ batch' \in [Replicas -> [Drainers -> Stored]]
        /\ \A q \in Replicas, u \in Drainers : <<q, u>> # <<r, "inbox">> => batch'[q][u] = batch[q][u]
    BY <1>1, <1>2, ClaimTakes
  <1>4. \A q \in Replicas, u \in Drainers : (q # r \/ u # "inbox") => batch'[q][u] = batch[q][u]
    BY <1>3
  <1>5. leader' \in Replicas \cup {None}
    BY <1>1 DEF TryAcquireLeadership, Inv, TypeInv, IntakeType
  <1>6. IntakeType'
    BY <1>1, <1>3, <1>5 DEF Inv, TypeInv, IntakeType
  <1>7. ThreadsInv'
    <2>1. op[r].by # <<"inbox", "inbox">>
      BY <1>1 DEF Inv, TypeInv, ThreadsInv
    <2>2. \A q \in Replicas : batch'[q]["worker"] = batch[q]["worker"]
      BY <1>4 DEF Drainers
    <2>3. \A q \in Replicas, u \in Drainers : op[q].by = <<u, "inbox">> => batch'[q][u] # <<>>
      BY <1>4, <2>1 DEF Inv, TypeInv, ThreadsInv
    <2>4. UNCHANGED <<worker, op>>
      BY <1>1 DEF demandVars
    <2> QED BY <2>2, <2>3, <2>4 DEF Inv, TypeInv, ThreadsInv
  <1>8. OutsidersInv'
    BY <1>1, <1>4 DEF Inv, OutsidersInv, demandVars
  <1> QED BY <1>1, <1>6, <1>7, <1>8, StillKeeps

\* An acknowledged delivery leaves the inbox together with its claim.
LEMMA AckKeeps ==
    ASSUME TypeInv, NEW d, AckWebhook(d)
    PROVE  /\ inbox' \in Stored /\ locked' \subseteq Range(inbox')
           /\ Range(inbox') \subseteq Range(inbox)
  BY DeleteKeeps DEF AckWebhook, TypeInv, IntakeType

\* A drainer is done with the first delivery of its batch.
LEMMA BatchTail ==
    ASSUME TypeInv, NEW r \in Replicas, NEW t \in Drainers, batch[r][t] # <<>>,
           batch' = [batch EXCEPT ![r][t] = Tail(@)]
    PROVE  /\ batch' \in [Replicas -> [Drainers -> Stored]]
           /\ \A q \in Replicas, u \in Drainers : (q # r \/ u # t) => batch'[q][u] = batch[q][u]
           /\ batch'[r][t] = Tail(batch[r][t])
  <1>1. batch \in [Replicas -> [Drainers -> Stored]] /\ batch[r][t] \in Stored
    BY DEF TypeInv, IntakeType
  <1> DEFINE s == Tail(batch[r][t])
  <1>2. s \in Stored
    BY <1>1, Queues
  <1> DEFINE b == [batch[r] EXCEPT ![t] = s]
  <1>3. batch' = [batch EXCEPT ![r] = b]
    BY <1>1
  <1> HIDE DEF s
  <1>4. b \in [Drainers -> Stored] /\ b[t] = s /\ \A u \in Drainers : u # t => b[u] = batch[r][u]
    BY <1>1, <1>2
  <1> HIDE DEF b
  <1>5. batch' \in [Replicas -> [Drainers -> Stored]]
    BY <1>1, <1>3, <1>4
  <1>6. batch'[r] = b /\ \A q \in Replicas : q # r => batch'[q] = batch[q]
    BY <1>1, <1>3
  <1> QED BY <1>4, <1>5, <1>6 DEF s

\* A delivery is dropped for its age.
LEMMA DropExpiredKeeps ==
    ASSUME Inv, NEW r \in Replicas, NEW t \in Drainers, DropExpired(r, t)
    PROVE  Inv'
  <1>1. /\ UNCHANGED demandVars /\ UNCHANGED <<net, workCh, guids, leader, worker, plan, handled>>
        /\ batch[r][t] # <<>> /\ op[r].by # <<t, "inbox">>
        /\ batch' = [batch EXCEPT ![r][t] = Tail(@)]
    BY DEF DropExpired
  <1>2. inbox' \in Stored /\ locked' \subseteq Range(inbox')
    BY AckKeeps DEF Inv, DropExpired
  <1>3. /\ batch' \in [Replicas -> [Drainers -> Stored]]
        /\ \A q \in Replicas, u \in Drainers : (q # r \/ u # t) => batch'[q][u] = batch[q][u]
    BY <1>1, BatchTail DEF Inv
  <1>4. IntakeType'
    BY <1>1, <1>2, <1>3 DEF Inv, TypeInv, IntakeType
  <1>5. ThreadsInv'
    <2>1. t = "worker" => worker[r].phase # "idle" /\ op[r].by # <<"worker", "work">>
      BY <1>1 DEF Inv, TypeInv, ThreadsInv
    <2>2. t # "worker" => batch'[r]["worker"] = batch[r]["worker"]
      BY <1>3 DEF Drainers
    <2>3. \A u \in Drainers : op[r].by = <<u, "inbox">> => u # t
      BY <1>1
    <2>4. \A q \in Replicas : q # r => batch'[q]["worker"] = batch[q]["worker"]
      BY <1>3 DEF Drainers
    <2>5. \A q \in Replicas, u \in Drainers : op[q].by = <<u, "inbox">> => batch'[q][u] # <<>>
      BY <1>3, <2>3 DEF Inv, TypeInv, ThreadsInv
    <2>6. UNCHANGED <<worker, op>>
      BY <1>1 DEF demandVars
    <2> QED BY <2>1, <2>2, <2>4, <2>5, <2>6 DEF Inv, TypeInv, ThreadsInv
  <1>6. OutsidersInv'
    <2>1. r \in world.replicas
      BY <1>1 DEF Inv, OutsidersInv
    <2> QED BY <1>1, <1>3, <2>1 DEF Inv, OutsidersInv, demandVars
  <1> QED BY <1>1, <1>4, <1>5, <1>6, StillKeeps

\* The reconcile pass finds a queued job.
LEMMA SeesKeeps ==
    ASSUME Inv, NEW r \in Replicas, NEW j \in Jobs, ReconcileSees(r, j)
    PROVE  Inv'
  <1>1. /\ UNCHANGED demandVars /\ UNCHANGED <<net, workCh, guids, inbox, locked, worker, batch, handled>>
        /\ r \in world.replicas /\ TryAcquireLeadership(r) /\ plan' = [plan EXCEPT ![r] = j]
    BY DEF ReconcileSees
  <1>2. plan' \in [Replicas -> Jobs \cup {None}] /\ \A q \in Replicas : q # r => plan'[q] = plan[q]
    BY <1>1 DEF Inv, TypeInv, IntakeType
  <1>3. leader' \in Replicas \cup {None}
    BY <1>1 DEF TryAcquireLeadership, Inv, TypeInv, IntakeType
  <1>4. IntakeType'
    BY <1>1, <1>2, <1>3 DEF Inv, TypeInv, IntakeType
  <1>5. ThreadsInv'
    BY <1>1 DEF Inv, TypeInv, ThreadsInv, demandVars
  <1>6. OutsidersInv'
    BY <1>1, <1>2 DEF Inv, OutsidersInv, demandVars
  <1> QED BY <1>1, <1>4, <1>5, <1>6, StillKeeps

\* An operation begins: it holds nothing yet.
LEMMA BeginKeeps ==
    ASSUME Inv, NEW r \in Replicas, r \in world.replicas, NEW by \in Threads, NEW d \in Deliveries,
           NEW retry \in BOOLEAN, Process(r, by, d, retry),
           by = <<"worker", "work">> => worker[r].phase = "process" /\ batch[r]["worker"] = <<>>,
           \A t \in Drainers : by = <<t, "inbox">> => batch[r][t] # <<>>
    PROVE  Inv'
  <1> DEFINE pc == CASE d[2] = "queued" -> "allocate" [] d[2] = "in_progress" -> "claim" [] OTHER -> "conclude"
             v == [IdleOp EXCEPT !.pc = pc, !.by = by, !.job = d[1], !.act = d[2], !.retry = retry]
  <1>1. /\ UNCHANGED <<world, alloc, run, epoch, gh, backoff>> /\ UNCHANGED intakeVars
        /\ op' = [op EXCEPT ![r] = v] /\ op \in [Replicas -> OpRecord]
    BY DEF Process, BeginOp, Inv, TypeInv, DemandType
  <1>2. d[1] \in Jobs /\ d[2] \in Acts
    BY DEF Deliveries
  <1>3. pc \in {"allocate", "claim", "conclude"}
    BY <1>2 DEF Acts
  <1> HIDE DEF pc
  <1>4. v \in OpRecord /\ v.pc = pc /\ v.by = by /\ v.job = d[1] /\ v.act = d[2]
    BY <1>2, <1>3, NoneRecords DEF OpRecord, OpPCs, IdleOp
  <1> HIDE DEF v
  <1>5. /\ op' \in [Replicas -> OpRecord] /\ op'[r] = v /\ \A q \in Replicas : q # r => op'[q] = op[q]
    BY <1>1, <1>4
  <1>6. DemandType'
    BY <1>1, <1>2, <1>3, <1>4, <1>5 DEF Inv, TypeInv, DemandType, Holding
  <1>7. IntakeType'
    BY <1>1 DEF Inv, TypeInv, IntakeType, intakeVars
  <1>8. ThreadsInv'
    BY <1>1, <1>3, <1>4, <1>5 DEF Inv, TypeInv, ThreadsInv, intakeVars
  <1>9. OutsidersInv'
    BY <1>1, <1>5 DEF Inv, OutsidersInv, intakeVars
  <1>10. \A q \in Replicas : op'[q] = op[q] \/ op'[q].pc \notin Holding \cup {"insert"}
    BY <1>3, <1>4, <1>5 DEF Holding
  <1> QED BY <1>1, <1>6, <1>7, <1>8, <1>9, <1>10, IntakeKeeps DEF TypeInv

\* ... for the delivery of a drainer, of the worker, or of the poll.
LEMMA ProcessKeeps ==
    ASSUME Inv, NEW r \in Replicas,
           ProcessWork(r) \/ ProcessQueued(r) \/ \E t \in Drainers : ProcessInbox(r, t)
    PROVE  Inv'
  <1>1. CASE ProcessWork(r)
    <2>1. /\ worker[r].phase = "process" /\ batch[r]["worker"] = <<>>
          /\ Process(r, <<"worker", "work">>, worker[r].item, FALSE)
      BY <1>1 DEF ProcessWork
    <2>2. worker[r].item \in Deliveries /\ r \in world.replicas
      BY <2>1 DEF Inv, TypeInv, ThreadsInv, OutsidersInv, IdleWorker
    <2>3. \A t \in Drainers : <<"worker", "work">> # <<t, "inbox">>
      OBVIOUS
    <2> QED BY <2>1, <2>2, <2>3, BeginKeeps DEF Threads
  <1>2. CASE ProcessQueued(r)
    <2>1. plan[r] # None /\ Process(r, <<"reconcile", "poll">>, <<plan[r], "queued">>, TRUE)
      BY <1>2 DEF ProcessQueued
    <2>2. <<plan[r], "queued">> \in Deliveries /\ r \in world.replicas
      BY <2>1 DEF Inv, TypeInv, IntakeType, OutsidersInv, Deliveries, Acts
    <2>3. <<"reconcile", "poll">> # <<"worker", "work">> /\ \A t \in Drainers : <<"reconcile", "poll">> # <<t, "inbox">>
      OBVIOUS
    <2> QED BY <2>1, <2>2, <2>3, BeginKeeps DEF Threads
  <1>3. ASSUME NEW t \in Drainers, ProcessInbox(r, t) PROVE Inv'
    <2>1. batch[r][t] # <<>> /\ Process(r, <<t, "inbox">>, Head(batch[r][t]), FALSE)
      BY <1>3 DEF ProcessInbox
    <2>2. Head(batch[r][t]) \in Deliveries /\ r \in world.replicas
      BY <2>1, Queues DEF Inv, TypeInv, IntakeType, OutsidersInv
    <2>3. <<t, "inbox">> \in Threads /\ <<t, "inbox">> # <<"worker", "work">>
      BY DEF Threads
    <2>4. \A u \in Drainers : <<t, "inbox">> = <<u, "inbox">> => batch[r][u] # <<>>
      BY <2>1
    <2> QED BY <2>1, <2>2, <2>3, <2>4, BeginKeeps
  <1> QED BY <1>1, <1>2, <1>3

\* The result of an operation goes back to its thread.
LEMMA FinishProcessKeeps ==
    ASSUME Inv, NEW r \in Replicas, FinishProcess(r)
    PROVE  Inv'
  <1> DEFINE t == op[r].by[1]
             d == <<op[r].job, op[r].act>>
  <1>1. /\ op[r].pc = "done" /\ op' = [op EXCEPT ![r] = IdleOp]
        /\ UNCHANGED <<world, alloc, run, epoch, gh, backoff>> /\ UNCHANGED <<net, workCh, leader, faults>>
        /\ handled' \subseteq handled \cup {d}
    BY DEF FinishProcess
  <1>2. /\ op \in [Replicas -> OpRecord] /\ d \in Deliveries /\ op[r].by \in Threads /\ r \in world.replicas
    BY <1>1 DEF Inv, TypeInv, DemandType, OpRecord, OutsidersInv, IdleOp, Deliveries
  <1>3. /\ op' \in [Replicas -> OpRecord] /\ op'[r] = IdleOp /\ \A q \in Replicas : q # r => op'[q] = op[q]
    BY <1>1, <1>2, NoneRecords
  <1>4. IdleOp.pc = "idle" /\ IdleOp.by = <<"none", "none">>
    BY DEF IdleOp
  <1>5. DemandType'
    BY <1>1, <1>3, <1>4 DEF Inv, TypeInv, DemandType, Holding
  <1>6. \A q \in Replicas : op'[q] = op[q] \/ op'[q].pc \notin Holding \cup {"insert"}
    BY <1>3, <1>4 DEF Holding
  <1>7. ASSUME IntakeType', OutsidersInv',
               \A q \in Replicas :
                 /\ worker'[q].phase # "idle" => worker'[q].item \in Deliveries
                 /\ worker'[q].phase = "idle" => batch'[q]["worker"] = <<>>,
               \A q \in Replicas : q # r => worker'[q] = worker[q] /\ \A u \in Drainers : batch'[q][u] = batch[q][u]
        PROVE  Inv'
    <2>1. "worker" \in Drainers
      BY DEF Drainers
    <2>2. ThreadsInv'
      BY <1>3, <1>4, <1>7, <2>1 DEF Inv, TypeInv, ThreadsInv
    <2> QED BY <1>1, <1>5, <1>6, <1>7, <2>2, IntakeKeeps DEF TypeInv
  <1>8. handled' \subseteq Deliveries
    BY <1>1, <1>2 DEF Inv, TypeInv, IntakeType
  <1>9. CASE /\ op[r].by = <<"worker", "work">>
             /\ guids' = guids \/ guids' = [guids EXCEPT ![r] = @ \ {d}]
             /\ worker' = [worker EXCEPT ![r] = IdleWorker]
             /\ UNCHANGED <<inbox, locked, batch, plan>>
    <2>1. worker' \in [Replicas -> WorkerRecord] /\ worker'[r] = IdleWorker /\ \A q \in Replicas : q # r => worker'[q] = worker[q]
      BY <1>9, NoneRecords DEF Inv, TypeInv, IntakeType
    <2>2. guids' \in [Replicas -> SUBSET Deliveries]
      <3> HIDE DEF d
      <3> QED BY <1>9 DEF Inv, TypeInv, IntakeType
    <2>3. IntakeType'
      BY <1>1, <1>8, <1>9, <2>1, <2>2 DEF Inv, TypeInv, IntakeType
    <2>4. OutsidersInv'
      BY <1>1, <1>2, <1>3, <1>9, <2>1 DEF Inv, OutsidersInv
    <2>5. batch[r]["worker"] = <<>> /\ IdleWorker.phase = "idle"
      BY <1>9 DEF Inv, TypeInv, ThreadsInv, IdleWorker
    <2>6. \A q \in Replicas :
             /\ worker'[q].phase # "idle" => worker'[q].item \in Deliveries
             /\ worker'[q].phase = "idle" => batch'[q]["worker"] = <<>>
      BY <1>9, <2>1, <2>5 DEF Inv, TypeInv, ThreadsInv
    <2> QED BY <1>7, <1>9, <2>1, <2>3, <2>4, <2>6
  <1>10. CASE /\ op[r].by = <<t, "inbox">>
              /\ UNCHANGED <<inbox, locked>> \/ AckWebhook(d)
              /\ batch' = [batch EXCEPT ![r][t] = Tail(@)]
              /\ UNCHANGED <<guids, worker, plan>>
    <2>1. PICK u \in Drainers : op[r].by = <<u, "inbox">>
      BY <1>2, <1>10 DEF Threads
    <2>2. batch[r][u] # <<>> /\ batch' = [batch EXCEPT ![r][u] = Tail(@)]
      <3>1. t = u
        BY <2>1
      <3> QED BY <1>10, <2>1, <3>1 DEF Inv, TypeInv, ThreadsInv
    <2>3. inbox' \in Stored /\ locked' \subseteq Range(inbox')
      BY <1>10, AckKeeps DEF Inv, TypeInv, IntakeType
    <2>4. /\ batch' \in [Replicas -> [Drainers -> Stored]]
          /\ \A q \in Replicas, w \in Drainers : (q # r \/ w # u) => batch'[q][w] = batch[q][w]
      BY <2>1, <2>2, BatchTail DEF Inv
    <2>5. IntakeType'
      BY <1>1, <1>8, <1>10, <2>3, <2>4 DEF Inv, TypeInv, IntakeType
    <2>6. OutsidersInv'
      BY <1>1, <1>2, <1>3, <1>10, <2>4 DEF Inv, OutsidersInv
    <2>7. u = "worker" => worker[r].phase # "idle"
      BY <2>2 DEF Inv, TypeInv, ThreadsInv
    <2>8. \A q \in Replicas : (q # r \/ u # "worker") => batch'[q]["worker"] = batch[q]["worker"]
      BY <2>4 DEF Drainers
    <2>9. \A q \in Replicas :
             /\ worker'[q].phase # "idle" => worker'[q].item \in Deliveries
             /\ worker'[q].phase = "idle" => batch'[q]["worker"] = <<>>
      BY <1>10, <2>7, <2>8 DEF Inv, TypeInv, ThreadsInv
    <2> QED BY <1>7, <1>10, <2>4, <2>5, <2>6, <2>9
  <1>11. CASE /\ plan' = [plan EXCEPT ![r] = None]
              /\ UNCHANGED <<guids, inbox, locked, worker, batch>>
    <2>1. plan' \in [Replicas -> Jobs \cup {None}] /\ \A q \in Replicas : q # r => plan'[q] = plan[q]
      BY <1>11 DEF Inv, TypeInv, IntakeType
    <2>2. IntakeType'
      BY <1>1, <1>8, <1>11, <2>1 DEF Inv, TypeInv, IntakeType
    <2>3. OutsidersInv'
      BY <1>1, <1>2, <1>3, <1>11, <2>1 DEF Inv, OutsidersInv
    <2>4. \A q \in Replicas :
             /\ worker'[q].phase # "idle" => worker'[q].item \in Deliveries
             /\ worker'[q].phase = "idle" => batch'[q]["worker"] = <<>>
      BY <1>11 DEF Inv, TypeInv, ThreadsInv
    <2> QED BY <1>7, <1>11, <2>2, <2>3, <2>4
  <1> QED BY <1>9, <1>10, <1>11 DEF FinishProcess

\* A replica stops and starts again.
LEMMA CrashKeeps ==
    ASSUME Inv, NEW r \in Replicas, Crash(r)
    PROVE  Inv'
  <1>1. /\ r \in world.replicas /\ op' = [op EXCEPT ![r] = IdleOp] /\ backoff' = [backoff EXCEPT ![r] = {}]
        /\ workCh' = [workCh EXCEPT ![r] = <<>>] /\ guids' = [guids EXCEPT ![r] = {}]
        /\ worker' = [worker EXCEPT ![r] = IdleWorker]
        /\ batch' = [batch EXCEPT ![r] = [t \in Drainers |-> <<>>]]
        /\ plan' = [plan EXCEPT ![r] = None]
        /\ UNCHANGED <<world, alloc, run, epoch, gh>> /\ UNCHANGED <<net, inbox, locked, leader, handled>>
    BY DEF Crash
  <1>2. <<>> \in Stored /\ Len(<<>>) = 0 /\ WorkCap \in Nat
    BY IntakeAssumption DEF Stored, IntakeAssumption
  <1>3. /\ op' \in [Replicas -> OpRecord] /\ op'[r] = IdleOp /\ \A q \in Replicas : q # r => op'[q] = op[q]
    BY <1>1, NoneRecords DEF Inv, TypeInv, DemandType
  <1>4. IdleOp.pc = "idle" /\ IdleOp.by = <<"none", "none">> /\ IdleWorker.phase = "idle"
    BY DEF IdleOp, IdleWorker
  <1>5. DemandType'
    BY <1>1, <1>3, <1>4 DEF Inv, TypeInv, DemandType, Holding
  <1>6. /\ worker' \in [Replicas -> WorkerRecord] /\ worker'[r] = IdleWorker
        /\ \A q \in Replicas : q # r => worker'[q] = worker[q]
    BY <1>1, NoneRecords DEF Inv, TypeInv, IntakeType
  <1>7. /\ batch' \in [Replicas -> [Drainers -> Stored]]
        /\ \A t \in Drainers : batch'[r][t] = <<>>
        /\ \A q \in Replicas : q # r => batch'[q] = batch[q]
    <2> DEFINE b == [t \in Drainers |-> <<>>]
    <2>1. b \in [Drainers -> Stored] /\ \A t \in Drainers : b[t] = <<>>
      BY <1>2
    <2>2. batch' = [batch EXCEPT ![r] = b] /\ batch \in [Replicas -> [Drainers -> Stored]]
      BY <1>1 DEF Inv, TypeInv, IntakeType
    <2> HIDE DEF b
    <2> QED BY <2>1, <2>2
  <1>8. /\ workCh' \in [Replicas -> Stored] /\ workCh'[r] = <<>>
        /\ \A q \in Replicas : q # r => workCh'[q] = workCh[q]
    BY <1>1, <1>2 DEF Inv, TypeInv, IntakeType
  <1>9. /\ plan' \in [Replicas -> Jobs \cup {None}] /\ \A q \in Replicas : q # r => plan'[q] = plan[q]
        /\ guids' \in [Replicas -> SUBSET Deliveries]
    BY <1>1 DEF Inv, TypeInv, IntakeType
  <1>10. \A q \in Replicas : Len(workCh'[q]) <= WorkCap
    BY <1>2, <1>8 DEF Inv, TypeInv, IntakeType
  <1>11. IntakeType'
    BY <1>1, <1>6, <1>7, <1>8, <1>9, <1>10 DEF Inv, TypeInv, IntakeType
  <1>12. ThreadsInv'
    <2>1. "worker" \in Drainers
      BY DEF Drainers
    <2> QED BY <1>3, <1>4, <1>6, <1>7, <2>1 DEF Inv, TypeInv, ThreadsInv
  <1>13. OutsidersInv'
    BY <1>1, <1>3, <1>6, <1>7, <1>8, <1>9 DEF Inv, OutsidersInv
  <1>14. \A q \in Replicas : op'[q] = op[q] \/ op'[q].pc \notin Holding \cup {"insert"}
    BY <1>3, <1>4 DEF Holding
  <1> QED BY <1>1, <1>5, <1>11, <1>12, <1>13, <1>14, IntakeKeeps DEF TypeInv

-----------------------------------------------------------------------------
(* The theorems.                                                            *)

\* The invariant holds at the start.
LEMMA InitInv == Init => Inv
  <1> SUFFICES ASSUME Init PROVE Inv
    OBVIOUS
  <1>1. /\ IdleOp.pc = "idle" /\ IdleOp.by = <<"none", "none">> /\ IdleWorker.phase = "idle"
        /\ NoAlloc.state = "none" /\ NoAlloc.name = None /\ NoAlloc.bound = None
        /\ NoRunner.name = None /\ <<>> \in Stored /\ Len(<<>>) = 0
    BY DEF IdleOp, IdleWorker, NoAlloc, NewAlloc, NoRunner, Stored
  <1>2. DemandType
    <2>1. [status |-> "idle", on |-> None, started |-> 0, bare |-> FALSE] \in GhRecord
      BY DEF GhRecord
    <2> QED BY <1>1, <2>1, NoneRecords DEF Init, DemandInit, DemandType, Holding
  <1>3. IntakeType
    <2>1. WorkCap \in Nat
      BY IntakeAssumption DEF IntakeAssumption
    <2>2. [t \in Drainers |-> <<>>] \in [Drainers -> Stored]
      BY <1>1
    <2> QED BY <1>1, <2>1, <2>2, NoneRecords DEF Init, IntakeType
  <1>4. ThreadsInv
    BY <1>1 DEF Init, DemandInit, ThreadsInv, Drainers
  <1>5. RunnerInv
    BY <1>1 DEF Init, DemandInit, RunnerInv, RunnerOK
  <1>6. GitHubInv
    BY DemandAssumption DEF Init, DemandInit, GitHubInv, DemandAssumption
  <1>7. BindingInv
    BY <1>1 DEF Init, DemandInit, BindingInv, Holding
  <1>8. OutsidersInv
    BY DEF Init, DemandInit, OutsidersInv
  <1>9. AttemptsInv
    <2>1. \A a \in Allocs : ~Present(a) /\ alloc[a].state \notin Live
      BY <1>1 DEF Init, DemandInit, Present, Absent, Live
    <2>2. \A j : MineOf(j) = {} /\ Cardinality(MineOf(j)) = 0
      BY <2>1, FS_EmptySet DEF MineOf
    <2>3. MaxJobAllocations \in Nat \ {0}
      BY DemandAssumption DEF DemandAssumption
    <2>4. \A r \in Replicas : op[r].pc # "insert"
      BY <1>1 DEF Init, DemandInit
    <2> QED BY <2>1, <2>2, <2>3, <2>4 DEF AttemptsInv, OneLiveAllocationPerJob
  <1> QED BY <1>2, <1>3, <1>4, <1>5, <1>6, <1>7, <1>8, <1>9 DEF Inv, TypeInv

\* Every step keeps it.
LEMMA NextInv == Inv /\ [Next]_vars => Inv'
  <1> SUFFICES ASSUME Inv, [Next]_vars PROVE Inv'
    OBVIOUS
  <1>1. CASE DemandStep
    BY <1>1, OpStepKeeps, BackoffKeeps, QueueKeeps DEF DemandStep
  <1>2. CASE \E j \in Jobs : GitHubStep(j)
    BY <1>2, GitHubKeeps
  <1>3. CASE LeaseExpires \/ \E d \in Deliveries : Lose(d) \/ Redeliver(d) \/ InboxLeaseEnds(d)
    BY <1>3, NetworkKeeps
  <1>4. CASE \E r \in Replicas, d \in Deliveries : Serve(r, d)
    BY <1>4, ServeKeeps
  <1>5. CASE \E r \in Replicas : \/ WorkerTakes(r) \/ WorkerDrains(r) \/ InboxTick(r)
                                 \/ ProcessWork(r) \/ ProcessQueued(r) \/ FinishProcess(r)
                                 \/ Crash(r)
    BY <1>5, WorkerKeeps, TickKeeps, ProcessKeeps, FinishProcessKeeps, CrashKeeps
  <1>6. CASE \E r \in Replicas, t \in Drainers : ProcessInbox(r, t) \/ DropExpired(r, t)
    BY <1>6, ProcessKeeps, DropExpiredKeeps
  <1>7. CASE \E r \in Replicas, j \in Jobs : ReconcileSees(r, j)
    BY <1>7, SeesKeeps
  <1>8. CASE UNCHANGED vars
    <2>1. UNCHANGED demandVars /\ UNCHANGED intakeVars
      BY <1>8 DEF vars
    <2>2. IntakeType' /\ ThreadsInv' /\ OutsidersInv'
      BY <2>1 DEF Inv, TypeInv, IntakeType, ThreadsInv, OutsidersInv, demandVars, intakeVars
    <2> QED BY <2>1, <2>2, StillKeeps
  <1> QED BY <1>1, <1>2, <1>3, <1>4, <1>5, <1>6, <1>7, <1>8 DEF Next

\* The invariant holds in every reachable state.
LEMMA AlwaysInv == Spec => []Inv
  BY InitInv, NextInv, PTL DEF Spec

\* The variables keep their types, the work channel stays within its capacity,
\* and whatever holds a claim in the inbox is still in the inbox.
THEOREM TypesKept == Spec => []TypeOK
  <1>1. Inv => TypeOK
    <2> SUFFICES ASSUME Inv PROVE TypeOK
      OBVIOUS
    <2>1. DemandTypeOK
      BY DEF Inv, TypeInv, DemandType, DemandTypeOK, OpRecord, OpPCs, RunRecord, GhRecord
    <2>2. ASSUME NEW r \in Replicas
          PROVE  /\ Range(workCh[r]) \subseteq Deliveries /\ Len(workCh[r]) <= WorkCap
                 /\ guids[r] \subseteq Deliveries
                 /\ \A t \in Drainers : Range(batch[r][t]) \subseteq Deliveries
                 /\ worker[r].item \in Deliveries \cup {None}
      <3>1. workCh[r] \in Stored /\ \A t \in Drainers : batch[r][t] \in Stored
        BY DEF Inv, TypeInv, IntakeType
      <3>2. \A q \in Stored : Range(q) \subseteq Deliveries
        BY Queues
      <3>3. /\ Len(workCh[r]) <= WorkCap /\ guids[r] \subseteq Deliveries
            /\ worker[r].item \in Deliveries \cup {None}
        BY DEF Inv, TypeInv, IntakeType, WorkerRecord
      <3> QED BY <3>1, <3>2, <3>3
    <2>3. Range(inbox) \subseteq Deliveries
      <3>1. inbox \in Stored
        BY DEF Inv, TypeInv, IntakeType
      <3> QED BY <3>1, Queues
    <2> QED BY <2>1, <2>2, <2>3 DEF Inv, TypeInv, IntakeType, TypeOK
  <1> QED BY <1>1, AlwaysInv, PTL

\* AllocateForWorkflowJob is idempotent per job: however often a job is delivered,
\* polled or retried, on whatever replica, it has one live allocation at most.
THEOREM JobHasOneLiveAllocation == Spec => []OneLiveAllocationPerJob
  <1>1. Inv => OneLiveAllocationPerJob
    BY DEF Inv, AttemptsInv, OneLiveAllocationPerJob, Present, Live, Absent
  <1> QED BY <1>1, AlwaysInv, PTL

\* One broker process gives a job maxWorkflowJobAllocations records at most.
THEOREM AttemptsAreBounded == Spec => []BoundedAttempts
  <1>1. Inv => BoundedAttempts
    BY DEF Inv, AttemptsInv, BoundedAttempts, countWorkflowJobAllocations, MineOf
  <1> QED BY <1>1, AlwaysInv, PTL

\* The steps that remove a runner: the reaper's, which is no operation's, and
\* finishWorkflowExecution.
LEMMA RunnerRemoved ==
    ASSUME Inv, [Next]_vars, NEW r \in Replicas, NEW a \in Allocs,
           op'[r] # op[r], run[a] # NoRunner, run'[a] = NoRunner
    PROVE  FinishExecution(r) /\ op[r].a = a /\ alloc[a].state \in Live
  <1>1. /\ run \in [Allocs -> RunRecord] /\ op \in [Replicas -> OpRecord] /\ DemandType
        /\ run' # run /\ op' # op
    BY DEF Inv, TypeInv, DemandType
  <1>2. PICK q \in Replicas : OpStep(q)
    <2>1. ~UNCHANGED vars
      BY <1>1 DEF vars, demandVars
    <2>2. ~\E j \in Jobs : GitHubStep(j)
      BY <1>1 DEF GitHubStep, Emit
    <2>3. ~(LeaseExpires \/ \E d \in Deliveries : Lose(d) \/ Redeliver(d) \/ InboxLeaseEnds(d))
      BY <1>1 DEF LeaseExpires, Lose, Redeliver, InboxLeaseEnds, demandVars
    <2>4. ~\E p \in Replicas, d \in Deliveries : Serve(p, d)
      BY <1>1 DEF Serve, demandVars
    <2>5. ~\E p \in Replicas : \/ WorkerTakes(p) \/ WorkerDrains(p) \/ InboxTick(p)
                               \/ ProcessWork(p) \/ ProcessQueued(p) \/ FinishProcess(p)
                               \/ Crash(p)
      BY <1>1 DEF WorkerTakes, WorkerDrains, InboxTick, ProcessWork, ProcessQueued, Process, FinishProcess,
                  Crash, demandVars
    <2>6. ~\E p \in Replicas, t \in Drainers : ProcessInbox(p, t) \/ DropExpired(p, t)
      BY <1>1 DEF ProcessInbox, Process, DropExpired, demandVars
    <2>7. ~\E p \in Replicas, j \in Jobs : ReconcileSees(p, j)
      BY <1>1 DEF ReconcileSees, demandVars
    <2>8. \E p \in Replicas : OpStep(p)
      <3>1. DemandStep
        BY <2>1, <2>2, <2>3, <2>4, <2>5, <2>6, <2>7 DEF Next
      <3> QED BY <1>1, <3>1 DEF DemandStep, BackoffPasses, QueueReserve, QueueLaunch, QueueCommit,
                                ExpireUnclaimed, Prune
    <2> QED BY <2>8
  <1>3. ~AllocateInsert(q)
    <2> SUFFICES ASSUME AllocateInsert(q) PROVE FALSE
      OBVIOUS
    <2>1. PICK b \in Allocs : \E runner \in Runners(b) : Provision(b, runner)
      BY <1>1 DEF AllocateInsert
    <2>2. PICK runner \in Runners(b) : Provision(b, runner)
      BY <2>1
    <2>3. runner.name # None /\ NoRunner.name = None
      BY <1>1, <2>2, RunnerTypes DEF NoRunner
    <2> QED BY <1>1, <2>2, <2>3 DEF Provision
  <1>4. FinishExecution(q)
    BY <1>1, <1>2, <1>3 DEF OpStep, AllocateCheck, ClaimFind, ClaimLegacy, DropPending, BindExecution,
                            StampClaim, AfterBind, RecordConclusion, FinalizeFind
  <1>5. q = r
    BY <1>1, <1>4 DEF FinishExecution, Done
  <1>6. op[r].a \in Allocs
    BY <1>1, <1>4, <1>5 DEF FinishExecution, DemandType, Holding
  <1> QED BY <1>1, <1>4, <1>5, <1>6 DEF FinishExecution, Cleanup

\* FinalizeWorkflowJob and ClaimWorkflowJob never remove the runner that executes
\* another job: what they hold is bound to their own job, and GitHub gives a
\* runner of its own to one job only.
THEOREM RunnersOfOthersKept == Spec => OtherJobsKeepTheirRunner
  <1> DEFINE Kept == \A r \in Replicas, a \in Allocs :
                       (op[r] # op'[r] /\ run[a] # NoRunner /\ run'[a] = NoRunner)
                         => \A j \in Jobs \ {op[r].job} : ~(gh[j].status = "in_progress" /\ gh[j].on = a)
  <1>1. Inv /\ [Next]_vars => [Kept]_vars
    <2> SUFFICES ASSUME Inv, [Next]_vars, NEW r \in Replicas, NEW a \in Allocs,
                        op[r] # op'[r], run[a] # NoRunner, run'[a] = NoRunner,
                        NEW j \in Jobs \ {op[r].job}, gh[j].on = a
                 PROVE  FALSE
      OBVIOUS
    <2>1. op[r].pc = "finish" /\ op[r].a = a /\ alloc[a].state \in Live
      BY RunnerRemoved DEF FinishExecution
    <2>2. alloc[a].state = "ready" /\ MayRelease(op[r].job, alloc[a].name) /\ op[r].job \in Jobs
      BY <2>1 DEF Inv, TypeInv, DemandType, BindingInv, Holding, Present, Live, Absent
    <2>3. run[a].name = a
      BY <2>1 DEF Inv, GitHubInv, Live
    <2>4. alloc[a].name = a
      BY <2>2, <2>3 DEF Inv, RunnerInv, RunnerOK
    <2>5. a # ArcLabel
      BY DemandAssumption DEF DemandAssumption
    <2>6. gh[op[r].job].on = a
      BY <2>2, <2>4, <2>5 DEF MayRelease
    <2> QED BY <2>2, <2>6 DEF Inv, GitHubInv
  <1> QED BY <1>1, AlwaysInv, PTL DEF Spec, OtherJobsKeepTheirRunner

-----------------------------------------------------------------------------
(* The end of a job ends the allocation that ran it.  More of the state has *)
(* to be known: where events come from, which names a runner may have and   *)
(* that one process finds the record it holds as it left it.                *)

\* The broker knows of an event: it is under way, stored, waiting, in the hands
\* of a thread or handled.
Carried(d) ==
    \/ d \in net \cup handled \cup Range(inbox)
    \/ \E r \in Replicas :
         \/ d \in Range(workCh[r])
         \/ worker[r].phase # "idle" /\ d = worker[r].item
         \/ \E t \in Drainers : d \in Range(batch[r][t])
         \/ op[r].pc # "idle" /\ d = <<op[r].job, op[r].act>>
         \/ plan[r] # None /\ d = <<plan[r], "queued">>

\* GitHub has sent every event the broker knows of.
EventsInv == \A d \in Deliveries : Carried(d) => Emitted(d)

\* What GitHub does to a job, and that it sends what it has done.
LEMMA GitHubMoves ==
    ASSUME Inv, NEW j \in Jobs, GitHubStep(j)
    PROVE  /\ UNCHANGED <<world, alloc, run, op, inbox, workCh, worker, batch, plan, handled>>
           /\ \A k \in Jobs : k # j => gh'[k] = gh[k]
           /\ gh[j].status # "completed" /\ gh'[j].status # "idle"
           /\ gh[j].status = "idle" => j \in world.jobs
           /\ gh'[j].on = gh[j].on \/ gh[j].status = "queued"
           /\ gh[j].on # None => gh'[j].on = gh[j].on
           /\ \A d \in net' : d \in net \/ Emitted(d)'
  <1>1. /\ gh \in [Jobs -> GhRecord] /\ gh[j] \in GhRecord
        /\ gh[j].status \in {"idle", "queued"} => gh[j].on = None
        /\ UNCHANGED <<world, alloc, run, op, inbox, workCh, worker, batch, plan, handled>>
    BY DEF GitHubStep, Emit, Inv, TypeInv, DemandType, GitHubInv
  <1>2. CASE GitHubQueues(j) /\ Emit(<<j, "queued">>)
    <2>1. /\ gh' = [gh EXCEPT ![j].status = "queued"] /\ gh[j].status = "idle" /\ j \in world.jobs
          /\ net' \subseteq net \cup {<<j, "queued">>}
      BY <1>2 DEF GitHubQueues, Emit
    <2>2. gh'[j].status = "queued" /\ gh'[j].on = gh[j].on /\ \A k \in Jobs : k # j => gh'[k] = gh[k]
      BY <1>1, <2>1 DEF GhRecord
    <2>3. Emitted(<<j, "queued">>)'
      BY <2>2 DEF Emitted
    <2> QED BY <1>1, <2>1, <2>2, <2>3
  <1>3. CASE GitHubAssigns(j) /\ Emit(<<j, "in_progress">>)
    <2>0. GitHubAssigns(j)
      BY <1>3
    <2>1. PICK n \in OnlineRunners :
             gh' = [gh EXCEPT ![j].status = "in_progress", ![j].on = n,
                              ![j].started = IF n \in Workers THEN epoch[n] ELSE 0]
      BY <2>0 DEF GitHubAssigns
    <2>2. gh[j].status = "queued" /\ net' \subseteq net \cup {<<j, "in_progress">>}
      BY <1>3 DEF GitHubAssigns, Emit
    <2>3. n # None
      BY DemandAssumption DEF DemandAssumption, OnlineRunners
    <2>4. gh'[j].status = "in_progress" /\ gh'[j].on = n /\ \A k \in Jobs : k # j => gh'[k] = gh[k]
      BY <1>1, <2>1 DEF GhRecord
    <2>5. Emitted(<<j, "in_progress">>)'
      BY <2>3, <2>4 DEF Emitted
    <2> QED BY <1>1, <2>2, <2>4, <2>5
  <1>4. CASE GitHubCompletes(j) /\ Emit(<<j, "completed">>)
    <2>1. PICK bare \in BOOLEAN : gh' = [gh EXCEPT ![j].status = "completed", ![j].bare = bare]
      BY <1>4 DEF GitHubCompletes
    <2>2. gh[j].status \in {"queued", "in_progress"} /\ net' \subseteq net \cup {<<j, "completed">>}
      BY <1>4 DEF GitHubCompletes, Emit
    <2>3. gh'[j].status = "completed" /\ gh'[j].on = gh[j].on /\ \A k \in Jobs : k # j => gh'[k] = gh[k]
      BY <1>1, <2>1 DEF GhRecord
    <2>4. Emitted(<<j, "completed">>)'
      BY <2>3 DEF Emitted
    <2> QED BY <1>1, <2>2, <2>3, <2>4
  <1> QED BY <1>2, <1>3, <1>4 DEF GitHubStep

\* What has been sent stays sent.
LEMMA EmittedStays ==
    ASSUME Inv, gh' = gh \/ \E j \in Jobs : GitHubStep(j), NEW d \in Deliveries, Emitted(d)
    PROVE  Emitted(d)'
  <1>1. CASE gh' = gh
    BY <1>1 DEF Emitted
  <1>2. ASSUME NEW j \in Jobs, GitHubStep(j) PROVE Emitted(d)'
    <2>1. PICK k \in Jobs, act \in Acts : d = <<k, act>>
      BY DEF Deliveries
    <2>2. /\ gh[j].status # "completed" /\ gh'[j].status # "idle" /\ (gh[j].on # None => gh'[j].on = gh[j].on)
          /\ \A i \in Jobs : i # j => gh'[i] = gh[i]
      BY <1>2, GitHubMoves
    <2> QED BY <2>1, <2>2 DEF Emitted, Acts
  <1> QED BY <1>1, <1>2

-----------------------------------------------------------------------------
(* What the operations do, one lemma per operation.                         *)

\* A conclusion that is stored on a record survives every write of a field.
LEMMA RecDeferred ==
    ASSUME NEW x \in AllocRecord
    PROVE  /\ \A s \in States : [x EXCEPT !.state = s].deferred = x.deferred
           /\ \A j \in Jobs : [x EXCEPT !.bound = j].deferred = x.deferred
           /\ [x EXCEPT !.claimed = TRUE].deferred = x.deferred
           /\ [x EXCEPT !.deferred = TRUE].deferred = TRUE
  <1> DEFINE B == BOOLEAN
  <1>1. TRUE \in B /\ AllocRecord = [state : States, job : Jobs \cup {None}, bound : Jobs \cup {None},
                                    deferred : B, claimed : B, name : Names \cup {None}, lease : Nat]
    BY DEF AllocRecord, States
  <1> HIDE DEF B
  <1> QED BY <1>1

\* At most the state of a record that is there changes, and it does not become
\* ready.
Restated(x) ==
    /\ Present(x)' <=> Present(x)
    /\ alloc'[x].job = alloc[x].job /\ alloc'[x].name = alloc[x].name
    /\ alloc'[x].bound = alloc[x].bound /\ alloc'[x].deferred = alloc[x].deferred
    /\ alloc'[x].state = "ready" => alloc'[x] = alloc[x]

\* The names a runner of the allocation x may have in this deployment.
MayBeNamed(x, n) ==
    \/ n \in Workers \cup {None}
    \/ n = x /\ "jit" \in world.drivers
    \/ n = ArcLabel /\ "arc" \in world.drivers

\* The state of one record is written.
LEMMA RestateOne ==
    ASSUME Inv, NEW o \in Allocs, Present(o), NEW s \in {"ended", "reserved"},
           alloc' = [alloc EXCEPT ![o].state = s]
    PROVE  alloc'[o].state = s /\ \A x \in Allocs : Restated(x) /\ (x # o => alloc'[x] = alloc[x])
  <1> DEFINE v == [alloc[o] EXCEPT !.state = s]
  <1>1. alloc \in [Allocs -> AllocRecord] /\ alloc[o] \in AllocRecord /\ s \in States
    BY DEF Inv, TypeInv, DemandType, States, Terminal, Live
  <1>2. /\ v.state = s /\ v.job = alloc[o].job /\ v.name = alloc[o].name
        /\ v.bound = alloc[o].bound /\ v.deferred = alloc[o].deferred
    BY <1>1, RecFields, RecDeferred
  <1>3. alloc' = [alloc EXCEPT ![o] = v]
    BY <1>1
  <1> HIDE DEF v
  <1>4. alloc'[o] = v /\ \A x \in Allocs : x # o => alloc'[x] = alloc[x]
    BY <1>1, <1>3
  <1> QED BY <1>2, <1>4 DEF Restated, Present, Absent

\* A pending demand is cancelled, or was pending no more.
LEMMA CancelRestates ==
    ASSUME Inv, NEW o \in Allocs, cancelPendingWorkflowDemand(o)
    PROVE  \A x \in Allocs : Restated(x)
  <1>1. CASE alloc[o].state = "pending"
    BY <1>1, RestateOne DEF cancelPendingWorkflowDemand, Present, Absent
  <1>2. CASE alloc[o].state # "pending"
    BY <1>2 DEF cancelPendingWorkflowDemand, Restated, Present
  <1> QED BY <1>1, <1>2

\* AllocateForWorkflowJob's first read.
LEMMA CheckEffect ==
    ASSUME Inv, NEW r \in Replicas, AllocateCheck(r)
    PROVE  /\ op[r].pc = "allocate" /\ OpMove(r) /\ UNCHANGED <<world, alloc, run, gh>>
           /\ op'[r].pc \in {"done", "insert"}
           /\ op'[r].pc = "insert" => MineOf(op[r].job) = {} \/ op[r].retry
  <1>1. op[r].pc = "allocate" /\ DemandType /\ UNCHANGED <<world, alloc, run, gh>>
    BY DEF AllocateCheck, Inv, TypeInv
  <1>2. CASE Done(r, "duplicate")
    BY <1>1, <1>2, DoneMove
  <1>3. CASE findByWorkflowJobID(op[r].job) = {} /\ Goto(r, "insert")
    <2>1. MineOf(op[r].job) = {}
      BY <1>3 DEF findByWorkflowJobID, MineOf
    <2>2. OpMove(r) /\ op'[r].pc = "insert"
      BY <1>1, <1>3, GotoMove DEF OpPCs, Holding
    <2> QED BY <1>1, <2>1, <2>2
  <1>4. ASSUME NEW a \in findByWorkflowJobID(op[r].job), op[r].retry,
               op' = [op EXCEPT ![r].pc = "insert", ![r].a = a, ![r].rec = alloc[a]]
        PROVE  OpMove(r) /\ op'[r].pc = "insert"
    <2>1. Hold(r, "insert", a) /\ a \in Allocs
      BY <1>4, Lookups DEF Hold, Inv
    <2> QED BY <1>1, <2>1, HoldMove DEF OpPCs
  <1> QED BY <1>1, <1>2, <1>3, <1>4 DEF AllocateCheck

\* Allocate adds a record, or does not.
LEMMA InsertEffect ==
    ASSUME Inv, NEW r \in Replicas, AllocateInsert(r)
    PROVE  /\ op[r].pc = "insert" /\ OpMove(r) /\ op'[r].pc = "done" /\ UNCHANGED <<world, gh>>
           /\ \/ UNCHANGED <<alloc, run>>
              \/ \E x \in Allocs :
                   /\ alloc[x].state = "none" /\ alloc'[x].state \in {"ready", "pending", "ended"}
                   /\ alloc'[x].job = op[r].job /\ alloc'[x].bound = None
                   /\ MayBeNamed(x, alloc'[x].name) /\ MayBeNamed(x, run'[x].name)
                   /\ \A y \in Allocs : y # x => alloc'[y] = alloc[y] /\ run'[y] = run[y]
  <1> DEFINE j == op[r].job
             Added(x) == /\ alloc[x].state = "none" /\ alloc'[x].state \in {"ready", "pending", "ended"}
                         /\ alloc'[x].job = op[r].job /\ alloc'[x].bound = None
                         /\ MayBeNamed(x, alloc'[x].name) /\ MayBeNamed(x, run'[x].name)
                         /\ \A y \in Allocs : y # x => alloc'[y] = alloc[y] /\ run'[y] = run[y]
  <1>1. /\ op[r].pc = "insert" /\ DemandType /\ j \in Jobs /\ UNCHANGED <<world, gh>>
        /\ alloc \in [Allocs -> AllocRecord] /\ run \in [Allocs -> RunRecord]
        /\ {"ready", "pending", "ended"} \subseteq States
    BY DEF AllocateInsert, Inv, TypeInv, DemandType, States, Live, Terminal
  <1>2. ASSUME NEW out \in {"ok", "error"}, Done(r, out)
        PROVE  OpMove(r) /\ op'[r].pc = "done"
    BY <1>1, <1>2, DoneMove
  <1>3. ASSUME NEW x \in Allocs, FreshAlloc(x), NEW runner \in Runners(x),
               alloc' = [alloc EXCEPT ![x] = NewAlloc("ready", j, runner)], Provision(x, runner)
        PROVE  Added(x)
    <2> DEFINE v == NewAlloc("ready", j, runner)
    <2>1. runner \in RunRecord
      BY <1>1, RunnerTypes
    <2>2. v.state = "ready" /\ v.job = j /\ v.name = runner.name /\ v.bound = None
      BY <1>1, <2>1, FreshFields
    <2>3. MayBeNamed(x, runner.name)
      BY DEF Runners, MayBeNamed
    <2>4. alloc' = [alloc EXCEPT ![x] = v] /\ run' = [run EXCEPT ![x] = runner]
      BY <1>3 DEF Provision
    <2> HIDE DEF v
    <2> QED BY <1>1, <1>3, <2>2, <2>3, <2>4 DEF FreshAlloc, Present, Absent
  <1>4. ASSUME NEW x \in Allocs, FreshAlloc(x), NEW s \in {"pending", "ended"},
               alloc' = [alloc EXCEPT ![x] = NewAlloc(s, j, NoRunner)], UNCHANGED run
        PROVE  Added(x)
    <2> DEFINE v == NewAlloc(s, j, NoRunner)
    <2>1. NoRunner \in RunRecord /\ NoRunner.name = None
      BY NoneRecords DEF NoRunner
    <2>2. v.state = s /\ v.job = j /\ v.name = None /\ v.bound = None
      BY <1>1, <2>1, FreshFields
    <2>3. alloc' = [alloc EXCEPT ![x] = v] /\ run[x] = NoRunner
      BY <1>4 DEF FreshAlloc, Inv, RunnerInv, RunnerOK
    <2> HIDE DEF v
    <2> QED BY <1>1, <1>4, <2>1, <2>2, <2>3 DEF FreshAlloc, Present, Absent, MayBeNamed
  <1> HIDE DEF Added
  <1>5. OpMove(r) /\ op'[r].pc = "done" /\ (UNCHANGED <<alloc, run>> \/ \E x \in Allocs : Added(x))
    BY <1>2, <1>3, <1>4 DEF AllocateInsert
  <1> QED BY <1>1, <1>5 DEF Added

\* ClaimWorkflowJob and FinalizeWorkflowJob look for the runner.
LEMMA FindEffect ==
    ASSUME Inv, NEW r \in Replicas, ClaimFind(r) \/ ClaimLegacy(r) \/ FinalizeFind(r)
    PROVE  /\ op[r].pc \in {"claim", "legacy", "finalize"}
           /\ OpMove(r) /\ UNCHANGED <<world, alloc, run, gh>>
           /\ op'[r].pc \in {"done", "legacy", "drop", "bind", "finish"}
           /\ op'[r].pc \in {"legacy", "drop"} => op[r].pc \in {"claim", "finalize"}
           /\ op'[r].pc = "legacy" => op[r].pc = "claim"
           /\ op'[r].pc = "bind" => op'[r].rec = alloc[op'[r].a]
           /\ op'[r].pc = "bind" /\ op[r].pc = "finalize" =>
                gh[op[r].job].on # None \/ alloc[op'[r].a].bound = op[r].job
  <1> DEFINE j == op[r].job
  <1>1. /\ op[r].pc \in {"claim", "legacy", "finalize"} /\ DemandType /\ UNCHANGED <<world, alloc, run, gh>>
    BY DEF ClaimFind, ClaimLegacy, FinalizeFind, Inv, TypeInv
  <1>2. ASSUME NEW out \in {"ok", "unknown"}, Done(r, out) PROVE OpMove(r) /\ op'[r].pc = "done"
    BY <1>1, <1>2, DoneMove
  <1>3. ASSUME Goto(r, "legacy") PROVE OpMove(r) /\ op'[r].pc = "legacy"
    BY <1>1, <1>3, GotoMove DEF OpPCs, Holding
  <1>4. ASSUME NEW a \in Allocs, NEW pc \in {"bind", "drop", "finish"}, Hold(r, pc, a)
        PROVE  OpMove(r) /\ op'[r].pc = pc /\ op'[r].a = a /\ op'[r].rec = alloc[a]
    BY <1>1, <1>4, HoldMove DEF OpPCs
  <1>5. ASSUME NEW runner, NEW a \in executionAllocation(j, runner)
        PROVE  a \in Allocs /\ (runner # None \/ alloc[a].bound = j)
    BY <1>5, Lookups DEF Inv
  <1>6. \A a \in findByWorkflowJobID(j) : a \in Allocs
    BY Lookups DEF Inv
  <1>7. CASE ClaimFind(r)
    BY <1>1, <1>2, <1>3, <1>4, <1>5, <1>6, <1>7 DEF ClaimFind
  <1>8. CASE ClaimLegacy(r)
    BY <1>1, <1>2, <1>4, <1>6, <1>8 DEF ClaimLegacy
  <1>9. CASE FinalizeFind(r)
    BY <1>1, <1>2, <1>4, <1>5, <1>6, <1>9 DEF FinalizeFind
  <1> QED BY <1>7, <1>8, <1>9

\* A superfluous pending demand is dropped.
LEMMA DropEffect ==
    ASSUME Inv, NEW r \in Replicas, DropPending(r)
    PROVE  /\ op[r].pc = "drop" /\ OpMove(r) /\ UNCHANGED <<world, run, gh>>
           /\ \A x \in Allocs : Restated(x)
           /\ op'[r].pc = "done" \/ (op'[r].pc = "legacy" /\ op[r].act # "completed")
  <1>1. op[r].pc = "drop" /\ DemandType /\ op[r].a \in Allocs /\ UNCHANGED <<world, run, gh>>
    BY DEF DropPending, Inv, TypeInv, DemandType
  <1>2. \A x \in Allocs : Restated(x)
    BY <1>1, CancelRestates DEF DropPending
  <1>3. CASE Done(r, "ok") \/ Done(r, "unknown")
    BY <1>1, <1>2, <1>3, DoneMove
  <1>4. CASE Goto(r, "legacy") /\ op[r].act # "completed"
    BY <1>1, <1>2, <1>4, GotoMove DEF OpPCs, Holding
  <1> QED BY <1>3, <1>4 DEF DropPending

\* The binding and the stamps of a claim: the record is written, was bound
\* already, or is no longer what was read.
LEMMA BindEffect ==
    ASSUME Inv, NEW r \in Replicas, BindExecution(r) \/ StampClaim(r)
    PROVE  /\ op[r].pc \in {"bind", "stamp"} /\ op[r].a \in Allocs /\ op[r].rec.state = "ready"
           /\ OpMove(r) /\ UNCHANGED <<world, run, gh>>
           /\ \/ alloc' = alloc /\ op'[r].pc = "done" /\ op'[r].out = "error"
              \/ /\ op'[r].a = op[r].a
                 /\ op'[r].pc = "stamp" => op[r].pc = "bind" /\ op[r].act # "completed"
                 /\ op'[r].pc \in {"stamp", "bound"}
                 /\ \/ /\ alloc' = alloc /\ op'[r].rec = op[r].rec
                       /\ op[r].rec.bound = op[r].job
                    \/ /\ alloc[op[r].a].state = "ready" /\ alloc'[op[r].a] = op'[r].rec
                       /\ \A x \in Allocs : x # op[r].a => alloc'[x] = alloc[x]
                       /\ op'[r].rec.state = "ready" /\ op'[r].rec.job = op[r].rec.job
                       /\ op'[r].rec.name = op[r].rec.name /\ op'[r].rec.deferred = op[r].rec.deferred
                       /\ op'[r].rec.bound = IF op[r].pc = "bind" THEN op[r].job ELSE op[r].rec.bound
  <1>1. /\ op[r].pc \in {"bind", "stamp"} /\ DemandType /\ op[r].a \in Allocs /\ op[r].job \in Jobs
        /\ op[r].rec \in AllocRecord /\ op[r].rec.state = "ready" /\ alloc \in [Allocs -> AllocRecord]
        /\ UNCHANGED <<world, run, gh>>
    BY DEF BindExecution, StampClaim, Inv, TypeInv, DemandType, OpRecord, Holding, BindingInv
  <1>2. CASE StampClaim(r)
    <2> DEFINE rec == [op[r].rec EXCEPT !.claimed = TRUE]
    <2>1. /\ rec \in AllocRecord /\ rec.state = "ready" /\ rec.job = op[r].rec.job
          /\ rec.name = op[r].rec.name /\ rec.bound = op[r].rec.bound /\ rec.deferred = op[r].rec.deferred
      BY <1>1, RecFields, RecDeferred
    <2>2. SaveIfState(r, rec, "bound") /\ op[r].pc = "stamp"
      BY <1>2 DEF StampClaim
    <2> HIDE DEF rec
    <2>3. /\ OpMove(r)
          /\ \/ /\ alloc[op[r].a].state = rec.state
                /\ alloc' = [alloc EXCEPT ![op[r].a] = rec]
                /\ op'[r].pc = "bound" /\ op'[r].a = op[r].a /\ op'[r].rec = rec
             \/ alloc' = alloc /\ op'[r].pc = "done" /\ op'[r].out = "error"
      BY <1>1, <2>1, <2>2, SaveMove DEF OpPCs
    <2> QED BY <1>1, <2>1, <2>2, <2>3
  <1>3. CASE BindExecution(r)
    <2> DEFINE next == IF op[r].act = "completed" THEN "bound" ELSE "stamp"
               rec == [op[r].rec EXCEPT !.bound = op[r].job]
    <2>1. op[r].pc = "bind" /\ next \in {"bound", "stamp"} /\ (next = "stamp" => op[r].act # "completed")
      BY <1>3 DEF BindExecution
    <2> HIDE DEF next
    <2>2. CASE op[r].rec.bound = op[r].job
      <3>1. Goto(r, next) /\ UNCHANGED alloc
        BY <1>3, <2>2 DEF BindExecution, next
      <3>2. OpMove(r) /\ op'[r].pc = next /\ op'[r].a = op[r].a /\ op'[r].rec = op[r].rec
        BY <1>1, <2>1, <3>1, GotoMove DEF OpPCs
      <3> QED BY <1>1, <2>1, <2>2, <3>1, <3>2
    <2>3. CASE op[r].rec.bound # op[r].job
      <3>1. SaveIfState(r, rec, next)
        BY <1>3, <2>3 DEF BindExecution, next
      <3>2. /\ rec \in AllocRecord /\ rec.state = "ready" /\ rec.job = op[r].rec.job
            /\ rec.name = op[r].rec.name /\ rec.bound = op[r].job /\ rec.deferred = op[r].rec.deferred
        BY <1>1, RecFields, RecDeferred
      <3> HIDE DEF rec
      <3>3. /\ OpMove(r)
            /\ \/ /\ alloc[op[r].a].state = rec.state
                  /\ alloc' = [alloc EXCEPT ![op[r].a] = rec]
                  /\ op'[r].pc = next /\ op'[r].a = op[r].a /\ op'[r].rec = rec
               \/ alloc' = alloc /\ op'[r].pc = "done" /\ op'[r].out = "error"
        BY <1>1, <2>1, <3>1, <3>2, SaveMove DEF OpPCs
      <3> QED BY <1>1, <2>1, <3>2, <3>3
    <2> QED BY <2>2, <2>3
  <1> QED BY <1>2, <1>3

\* What follows a binding.
LEMMA AfterBindEffect ==
    ASSUME Inv, NEW r \in Replicas, AfterBind(r)
    PROVE  /\ op[r].pc = "bound" /\ OpMove(r) /\ UNCHANGED <<world, run, gh>>
           /\ \A x \in Allocs : Restated(x)
           /\ \/ op'[r].pc = "finish" /\ op'[r].a = op[r].a
              \/ /\ op'[r].pc = "done" /\ op[r].act = "in_progress"
                 /\ \/ findByWorkflowJobID(op[r].job) = {}
                    \/ \E o \in findByWorkflowJobID(op[r].job) : ~alloc[o].deferred
  <1>1. op[r].pc = "bound" /\ DemandType /\ op[r].a \in Allocs /\ UNCHANGED <<world, run, gh>>
    BY DEF AfterBind, Inv, TypeInv, DemandType, Holding
  <1>2. \A x \in Allocs : Restated(x)
    <2>1. CASE alloc' = alloc
      BY <2>1 DEF Restated, Present
    <2>2. ASSUME NEW o \in Surplus(r), cancelPendingWorkflowDemand(o) PROVE \A x \in Allocs : Restated(x)
      <3>1. o \in Allocs
        BY Lookups DEF Surplus, Inv
      <3> QED BY <2>2, <3>1, CancelRestates
    <2> QED BY <2>1, <2>2 DEF AfterBind
  <1>3. Done(r, "ok") => OpMove(r) /\ op'[r].pc = "done"
    BY <1>1, DoneMove
  <1>4. Goto(r, "finish") => OpMove(r) /\ op'[r].pc = "finish" /\ op'[r].a = op[r].a
    BY <1>1, GotoMove DEF OpPCs
  <1> QED BY <1>1, <1>2, <1>3, <1>4 DEF AfterBind

\* The conclusion of a job goes onto a record of its own demand.
LEMMA ConcludeEffect ==
    ASSUME Inv, NEW r \in Replicas, RecordConclusion(r)
    PROVE  /\ op[r].pc = "conclude" /\ OpMove(r) /\ op'[r].pc = "finalize" /\ UNCHANGED <<world, run, gh>>
           /\ \/ alloc' = alloc /\ findByWorkflowJobID(op[r].job) = {}
              \/ \E o \in findByWorkflowJobID(op[r].job) :
                   /\ alloc'[o].deferred /\ alloc'[o].state = alloc[o].state /\ alloc'[o].job = alloc[o].job
                   /\ alloc'[o].name = alloc[o].name /\ alloc'[o].bound = alloc[o].bound
                   /\ \A x \in Allocs : x # o => alloc'[x] = alloc[x]
  <1>1. /\ op[r].pc = "conclude" /\ DemandType /\ UNCHANGED <<world, run, gh>>
        /\ alloc \in [Allocs -> AllocRecord]
    BY DEF RecordConclusion, Inv, TypeInv, DemandType
  <1>2. OpMove(r) /\ op'[r].pc = "finalize"
    BY <1>1, GotoMove DEF RecordConclusion, OpPCs, Holding
  <1>3. ASSUME NEW o \in findByWorkflowJobID(op[r].job), alloc' = [alloc EXCEPT ![o].deferred = TRUE]
        PROVE  /\ alloc'[o].deferred /\ alloc'[o].state = alloc[o].state /\ alloc'[o].job = alloc[o].job
               /\ alloc'[o].name = alloc[o].name /\ alloc'[o].bound = alloc[o].bound
               /\ \A x \in Allocs : x # o => alloc'[x] = alloc[x]
    <2> DEFINE v == [alloc[o] EXCEPT !.deferred = TRUE]
    <2>1. o \in Allocs /\ alloc[o] \in AllocRecord
      BY <1>1, Lookups DEF Inv
    <2>2. /\ v.deferred = TRUE /\ v.state = alloc[o].state /\ v.job = alloc[o].job
          /\ v.name = alloc[o].name /\ v.bound = alloc[o].bound
      BY <2>1, RecFields, RecDeferred
    <2>3. alloc' = [alloc EXCEPT ![o] = v]
      BY <1>1, <1>3, <2>1
    <2> HIDE DEF v
    <2> QED BY <1>1, <2>1, <2>2, <2>3
  <1> QED BY <1>1, <1>2, <1>3 DEF RecordConclusion

\* The allocation an operation holds ends.
LEMMA FinishEffect ==
    ASSUME Inv, NEW r \in Replicas, FinishExecution(r)
    PROVE  /\ op[r].pc = "finish" /\ op[r].a \in Allocs /\ OpMove(r) /\ op'[r].pc = "done"
           /\ UNCHANGED <<world, gh>>
           /\ \A x \in Allocs : Restated(x) /\ run'[x] \in {run[x], NoRunner}
           /\ alloc'[op[r].a].state \notin Live
  <1>1. /\ op[r].pc = "finish" /\ DemandType /\ op[r].a \in Allocs
        /\ UNCHANGED <<world, gh>> /\ Done(r, "ok") /\ run \in [Allocs -> RunRecord]
    BY DEF FinishExecution, Inv, TypeInv, DemandType, Holding
  <1>2. OpMove(r) /\ op'[r].pc = "done"
    BY <1>1, DoneMove
  <1>3. CASE alloc[op[r].a].state \notin Live
    BY <1>1, <1>2, <1>3 DEF FinishExecution, Restated, Present
  <1>4. CASE alloc[op[r].a].state \in Live
    <2>1. alloc' = [alloc EXCEPT ![op[r].a].state = "ended"] /\ run' = [run EXCEPT ![op[r].a] = NoRunner]
      BY <1>4 DEF FinishExecution, Cleanup
    <2>2. alloc'[op[r].a].state = "ended" /\ \A x \in Allocs : Restated(x)
      BY <1>1, <1>4, <2>1, RestateOne DEF Present, Live, Absent
    <2> QED BY <1>1, <1>2, <2>1, <2>2 DEF Live
  <1> QED BY <1>3, <1>4

\* The loops: a record is reserved, launched, committed, expired or removed.
Committed(x) ==
    /\ alloc[x].state = "reserved" /\ alloc'[x].state = "ready"
    /\ alloc'[x].job = alloc[x].job /\ alloc'[x].name = run[x].name
    /\ alloc'[x].bound = alloc[x].bound /\ alloc'[x].deferred = alloc[x].deferred
Removed(x) ==
    /\ "prune" \in world.loops /\ alloc[x].state = "ended" /\ alloc'[x].state = "pruned"
    /\ alloc'[x].job = None /\ alloc'[x].bound = None /\ alloc'[x].name = None

\* A tick of the queue loop, of the reaper or of retention does one of these.
LEMMA LoopEffect ==
    ASSUME Inv, NEW a \in Allocs,
           \/ QueueReserve(a) \/ QueueLaunch(a) \/ QueueCommit(a)
           \/ ExpireUnclaimed(a) \/ Prune(a)
    PROVE  /\ UNCHANGED <<world, gh, op>>
           /\ \A x \in Allocs : /\ Restated(x) \/ Committed(x) \/ Removed(x)
                                /\ \/ run'[x] \in {run[x], NoRunner}
                                   \/ alloc[x].state = "reserved" /\ MayBeNamed(x, run'[x].name)
  <1>1. /\ DemandType /\ UNCHANGED <<world, gh, op>>
        /\ alloc \in [Allocs -> AllocRecord] /\ alloc[a] \in AllocRecord
        /\ run \in [Allocs -> RunRecord] /\ run[a] \in RunRecord
    BY DEF Inv, TypeInv, DemandType, QueueReserve, QueueLaunch, QueueCommit, ExpireUnclaimed, Prune
  <1>2. CASE QueueReserve(a)
    <2>1. Present(a) /\ alloc' = [alloc EXCEPT ![a].state = "reserved"] /\ run' = run
      BY <1>2 DEF QueueReserve, Present, Absent
    <2> QED BY <1>1, <2>1, RestateOne
  <1>3. CASE QueueLaunch(a)
    <2>1. PICK runner \in Runners(a) : Provision(a, runner)
      BY <1>3 DEF QueueLaunch
    <2>2. MayBeNamed(a, runner.name) /\ run' = [run EXCEPT ![a] = runner]
      BY <2>1 DEF Runners, MayBeNamed, Provision
    <2>3. alloc' = alloc /\ alloc[a].state = "reserved"
      BY <1>3 DEF QueueLaunch
    <2>4. \A x \in Allocs : Restated(x)
      BY <2>3 DEF Restated, Present
    <2> QED BY <1>1, <2>2, <2>3, <2>4
  <1>4. CASE QueueCommit(a)
    <2> DEFINE x == [alloc[a] EXCEPT !.state = "ready", !.name = run[a].name, !.lease = run[a].lease]
    <2>1. /\ x.state = "ready" /\ x.job = alloc[a].job /\ x.name = run[a].name /\ x.bound = alloc[a].bound
          /\ x.deferred = alloc[a].deferred
      <3> DEFINE B == BOOLEAN
      <3>1. AllocRecord = [state : States, job : Jobs \cup {None}, bound : Jobs \cup {None},
                           deferred : B, claimed : B, name : Names \cup {None}, lease : Nat]
        BY DEF AllocRecord, States
      <3> HIDE DEF B
      <3> QED BY <1>1, <3>1
    <2>2. alloc' = [alloc EXCEPT ![a] = x] /\ run' = run /\ alloc[a].state = "reserved"
      BY <1>1, <1>4 DEF QueueCommit
    <2> HIDE DEF x
    <2>3. Committed(a) /\ \A y \in Allocs : y # a => Restated(y)
      BY <1>1, <2>1, <2>2 DEF Committed, Restated, Present
    <2> QED BY <1>1, <2>2, <2>3
  <1>5. CASE ExpireUnclaimed(a)
    <2>1. /\ Present(a) /\ alloc' = [alloc EXCEPT ![a].state = "ended"] /\ run' = [run EXCEPT ![a] = NoRunner]
      BY <1>5 DEF ExpireUnclaimed, Present, Absent, Cleanup
    <2> QED BY <1>1, <2>1, RestateOne
  <1>6. CASE Prune(a)
    <2> DEFINE x == NewAlloc("pruned", None, NoRunner)
    <2>1. x.state = "pruned" /\ x.job = None /\ x.name = None /\ x.bound = None
      BY DEF NewAlloc, NoRunner
    <2>2. alloc' = [alloc EXCEPT ![a] = x] /\ run' = run /\ alloc[a].state = "ended" /\ "prune" \in world.loops
      BY <1>6 DEF Prune, IsTerminal, Terminal
    <2> HIDE DEF x
    <2>3. Removed(a) /\ \A y \in Allocs : y # a => Restated(y)
      BY <1>1, <2>1, <2>2 DEF Removed, Restated, Present
    <2> QED BY <1>1, <2>2, <2>3
  <1> QED BY <1>2, <1>3, <1>4, <1>5, <1>6

\* An operation that is there goes on.
LEMMA OpStepMoves ==
    ASSUME Inv, NEW r \in Replicas, OpStep(r)
    PROVE  OpMove(r) /\ UNCHANGED <<world, gh>>
  BY CheckEffect, InsertEffect, FindEffect, DropEffect, BindEffect, AfterBindEffect, ConcludeEffect,
     FinishEffect DEF OpStep

\* A thread begins the operation of an event it has in hand.
Begins(q) ==
    /\ op[q].pc = "idle"
    /\ \/ op'[q].act = "queued" /\ op'[q].pc = "allocate"
       \/ op'[q].act = "in_progress" /\ op'[q].pc = "claim"
       \/ op'[q].act = "completed" /\ op'[q].pc = "conclude"
    /\ op'[q].retry => plan[q] # None
    /\ Carried(<<op'[q].job, op'[q].act>>)

\* A thread begins with the event it has in hand.
LEMMA BeginEffect ==
    ASSUME Inv, NEW r \in Replicas,
           ProcessWork(r) \/ ProcessQueued(r) \/ \E t \in Drainers : ProcessInbox(r, t)
    PROVE  /\ UNCHANGED <<world, alloc, run, gh>> /\ UNCHANGED intakeVars
           /\ Begins(r) /\ \A q \in Replicas : q # r => op'[q] = op[q]
  <1>1. ASSUME NEW by, NEW d \in Deliveries, NEW retry \in BOOLEAN, Process(r, by, d, retry), Carried(d),
               retry => plan[r] # None
        PROVE  /\ UNCHANGED <<world, alloc, run, gh>> /\ UNCHANGED intakeVars
               /\ Begins(r) /\ \A q \in Replicas : q # r => op'[q] = op[q]
    <2>1. PICK k \in Jobs, act \in Acts : d = <<k, act>>
      BY DEF Deliveries
    <2> DEFINE pc == CASE act = "queued" -> "allocate" [] act = "in_progress" -> "claim" [] OTHER -> "conclude"
               v == [IdleOp EXCEPT !.pc = pc, !.by = by, !.job = k, !.act = act, !.retry = retry]
    <2>2. /\ UNCHANGED <<world, alloc, run, gh>> /\ UNCHANGED intakeVars
          /\ op' = [op EXCEPT ![r] = v] /\ op \in [Replicas -> OpRecord] /\ op[r].pc = "idle"
      BY <1>1, <2>1 DEF Process, BeginOp, Inv, TypeInv, DemandType
    <2>3. v.pc = pc /\ v.job = k /\ v.act = act /\ v.retry = retry
      BY DEF IdleOp
    <2>4. \/ act = "queued" /\ pc = "allocate"
          \/ act = "in_progress" /\ pc = "claim"
          \/ act = "completed" /\ pc = "conclude"
      BY <2>1 DEF Acts
    <2> HIDE DEF v, pc
    <2>5. op'[r] = v /\ \A q \in Replicas : q # r => op'[q] = op[q]
      BY <2>2
    <2>6. Begins(r)
      BY <1>1, <2>1, <2>2, <2>3, <2>4, <2>5 DEF Begins
    <2> QED BY <2>2, <2>5, <2>6
  <1>2. CASE ProcessWork(r)
    <2>1. worker[r].phase = "process" /\ Process(r, <<"worker", "work">>, worker[r].item, FALSE)
      BY <1>2 DEF ProcessWork
    <2>2. worker[r].item \in Deliveries /\ Carried(worker[r].item)
      BY <2>1 DEF Inv, TypeInv, ThreadsInv, Carried
    <2> QED BY <1>1, <2>1, <2>2
  <1>3. CASE ProcessQueued(r)
    <2>1. plan[r] # None /\ Process(r, <<"reconcile", "poll">>, <<plan[r], "queued">>, TRUE)
      BY <1>3 DEF ProcessQueued
    <2>2. <<plan[r], "queued">> \in Deliveries /\ Carried(<<plan[r], "queued">>)
      BY <2>1 DEF Inv, TypeInv, IntakeType, Deliveries, Acts, Carried
    <2> QED BY <1>1, <2>1, <2>2
  <1>4. ASSUME NEW t \in Drainers, ProcessInbox(r, t)
        PROVE  /\ UNCHANGED <<world, alloc, run, gh>> /\ UNCHANGED intakeVars
               /\ Begins(r) /\ \A q \in Replicas : q # r => op'[q] = op[q]
    <2>1. batch[r][t] # <<>> /\ Process(r, <<t, "inbox">>, Head(batch[r][t]), FALSE)
      BY <1>4 DEF ProcessInbox
    <2>2. Head(batch[r][t]) \in Deliveries /\ Head(batch[r][t]) \in Range(batch[r][t])
      BY <2>1, Queues DEF Inv, TypeInv, IntakeType
    <2>3. Carried(Head(batch[r][t]))
      BY <2>2 DEF Carried
    <2> QED BY <1>1, <2>1, <2>2, <2>3
  <1> QED BY <1>2, <1>3, <1>4

\* Nothing is added to what the replicas hold of events.
HeldLess ==
    \A q \in Replicas :
        /\ Range(workCh'[q]) \subseteq Range(workCh[q])
        /\ worker'[q] \in {worker[q], IdleWorker}
        /\ \A t \in Drainers : Range(batch'[q][t]) \subseteq Range(batch[q][t])
        /\ plan'[q] \in {plan[q], None}

\* An operation that is done gives its result back.
LEMMA ReturnEffect ==
    ASSUME Inv, NEW r \in Replicas, FinishProcess(r)
    PROVE  /\ UNCHANGED <<world, alloc, run, gh, net>> /\ op[r].pc = "done" /\ op'[r] = IdleOp
           /\ \A q \in Replicas : q # r => op'[q] = op[q]
           /\ handled' = IF op[r].out = "ok" /\ op[r].act # "queued"
                         THEN handled \cup {<<op[r].job, op[r].act>>} ELSE handled
           /\ Range(inbox') \subseteq Range(inbox) /\ HeldLess
  <1> DEFINE d == <<op[r].job, op[r].act>>
             t == op[r].by[1]
  <1>1. /\ op[r].pc = "done" /\ op' = [op EXCEPT ![r] = IdleOp]
        /\ UNCHANGED <<world, alloc, run, gh, net, workCh>>
        /\ handled' = IF op[r].out = "ok" /\ op[r].act # "queued" THEN handled \cup {d} ELSE handled
    BY DEF FinishProcess
  <1>2. op'[r] = IdleOp /\ \A q \in Replicas : q # r => op'[q] = op[q]
    BY <1>1 DEF Inv, TypeInv, DemandType
  <1>3. worker \in [Replicas -> WorkerRecord] /\ plan \in [Replicas -> Jobs \cup {None}] 
    BY DEF Inv, TypeInv, IntakeType
  <1>4. CASE worker' = [worker EXCEPT ![r] = IdleWorker] /\ UNCHANGED <<inbox, batch, plan>>
    BY <1>1, <1>2, <1>3, <1>4 DEF HeldLess
  <1>5. CASE /\ op[r].by = <<t, "inbox">>
             /\ UNCHANGED <<inbox, locked>> \/ AckWebhook(d)
             /\ batch' = [batch EXCEPT ![r][t] = Tail(@)]
             /\ UNCHANGED <<worker, plan>>
    <2>1. PICK u \in Drainers : op[r].by = <<u, "inbox">>
      BY <1>5 DEF Inv, TypeInv, DemandType, OpRecord, Threads
    <2>2. batch[r][u] # <<>> /\ batch' = [batch EXCEPT ![r][u] = Tail(@)]
      <3>1. t = u
        BY <2>1
      <3> QED BY <1>5, <2>1, <3>1 DEF Inv, TypeInv, ThreadsInv
    <2>3. Range(inbox') \subseteq Range(inbox)
      BY <1>5, AckKeeps DEF Inv
    <2>4. /\ batch'[r][u] = Tail(batch[r][u])
          /\ \A q \in Replicas, w \in Drainers : (q # r \/ w # u) => batch'[q][w] = batch[q][w]
      BY <2>1, <2>2, BatchTail DEF Inv
    <2>5. batch[r][u] \in Stored
      BY DEF Inv, TypeInv, IntakeType
    <2>6. Range(batch'[r][u]) \subseteq Range(batch[r][u])
      BY <2>2, <2>4, <2>5, Queues
    <2>7. \A q \in Replicas, w \in Drainers : Range(batch'[q][w]) \subseteq Range(batch[q][w])
      BY <2>4, <2>6
    <2> QED BY <1>1, <1>2, <1>5, <2>3, <2>7 DEF HeldLess
  <1>6. CASE plan' = [plan EXCEPT ![r] = None] /\ UNCHANGED <<inbox, worker, batch>>
    BY <1>1, <1>2, <1>3, <1>6 DEF HeldLess
  <1> QED BY <1>4, <1>5, <1>6 DEF FinishProcess

\* A replica that stops forgets its operation and what it held.
LEMMA CrashEffect ==
    ASSUME Inv, NEW r \in Replicas, Crash(r)
    PROVE  /\ UNCHANGED <<world, alloc, run, gh, net, inbox, handled>> /\ HeldLess
           /\ op'[r] = IdleOp /\ \A q \in Replicas : q # r => op'[q] = op[q]
  <1>1. /\ op' = [op EXCEPT ![r] = IdleOp] /\ workCh' = [workCh EXCEPT ![r] = <<>>]
        /\ worker' = [worker EXCEPT ![r] = IdleWorker]
        /\ batch' = [batch EXCEPT ![r] = [t \in Drainers |-> <<>>]]
        /\ plan' = [plan EXCEPT ![r] = None]
        /\ UNCHANGED <<world, alloc, run, gh, net, inbox, handled>>
    BY DEF Crash
  <1>2. op'[r] = IdleOp /\ \A q \in Replicas : q # r => op'[q] = op[q]
    BY <1>1 DEF Inv, TypeInv, DemandType
  <1>3. /\ workCh'[r] = <<>> /\ worker'[r] = IdleWorker /\ plan'[r] = None
        /\ \A q \in Replicas : q # r => workCh'[q] = workCh[q] /\ worker'[q] = worker[q] /\ plan'[q] = plan[q]
    BY <1>1 DEF Inv, TypeInv, IntakeType
  <1>4. /\ \A t \in Drainers : batch'[r][t] = <<>>
        /\ \A q \in Replicas : q # r => batch'[q] = batch[q]
    BY <1>1 DEF Inv, TypeInv, IntakeType
  <1>5. Range(<<>>) = {}
    BY DEF Range
  <1>6. HeldLess
    BY <1>3, <1>4, <1>5 DEF HeldLess
  <1> QED BY <1>1, <1>2, <1>6

\* Everything the replicas hold after the step was known before it.
HeldKnown ==
    \A q \in Replicas :
        /\ \A e \in Range(workCh'[q]) : Carried(e)
        /\ worker'[q].phase # "idle" => Carried(worker'[q].item)
        /\ \A t \in Drainers : \A e \in Range(batch'[q][t]) : Carried(e)
        /\ plan'[q] # None => Carried(<<plan'[q], "queued">>) \/ gh'[plan'[q]].status # "idle"

\* Where less is held, nothing new is known.
LEMMA LessIsKnown ==
    ASSUME HeldLess
    PROVE  HeldKnown
  <1> SUFFICES ASSUME NEW q \in Replicas
               PROVE  /\ \A e \in Range(workCh'[q]) : Carried(e)
                      /\ worker'[q].phase # "idle" => Carried(worker'[q].item)
                      /\ \A t \in Drainers : \A e \in Range(batch'[q][t]) : Carried(e)
                      /\ plan'[q] # None => Carried(<<plan'[q], "queued">>)
    BY DEF HeldKnown
  <1>1. \A e \in Range(workCh'[q]) : Carried(e)
    BY DEF HeldLess, Carried
  <1>2. worker'[q].phase # "idle" => Carried(worker'[q].item)
    BY DEF HeldLess, Carried, IdleWorker
  <1>3. \A t \in Drainers : \A e \in Range(batch'[q][t]) : Carried(e)
    BY DEF HeldLess, Carried
  <1>4. plan'[q] # None => Carried(<<plan'[q], "queued">>)
    BY DEF HeldLess, Carried
  <1> QED BY <1>1, <1>2, <1>3, <1>4

\* Events move on, and no event comes into the broker that GitHub did not send.
LEMMA EventsMove ==
    ASSUME Inv, EventsInv, gh' = gh \/ \E j \in Jobs : GitHubStep(j), HeldKnown,
           \A e \in net' \cup handled' \cup Range(inbox') : Carried(e) \/ Emitted(e)',
           \A q \in Replicas : op'[q].pc # "idle" => Carried(<<op'[q].job, op'[q].act>>)
    PROVE  EventsInv'
  <1> SUFFICES ASSUME NEW d \in Deliveries, Carried(d)' PROVE Carried(d) \/ Emitted(d)'
    BY EmittedStays DEF EventsInv
  <1>1. CASE d \in net' \cup handled' \cup Range(inbox')
    BY <1>1
  <1>2. ASSUME NEW r \in Replicas, d \in Range(workCh'[r]) \/ \E t \in Drainers : d \in Range(batch'[r][t])
        PROVE  Carried(d)
    BY <1>2 DEF HeldKnown
  <1>3. ASSUME NEW r \in Replicas, worker'[r].phase # "idle", d = worker'[r].item
        PROVE  Carried(d)
    BY <1>3 DEF HeldKnown
  <1>4. ASSUME NEW r \in Replicas, op'[r].pc # "idle", d = <<op'[r].job, op'[r].act>>
        PROVE  Carried(d)
    <2>1. Carried(<<op'[r].job, op'[r].act>>)
      BY <1>4
    <2> QED BY <1>4, <2>1, Zenon
  <1>5. ASSUME NEW r \in Replicas, plan'[r] # None, d = <<plan'[r], "queued">>
        PROVE  Carried(d) \/ Emitted(d)'
    <2>1. Carried(<<plan'[r], "queued">>) \/ gh'[plan'[r]].status # "idle"
      BY <1>5 DEF HeldKnown
    <2>2. CASE Carried(<<plan'[r], "queued">>)
      BY <1>5, <2>2, Zenon
    <2>3. CASE gh'[plan'[r]].status # "idle"
      BY <1>5, <2>3 DEF Emitted
    <2> QED BY <2>1, <2>2, <2>3
  <1> QED BY <1>1, <1>2, <1>3, <1>4, <1>5 DEF Carried

\* Deliveries reach a queue of the broker.
LEMMA ServeEvents ==
    ASSUME Inv, EventsInv, NEW r \in Replicas, NEW d \in Deliveries, Serve(r, d)
    PROVE  EventsInv'
  <1>1. /\ UNCHANGED demandVars /\ UNCHANGED <<worker, batch, plan, handled>>
        /\ net' \subseteq net /\ d \in net
    BY DEF Serve
  <1>2. workCh \in [Replicas -> Stored] /\ workCh[r] \in Stored /\ inbox \in Stored
    BY DEF Inv, TypeInv, IntakeType
  <1>3. /\ workCh'[r] = workCh[r] \/ workCh'[r] = Append(workCh[r], d)
        /\ \A q \in Replicas : q # r => workCh'[q] = workCh[q]
        /\ inbox' = inbox \/ inbox' = Append(inbox, d)
    BY <1>2 DEF Serve, Accept, enqueueForLeader
  <1>4. /\ \A q \in Replicas : Range(workCh'[q]) \subseteq Range(workCh[q]) \cup {d}
        /\ Range(inbox') \subseteq Range(inbox) \cup {d}
    BY <1>2, <1>3, Queues
  <1>5. HeldKnown
    BY <1>1, <1>4 DEF HeldKnown, Carried
  <1>6. \A e \in net' \cup handled' \cup Range(inbox') : Carried(e)
    BY <1>1, <1>4 DEF Carried
  <1>7. \A q \in Replicas : op'[q].pc # "idle" => Carried(<<op'[q].job, op'[q].act>>)
    BY <1>1 DEF Carried, demandVars
  <1> QED BY <1>1, <1>5, <1>6, <1>7, EventsMove DEF demandVars

\* The worker and the inbox loop take deliveries out of the queues.
LEMMA ClaimEvents ==
    ASSUME Inv, EventsInv, NEW r \in Replicas, WorkerTakes(r) \/ WorkerDrains(r) \/ InboxTick(r)
    PROVE  EventsInv'
  <1>1. UNCHANGED demandVars /\ UNCHANGED <<net, inbox, plan, handled>>
    BY DEF WorkerTakes, WorkerDrains, InboxTick
  <1>2. /\ workCh \in [Replicas -> Stored] /\ workCh[r] \in Stored /\ worker \in [Replicas -> WorkerRecord]
        /\ inbox \in Stored /\ locked \subseteq Range(inbox) /\ batch \in [Replicas -> [Drainers -> Stored]]
    BY DEF Inv, TypeInv, IntakeType
  <1>3. PICK t \in Drainers : ClaimWebhooks(r, t)
    BY DEF WorkerTakes, WorkerDrains, InboxTick, Drainers
  <1>4. /\ Range(batch'[r][t]) \subseteq Range(inbox)
        /\ \A q \in Replicas, u \in Drainers : <<q, u>> # <<r, t>> => batch'[q][u] = batch[q][u]
    BY <1>2, <1>3, ClaimTakes
  <1>5. \A q \in Replicas, u \in Drainers : Range(batch'[q][u]) \subseteq Range(batch[q][u]) \cup Range(inbox)
    BY <1>4
  <1>6. ASSUME NEW d, worker' = [worker EXCEPT ![r] =
                 [item |-> d, phase |-> IF Cardinality(Claimable) < InboxBatch THEN "process" ELSE "drain"]]
        PROVE  worker'[r].item = d /\ \A q \in Replicas : q # r => worker'[q] = worker[q]
    BY <1>2, <1>6
  <1>7. /\ \A q \in Replicas : Range(workCh'[q]) \subseteq Range(workCh[q])
        /\ \A q \in Replicas : worker'[q].phase # "idle" => Carried(worker'[q].item)
    <2>1. CASE WorkerTakes(r)
      <3>1. workCh[r] # <<>> /\ workCh' = [workCh EXCEPT ![r] = Tail(workCh[r])] /\ AfterClaim(r, Head(workCh[r]))
        BY <1>2, <2>1 DEF WorkerTakes
      <3>2. Head(workCh[r]) \in Range(workCh[r]) /\ Range(Tail(workCh[r])) \subseteq Range(workCh[r])
        BY <1>2, <3>1, Queues
      <3>3. worker'[r].item = Head(workCh[r]) /\ \A q \in Replicas : q # r => worker'[q] = worker[q]
        BY <1>6, <3>1 DEF AfterClaim
      <3>4. Carried(worker'[r].item)
        BY <3>2, <3>3 DEF Carried
      <3>5. \A q \in Replicas : q # r /\ worker'[q].phase # "idle" => Carried(worker'[q].item)
        BY <3>3 DEF Carried
      <3> QED BY <1>2, <3>1, <3>2, <3>4, <3>5
    <2>2. CASE WorkerDrains(r)
      <3>1. worker[r].phase # "idle" /\ AfterClaim(r, worker[r].item) /\ workCh' = workCh
        BY <2>2 DEF WorkerDrains
      <3>2. worker'[r].item = worker[r].item /\ \A q \in Replicas : q # r => worker'[q] = worker[q]
        BY <1>6, <3>1 DEF AfterClaim
      <3> QED BY <3>1, <3>2 DEF Carried
    <2>3. CASE InboxTick(r)
      BY <2>3 DEF InboxTick, Carried
    <2> QED BY <2>1, <2>2, <2>3
  <1>8. HeldKnown
    BY <1>1, <1>5, <1>7 DEF HeldKnown, Carried
  <1>9. \A e \in net' \cup handled' \cup Range(inbox') : Carried(e)
    BY <1>1 DEF Carried
  <1>10. \A q \in Replicas : op'[q].pc # "idle" => Carried(<<op'[q].job, op'[q].act>>)
    BY <1>1 DEF Carried, demandVars
  <1> QED BY <1>1, <1>8, <1>9, <1>10, EventsMove DEF demandVars

\* Every step keeps the origin of events.
LEMMA EventsStep ==
    ASSUME Inv, EventsInv, [Next]_vars
    PROVE  EventsInv'
  <1>1. \A q \in Replicas : op[q].pc # "idle" => Carried(<<op[q].job, op[q].act>>)
    BY DEF Carried
  <1>2. \A e \in net \cup handled \cup Range(inbox) : Carried(e)
    BY DEF Carried
  <1>3. ASSUME UNCHANGED intakeVars, gh' = gh,
               \A q \in Replicas : op'[q].pc # "idle" => Carried(<<op'[q].job, op'[q].act>>)
        PROVE  EventsInv'
    <2>1. HeldLess
      BY <1>3 DEF HeldLess, intakeVars
    <2>2. \A e \in net' \cup handled' \cup Range(inbox') : Carried(e)
      BY <1>2, <1>3 DEF intakeVars
    <2> QED BY <1>3, <2>1, <2>2, LessIsKnown, EventsMove
  <1>4. CASE UNCHANGED vars
    <2>1. UNCHANGED intakeVars /\ UNCHANGED <<gh, op>>
      BY <1>4 DEF vars, demandVars
    <2> QED BY <1>1, <1>3, <2>1
  <1>5. CASE DemandStep
    <2>1. UNCHANGED intakeVars
      BY <1>5 DEF DemandStep
    <2>2. ASSUME NEW r \in Replicas, OpStep(r) PROVE EventsInv'
      <3>1. OpMove(r) /\ gh' = gh
        BY <2>2, OpStepMoves
      <3>2. \A q \in Replicas : /\ op'[q].job = op[q].job /\ op'[q].act = op[q].act
                                /\ op'[q].pc # "idle" => op[q].pc # "idle"
        BY <3>1 DEF OpMove
      <3>3. ASSUME NEW q \in Replicas, op'[q].pc # "idle" PROVE Carried(<<op'[q].job, op'[q].act>>)
        BY <1>1, <3>2, <3>3
      <3> QED BY <1>3, <2>1, <3>1, <3>3
    <2>3. CASE UNCHANGED <<gh, op>>
      BY <1>1, <1>3, <2>1, <2>3
    <2> QED BY <1>5, <2>2, <2>3 DEF DemandStep, BackoffPasses, QueueReserve, QueueLaunch, QueueCommit,
                                   ExpireUnclaimed, Prune
  <1>6. ASSUME NEW j \in Jobs, GitHubStep(j) PROVE EventsInv'
    <2>1. /\ UNCHANGED <<op, inbox, workCh, worker, batch, plan, handled>>
          /\ \A d \in net' : d \in net \/ Emitted(d)'
      BY <1>6, GitHubMoves
    <2>2. HeldLess
      BY <2>1 DEF HeldLess
    <2>3. \A e \in net' \cup handled' \cup Range(inbox') : Carried(e) \/ Emitted(e)'
      BY <1>2, <2>1
    <2> QED BY <1>1, <1>6, <2>1, <2>2, <2>3, LessIsKnown, EventsMove
  <1>7. CASE LeaseExpires \/ \E d \in Deliveries : Lose(d) \/ Redeliver(d) \/ InboxLeaseEnds(d)
    <2>1. /\ UNCHANGED demandVars /\ UNCHANGED <<workCh, inbox, worker, batch, plan, handled>>
          /\ \A e \in net' : e \in net \/ Emitted(e)
      BY <1>7 DEF LeaseExpires, Lose, Redeliver, InboxLeaseEnds
    <2>2. \A e : Emitted(e)' <=> Emitted(e)
      BY <2>1 DEF demandVars, Emitted
    <2>3. HeldLess
      BY <2>1 DEF HeldLess
    <2>4. \A e \in net' \cup handled' \cup Range(inbox') : Carried(e) \/ Emitted(e)'
      BY <1>2, <2>1, <2>2
    <2> QED BY <1>1, <2>1, <2>3, <2>4, LessIsKnown, EventsMove DEF demandVars
  <1>8. CASE \E r \in Replicas, d \in Deliveries : Serve(r, d)
    BY <1>8, ServeEvents
  <1>9. CASE \E r \in Replicas : WorkerTakes(r) \/ WorkerDrains(r) \/ InboxTick(r)
    BY <1>9, ClaimEvents
  <1>10. ASSUME NEW r \in Replicas,
                ProcessWork(r) \/ ProcessQueued(r) \/ \E t \in Drainers : ProcessInbox(r, t)
         PROVE  EventsInv'
    <2>1. /\ gh' = gh /\ UNCHANGED intakeVars
          /\ Begins(r) /\ \A q \in Replicas : q # r => op'[q] = op[q]
      BY <1>10, BeginEffect
    <2>2. \A q \in Replicas : op'[q].pc # "idle" => Carried(<<op'[q].job, op'[q].act>>)
      BY <1>1, <2>1 DEF Begins
    <2> QED BY <1>3, <2>1, <2>2
  <1>11. ASSUME gh' = gh, HeldLess, Range(inbox') \subseteq Range(inbox), net' = net,
                \A e \in handled' : Carried(e),
                \A q \in Replicas : op'[q] \in {op[q], IdleOp}
         PROVE  EventsInv'
    <2>1. IdleOp.pc = "idle"
      BY DEF IdleOp
    <2>2. \A q \in Replicas : op'[q].pc # "idle" => Carried(<<op'[q].job, op'[q].act>>)
      BY <1>1, <1>11, <2>1
    <2>3. \A e \in net' \cup handled' \cup Range(inbox') : Carried(e) \/ Emitted(e)'
      BY <1>2, <1>11
    <2> QED BY <1>11, <2>2, <2>3, LessIsKnown, EventsMove
  <1>12. ASSUME NEW r \in Replicas, FinishProcess(r) PROVE EventsInv'
    <2>1. /\ gh' = gh /\ net' = net /\ op[r].pc = "done" /\ op'[r] = IdleOp
          /\ \A q \in Replicas : q # r => op'[q] = op[q]
          /\ handled' \subseteq handled \cup {<<op[r].job, op[r].act>>}
          /\ Range(inbox') \subseteq Range(inbox) /\ HeldLess
      BY <1>12, ReturnEffect
    <2>2. Carried(<<op[r].job, op[r].act>>)
      BY <1>1, <2>1
    <2>3. \A e \in handled' : Carried(e)
      BY <1>2, <2>1, <2>2
    <2>4. \A q \in Replicas : op'[q] \in {op[q], IdleOp}
      BY <2>1
    <2> QED BY <1>11, <2>1, <2>3, <2>4
  <1>13. ASSUME NEW r \in Replicas, Crash(r) PROVE EventsInv'
    <2>1. /\ UNCHANGED <<gh, net, inbox, handled>> /\ HeldLess
          /\ op'[r] = IdleOp /\ \A q \in Replicas : q # r => op'[q] = op[q]
      BY <1>13, CrashEffect
    <2> QED BY <1>2, <1>11, <2>1
  <1>14. ASSUME NEW r \in Replicas, NEW t \in Drainers, DropExpired(r, t) PROVE EventsInv'
    <2>1. /\ UNCHANGED demandVars /\ UNCHANGED <<net, workCh, worker, plan, handled>>
          /\ batch[r][t] # <<>> /\ batch' = [batch EXCEPT ![r][t] = Tail(@)]
      BY <1>14 DEF DropExpired
    <2>2. Range(inbox') \subseteq Range(inbox)
      BY <1>14, AckKeeps DEF Inv, DropExpired
    <2>3. /\ batch'[r][t] = Tail(batch[r][t])
          /\ \A q \in Replicas, u \in Drainers : (q # r \/ u # t) => batch'[q][u] = batch[q][u]
      BY <2>1, BatchTail DEF Inv
    <2>4. Range(batch'[r][t]) \subseteq Range(batch[r][t])
      BY <2>1, <2>3, Queues DEF Inv, TypeInv, IntakeType
    <2>5. HeldLess
      BY <2>1, <2>3, <2>4 DEF HeldLess
    <2> QED BY <1>2, <1>11, <2>1, <2>2, <2>5 DEF demandVars
  <1>15. ASSUME NEW r \in Replicas, NEW j \in Jobs, ReconcileSees(r, j) PROVE EventsInv'
    <2>1. /\ UNCHANGED demandVars /\ UNCHANGED <<net, workCh, inbox, worker, batch, handled>>
          /\ plan' = [plan EXCEPT ![r] = j] /\ gh[j].status = "queued"
      BY <1>15 DEF ReconcileSees
    <2>2. plan'[r] = j /\ \A q \in Replicas : q # r => plan'[q] = plan[q]
      BY <2>1 DEF Inv, TypeInv, IntakeType
    <2>3. UNCHANGED <<gh, op>>
      BY <2>1 DEF demandVars
    <2>4. \A q \in Replicas : plan'[q] # None => Carried(<<plan'[q], "queued">>) \/ gh'[plan'[q]].status # "idle"
      BY <2>1, <2>2, <2>3 DEF Carried
    <2>5. HeldKnown
      BY <2>1, <2>4 DEF HeldKnown, Carried
    <2>6. \A e \in net' \cup handled' \cup Range(inbox') : Carried(e)
      BY <1>2, <2>1
    <2> QED BY <1>1, <2>3, <2>5, <2>6, EventsMove
  <1> QED BY <1>4, <1>5, <1>6, <1>7, <1>8, <1>9, <1>10, <1>12, <1>13, <1>14, <1>15 DEF Next

\* The steps of the intake: operations begin and end, and an operation that ends
\* well has handled its event.
Quiet ==
    /\ UNCHANGED <<world, alloc, run, gh>>
    /\ \A q \in Replicas : op'[q] \in {op[q], IdleOp} \/ Begins(q)
    /\ handled \subseteq handled'
    /\ \A d \in handled' \ handled : \E q \in Replicas :
         /\ op[q].pc = "done" /\ op[q].out = "ok" /\ d = <<op[q].job, op[q].act>>
         /\ op'[q] = IdleOp
    /\ \A q \in Replicas : plan'[q] \in {plan[q], None} \/ "poll" \in world.loops

Loop(a) == \/ QueueReserve(a) \/ QueueLaunch(a) \/ QueueCommit(a)
           \/ ExpireUnclaimed(a) \/ Prune(a)

\* There are four kinds of steps.
LEMMA StepKinds ==
    ASSUME Inv, [Next]_vars
    PROVE  \/ \E r \in Replicas : OpStep(r) /\ UNCHANGED intakeVars
           \/ \E a \in Allocs : Loop(a) /\ UNCHANGED intakeVars
           \/ \E j \in Jobs : GitHubStep(j)
           \/ Quiet
  <1>1. ASSUME UNCHANGED <<world, alloc, run, gh, op, handled, plan>> PROVE Quiet
    BY <1>1 DEF Quiet
  <1>2. CASE DemandStep
    <2>1. ASSUME NEW r \in Replicas, NEW j \in Jobs, BackoffPasses(r, j), UNCHANGED intakeVars PROVE Quiet
      BY <1>1, <2>1 DEF BackoffPasses, intakeVars
    <2> QED BY <1>2, <2>1 DEF DemandStep, Loop
  <1>3. CASE \/ UNCHANGED vars \/ LeaseExpires
             \/ \E d \in Deliveries : Lose(d) \/ Redeliver(d) \/ InboxLeaseEnds(d)
             \/ \E r \in Replicas, d \in Deliveries : Serve(r, d)
             \/ \E r \in Replicas : WorkerTakes(r) \/ WorkerDrains(r) \/ InboxTick(r)
             \/ \E r \in Replicas, t \in Drainers : DropExpired(r, t)
    <2>1. UNCHANGED demandVars /\ UNCHANGED <<handled, plan>>
      BY <1>3 DEF vars, intakeVars, LeaseExpires, Lose, Redeliver, InboxLeaseEnds, Serve, WorkerTakes,
                  WorkerDrains, InboxTick, DropExpired
    <2> QED BY <1>1, <2>1 DEF demandVars
  <1>4. ASSUME NEW r \in Replicas,
               ProcessWork(r) \/ ProcessQueued(r) \/ \E t \in Drainers : ProcessInbox(r, t)
        PROVE  Quiet
    <2>1. /\ UNCHANGED <<world, alloc, run, gh>> /\ UNCHANGED <<handled, plan>>
          /\ Begins(r) /\ \A q \in Replicas : q # r => op'[q] = op[q]
      BY <1>4, BeginEffect DEF intakeVars
    <2> QED BY <2>1 DEF Quiet
  <1>5. ASSUME NEW r \in Replicas, FinishProcess(r) PROVE Quiet
    <2>1. /\ UNCHANGED <<world, alloc, run, gh>> /\ op[r].pc = "done" /\ op'[r] = IdleOp
          /\ \A q \in Replicas : q # r => op'[q] = op[q]
          /\ handled' = IF op[r].out = "ok" /\ op[r].act # "queued"
                         THEN handled \cup {<<op[r].job, op[r].act>>} ELSE handled
          /\ HeldLess
      BY <1>5, ReturnEffect
    <2>2. \A q \in Replicas : plan'[q] \in {plan[q], None}
      BY <2>1 DEF HeldLess
    <2>3. \A d \in handled' \ handled : op[r].out = "ok" /\ d = <<op[r].job, op[r].act>>
      BY <2>1
    <2> QED BY <2>1, <2>2, <2>3 DEF Quiet
  <1>6. ASSUME NEW r \in Replicas, Crash(r) PROVE Quiet
    <2>1. /\ UNCHANGED <<world, alloc, run, gh, handled>> /\ HeldLess
          /\ op'[r] = IdleOp /\ \A q \in Replicas : q # r => op'[q] = op[q]
      BY <1>6, CrashEffect
    <2> QED BY <2>1 DEF Quiet, HeldLess
  <1>7. ASSUME NEW r \in Replicas, NEW j \in Jobs, ReconcileSees(r, j) PROVE Quiet
    <2>1. UNCHANGED <<world, alloc, run, gh, op, handled>> /\ "poll" \in world.loops
      BY <1>7 DEF ReconcileSees, demandVars
    <2> QED BY <2>1 DEF Quiet
  <1> QED BY <1>2, <1>3, <1>4, <1>5, <1>6, <1>7 DEF Next

-----------------------------------------------------------------------------
(* What else stays true of records and operations.                          *)

One == Cardinality(world.replicas) = 1

\* Neither the poll nor retention: no job is asked for a second time.
NoRetry == world.loops \cap {"poll", "prune"} = {}

\* A runner has a name its deployment knows.
NamesInv == \A x \in Allocs : MayBeNamed(x, alloc[x].name) /\ MayBeNamed(x, run[x].name)

\* The jobs are those of the deployment.
JobsInv ==
    /\ \A j \in Jobs : gh[j].status # "idle" => j \in world.jobs
    /\ \A x \in Allocs : Present(x) => alloc[x].job \in world.jobs

\* What is bound, or is about to be, has been given to a runner.
SeenInv ==
    /\ \A x \in Allocs : alloc[x].bound # None => gh[alloc[x].bound].on # None
    /\ \A r \in Replicas : op[r].pc \in {"bind", "stamp", "bound"} =>
         /\ gh[op[r].job].on # None
         /\ op[r].rec.bound # None => gh[op[r].rec.bound].on # None

\* Which event an operation is for.
ActInv ==
    \A r \in Replicas :
        /\ op[r].pc \in {"allocate", "insert"} => op[r].act = "queued"
        /\ op[r].pc \in {"claim", "legacy", "stamp"} => op[r].act = "in_progress"
        /\ op[r].pc \in {"conclude", "finalize"} => op[r].act = "completed"
        /\ op[r].pc \in {"bind", "bound", "drop", "finish"} => op[r].act \in {"in_progress", "completed"}

\* One process finds the record it holds as it read or wrote it.
ReadInv ==
    One => \A r \in Replicas :
             op[r].pc \in {"bind", "stamp", "bound"} /\ alloc[op[r].a].state = "ready"
               => op[r].rec = alloc[op[r].a]

\* Without retries a job has one record at most.
RecordInv ==
    NoRetry =>
      /\ \A r \in Replicas : plan[r] = None /\ ~op[r].retry
      /\ One => /\ \A x, y \in Allocs : Present(x) /\ Present(y) /\ alloc[x].job = alloc[y].job => x = y
                /\ \A r \in Replicas : op[r].pc = "insert" => MineOf(op[r].job) = {}

Facts == NamesInv /\ JobsInv /\ SeenInv /\ ActInv /\ ReadInv /\ RecordInv

\* An operation is for an event that GitHub has sent.
LEMMA SentEvents ==
    ASSUME Inv, EventsInv
    PROVE  /\ \A r \in Replicas : op[r].pc # "idle" =>
                /\ op[r].job \in Jobs /\ gh[op[r].job].status # "idle"
                /\ op[r].act = "in_progress" => gh[op[r].job].on # None
           /\ \A j \in Jobs : /\ <<j, "in_progress">> \in handled => gh[j].on # None
                              /\ <<j, "completed">> \in handled => gh[j].status = "completed"
           /\ \A r \in Replicas : op[r].pc # "idle" /\ op[r].act = "completed" =>
                gh[op[r].job].status = "completed"
  <1>1. ASSUME NEW j \in Jobs
        PROVE  /\ Carried(<<j, "queued">>) => gh[j].status # "idle"
               /\ Carried(<<j, "in_progress">>) => gh[j].on # None
               /\ Carried(<<j, "completed">>) => gh[j].status = "completed"
    BY DEF EventsInv, Emitted, Deliveries, Acts
  <1>2. \A j \in Jobs : gh[j].on # None => gh[j].status # "idle"
    BY DEF Inv, GitHubInv
  <1>3. ASSUME NEW r \in Replicas, op[r].pc # "idle"
        PROVE  /\ op[r].job \in Jobs /\ gh[op[r].job].status # "idle"
               /\ op[r].act = "in_progress" => gh[op[r].job].on # None
               /\ op[r].act = "completed" => gh[op[r].job].status = "completed"
    <2>1. Carried(<<op[r].job, op[r].act>>)
      BY <1>3 DEF Carried
    <2>2. op[r].job \in Jobs /\ op[r].act \in Acts
      BY <1>3 DEF Inv, TypeInv, DemandType
    <2> QED BY <1>1, <1>2, <2>1, <2>2 DEF Acts
  <1>4. \A d \in handled : Carried(d)
    BY DEF Carried
  <1> QED BY <1>1, <1>3, <1>4

\* At first there are no events, no records and no operations.
LEMMA FactsInit ==
    ASSUME Init
    PROVE  EventsInv /\ Facts
  <1>1. /\ IdleOp.pc = "idle" /\ IdleOp.retry = FALSE /\ IdleWorker.phase = "idle"
        /\ NoAlloc.state = "none" /\ NoAlloc.name = None /\ NoAlloc.bound = None /\ NoRunner.name = None
        /\ Range(<<>>) = {}
    BY DEF IdleOp, IdleWorker, NoAlloc, NewAlloc, NoRunner, Range
  <1>2. \A d : ~Carried(d)
    BY <1>1 DEF Init, DemandInit, Carried
  <1>3. NamesInv /\ ActInv /\ ReadInv
    BY <1>1 DEF Init, DemandInit, NamesInv, MayBeNamed, ActInv, ReadInv
  <1>4. \A x \in Allocs : ~Present(x)
    BY <1>1 DEF Init, DemandInit, Present, Absent
  <1>5. JobsInv /\ SeenInv
    BY <1>1, <1>4 DEF Init, DemandInit, JobsInv, SeenInv
  <1>6. RecordInv
    BY <1>1, <1>4 DEF Init, DemandInit, RecordInv
  <1> QED BY <1>2, <1>3, <1>5, <1>6 DEF EventsInv, Facts

\* Operations begin and end.
LEMMA FactsQuiet ==
    ASSUME Inv, Facts, Quiet
    PROVE  Facts'
  <1>1. UNCHANGED <<world, alloc, run, gh>>
    BY DEF Quiet
  <1>2. \A q \in Replicas : \/ op'[q] = op[q]
                            \/ op'[q].pc = "idle" /\ ~op'[q].retry
                            \/ /\ op'[q].pc \in {"allocate", "claim", "conclude"}
                               /\ op'[q].retry => plan[q] # None
    <2>1. IdleOp.pc = "idle" /\ ~IdleOp.retry
      BY DEF IdleOp
    <2> QED BY <2>1 DEF Quiet, Begins
  <1>3. NamesInv' /\ JobsInv'
    BY <1>1 DEF Facts, NamesInv, MayBeNamed, JobsInv, Present
  <1>4. SeenInv' /\ ReadInv'
    BY <1>1, <1>2 DEF Facts, SeenInv, ReadInv, One
  <1>5. ActInv'
    <2>1. IdleOp.pc = "idle"
      BY DEF IdleOp
    <2> QED BY <2>1 DEF Facts, Quiet, Begins, ActInv
  <1>6. RecordInv'
    <2>1. ASSUME NoRetry, NEW q \in Replicas PROVE plan'[q] = None /\ ~op'[q].retry
      BY <1>2, <2>1 DEF Facts, RecordInv, Quiet, NoRetry
    <2>2. \A q \in Replicas : op'[q].pc = "insert" => op'[q] = op[q]
      BY <1>2
    <2> QED BY <1>1, <2>1, <2>2 DEF Facts, RecordInv, NoRetry, One, MineOf, Present
  <1> QED BY <1>3, <1>4, <1>5, <1>6 DEF Facts

\* GitHub moves on.
LEMMA FactsGitHub ==
    ASSUME Inv, Facts, NEW j \in Jobs, GitHubStep(j)
    PROVE  Facts'
  <1>1. /\ UNCHANGED <<world, alloc, run, op, plan>>
        /\ \A k \in Jobs : k # j => gh'[k] = gh[k]
        /\ gh[j].status = "idle" => j \in world.jobs
        /\ gh[j].on # None => gh'[j].on = gh[j].on
    BY GitHubMoves
  <1>2. NamesInv' /\ ActInv' /\ ReadInv'
    BY <1>1 DEF Facts, NamesInv, MayBeNamed, ActInv, ReadInv, One
  <1>3. JobsInv'
    BY <1>1 DEF Facts, JobsInv, Present
  <1>4. SeenInv'
    <2>1. \A k \in Jobs : gh[k].on # None => gh'[k].on # None
      BY <1>1
    <2>2. \A x \in Allocs : alloc[x].bound \in Jobs \cup {None}
      BY DEF Inv, TypeInv, DemandType, AllocRecord
    <2>3. \A r \in Replicas : /\ op[r].rec.bound \in Jobs \cup {None}
                              /\ op[r].pc \in {"bind", "stamp", "bound"} => op[r].job \in Jobs
      BY DEF Inv, TypeInv, DemandType, OpRecord, AllocRecord
    <2> QED BY <1>1, <2>1, <2>2, <2>3 DEF Facts, SeenInv
  <1>5. RecordInv'
    BY <1>1 DEF Facts, RecordInv, NoRetry, One, MineOf, Present
  <1> QED BY <1>2, <1>3, <1>4, <1>5 DEF Facts

\* The loops work on records that no operation writes.
LEMMA FactsLoop ==
    ASSUME Inv, Facts, NEW a \in Allocs, Loop(a), UNCHANGED intakeVars
    PROVE  Facts'
  <1>1. /\ UNCHANGED <<world, gh, op, plan>>
        /\ \A x \in Allocs : /\ Restated(x) \/ Committed(x) \/ Removed(x)
                             /\ run'[x] \in {run[x], NoRunner} \/ MayBeNamed(x, run'[x].name)
    BY LoopEffect DEF Loop, intakeVars
  <1>2. NoRunner.name = None
    BY DEF NoRunner
  <1>3. NamesInv'
    BY <1>1, <1>2 DEF Facts, NamesInv, MayBeNamed, Restated, Committed, Removed
  <1>4. ASSUME NEW x \in Allocs
        PROVE  Present(x)' => Present(x) /\ alloc'[x].job = alloc[x].job
    BY <1>1 DEF Restated, Committed, Removed, Present, Absent
  <1>5. JobsInv'
    BY <1>1, <1>4 DEF Facts, JobsInv
  <1>6. SeenInv' /\ ActInv'
    BY <1>1 DEF Facts, SeenInv, ActInv, Restated, Committed, Removed
  <1>7. ReadInv'
    <2> SUFFICES ASSUME One, NEW r \in Replicas, op[r].pc \in {"bind", "stamp", "bound"},
                        alloc'[op[r].a].state = "ready"
                 PROVE  op[r].rec = alloc'[op[r].a]
      BY <1>1 DEF ReadInv, One
    <2>1. op[r].a \in Allocs /\ alloc[op[r].a].state \in {"ready", "ended", "pruned"}
      BY DEF Inv, TypeInv, DemandType, BindingInv, Holding
    <2>2. alloc'[op[r].a] = alloc[op[r].a]
      BY <1>1, <2>1 DEF Restated, Committed, Removed
    <2> QED BY <2>2 DEF Facts, ReadInv
  <1>8. RecordInv'
    <2>1. \A k : MineOf(k)' \subseteq MineOf(k)
      BY <1>4 DEF MineOf
    <2>2. One /\ NoRetry => (\A r \in Replicas : op[r].pc = "insert" => MineOf(op[r].job) = {})'
      BY <1>1, <2>1 DEF Facts, RecordInv
    <2> QED BY <1>1, <1>4, <2>2 DEF Facts, RecordInv, NoRetry, One
  <1> QED BY <1>3, <1>5, <1>6, <1>7, <1>8 DEF Facts

\* What the records say after the step of an operation.
StoreFacts ==
    /\ \A x \in Allocs : /\ MayBeNamed(x, alloc'[x].name) /\ MayBeNamed(x, run'[x].name)
                         /\ Present(x)' => alloc'[x].job \in world.jobs
                         /\ alloc'[x].bound # None => gh[alloc'[x].bound].on # None
    /\ One /\ NoRetry =>
         (\A x, y \in Allocs : Present(x) /\ Present(y) /\ alloc[x].job = alloc[y].job => x = y)'

\* ... and the operation itself.
HeldFacts(r) ==
    op'[r].pc \in {"bind", "stamp", "bound"} =>
      /\ gh[op[r].job].on # None
      /\ op'[r].rec.bound # None => gh[op'[r].rec.bound].on # None
      /\ One /\ alloc'[op'[r].a].state = "ready" => op'[r].rec = alloc'[op'[r].a]
ActFacts(r) ==
    /\ op'[r].pc \in {"allocate", "insert"} => op[r].act = "queued"
    /\ op'[r].pc \in {"claim", "legacy", "stamp"} => op[r].act = "in_progress"
    /\ op'[r].pc \in {"conclude", "finalize"} => op[r].act = "completed"
    /\ op'[r].pc \in {"bind", "bound", "drop", "finish"} => op[r].act \in {"in_progress", "completed"}

\* Together they are the facts above, after the step.
LEMMA FactsMove ==
    ASSUME Inv, Facts, NEW r \in Replicas, OpMove(r), UNCHANGED <<world, gh>>, UNCHANGED intakeVars,
           StoreFacts, HeldFacts(r), ActFacts(r),
           op'[r].pc = "insert" /\ NoRetry => \A x \in Allocs : Present(x)' => alloc'[x].job # op[r].job
    PROVE  Facts'
  <1>1. /\ op[r].pc # "idle" /\ op'[r].job = op[r].job /\ op'[r].act = op[r].act /\ op'[r].retry = op[r].retry
        /\ \A q \in Replicas : q # r => op'[q] = op[q]
    BY DEF OpMove
  <1>2. One => \A q \in Replicas : q # r => op[q].pc = "idle"
    BY <1>1, OneOperation DEF One
  <1>3. NamesInv'
    BY DEF StoreFacts, NamesInv, MayBeNamed
  <1>4. JobsInv'
    BY DEF StoreFacts, Facts, JobsInv
  <1>5. SeenInv'
    <2>1. (\A x \in Allocs : alloc[x].bound # None => gh[alloc[x].bound].on # None)'
      BY DEF StoreFacts
    <2>2. (\A q \in Replicas : op[q].pc \in {"bind", "stamp", "bound"} =>
             /\ gh[op[q].job].on # None
             /\ op[q].rec.bound # None => gh[op[q].rec.bound].on # None)'
      BY <1>1 DEF HeldFacts, Facts, SeenInv
    <2> QED BY <2>1, <2>2 DEF SeenInv
  <1>6. ActInv'
    BY <1>1 DEF ActFacts, Facts, ActInv
  <1>7. ReadInv'
    BY <1>1, <1>2 DEF HeldFacts, ReadInv, One
  <1>8. RecordInv'
    <2>1. NoRetry => \A q \in Replicas : plan'[q] = None /\ ~op'[q].retry
      BY <1>1 DEF Facts, RecordInv, intakeVars
    <2>2. NoRetry /\ One => \A q \in Replicas : op'[q].pc = "insert" => q = r
      BY <1>1, <1>2
    <2>4. NoRetry /\ One => (\A q \in Replicas : op[q].pc = "insert" => MineOf(op[q].job) = {})'
      BY <2>2, <1>1 DEF MineOf
    <2> QED BY <2>1, <2>4 DEF RecordInv, StoreFacts, NoRetry, One
  <1> QED BY <1>3, <1>4, <1>5, <1>6, <1>7, <1>8 DEF Facts

\* A step that at most ends or reserves records.
LEMMA RestatedFacts ==
    ASSUME Inv, Facts, UNCHANGED world,
           \A x \in Allocs : Restated(x) /\ run'[x] \in {run[x], NoRunner}
    PROVE  StoreFacts
  <1>1. NoRunner.name = None
    BY DEF NoRunner
  <1>2. \A x \in Allocs : MayBeNamed(x, alloc'[x].name) /\ MayBeNamed(x, run'[x].name)
    BY <1>1 DEF Facts, NamesInv, MayBeNamed, Restated
  <1>3. \A x \in Allocs : /\ Present(x)' => alloc'[x].job \in world.jobs
                          /\ alloc'[x].bound # None => gh[alloc'[x].bound].on # None
    BY DEF Facts, JobsInv, SeenInv, Restated
  <1>4. One /\ NoRetry =>
         (\A x, y \in Allocs : Present(x) /\ Present(y) /\ alloc[x].job = alloc[y].job => x = y)'
    BY DEF Facts, RecordInv, Restated
  <1> QED BY <1>2, <1>3, <1>4 DEF StoreFacts

\* A step that writes no record.
LEMMA SameFacts ==
    ASSUME Inv, Facts, UNCHANGED <<world, alloc, run>>
    PROVE  StoreFacts
  BY RestatedFacts DEF Restated, Present

\* The operations, one by one: AllocateForWorkflowJob, ...
LEMMA AllocateFacts ==
    ASSUME Inv, EventsInv, Facts, NEW r \in Replicas, AllocateCheck(r) \/ AllocateInsert(r), UNCHANGED intakeVars
    PROVE  Facts'
  <1>1. CASE AllocateCheck(r)
    <2>1. /\ op[r].pc = "allocate" /\ OpMove(r) /\ UNCHANGED <<world, alloc, run, gh>>
          /\ op'[r].pc \in {"done", "insert"}
          /\ op'[r].pc = "insert" => MineOf(op[r].job) = {} \/ op[r].retry
      BY <1>1, CheckEffect
    <2>2. StoreFacts
      BY <2>1, SameFacts
    <2>3. HeldFacts(r) /\ ActFacts(r)
      BY <2>1 DEF HeldFacts, ActFacts, Facts, ActInv
    <2>4. op'[r].pc = "insert" /\ NoRetry => \A x \in Allocs : Present(x)' => alloc'[x].job # op[r].job
      BY <2>1 DEF Facts, RecordInv, MineOf, Present
    <2> QED BY <2>1, <2>2, <2>3, <2>4, FactsMove
  <1>2. CASE AllocateInsert(r)
    <2>1. /\ op[r].pc = "insert" /\ OpMove(r) /\ op'[r].pc = "done" /\ UNCHANGED <<world, gh>>
          /\ \/ UNCHANGED <<alloc, run>>
             \/ \E x \in Allocs :
                  /\ alloc[x].state = "none" /\ alloc'[x].state \in {"ready", "pending", "ended"}
                  /\ alloc'[x].job = op[r].job /\ alloc'[x].bound = None
                  /\ MayBeNamed(x, alloc'[x].name) /\ MayBeNamed(x, run'[x].name)
                  /\ \A y \in Allocs : y # x => alloc'[y] = alloc[y] /\ run'[y] = run[y]
      BY <1>2, InsertEffect
    <2>2. HeldFacts(r) /\ ActFacts(r)
      BY <2>1 DEF HeldFacts, ActFacts
    <2>3. CASE UNCHANGED <<alloc, run>>
      BY <2>1, <2>2, <2>3, SameFacts, FactsMove
    <2>4. ASSUME NEW x \in Allocs,
                 /\ alloc[x].state = "none" /\ alloc'[x].state \in {"ready", "pending", "ended"}
                 /\ alloc'[x].job = op[r].job /\ alloc'[x].bound = None
                 /\ MayBeNamed(x, alloc'[x].name) /\ MayBeNamed(x, run'[x].name)
                 /\ \A y \in Allocs : y # x => alloc'[y] = alloc[y] /\ run'[y] = run[y]
          PROVE  StoreFacts
      <3>1. op[r].job \in world.jobs
        BY <2>1, SentEvents DEF Facts, JobsInv
      <3>2. \A y \in Allocs : y # x /\ Present(y)' => Present(y) /\ alloc'[y].job = alloc[y].job
        BY <2>4 DEF Present
      <3>3. ASSUME NEW y \in Allocs
            PROVE  /\ MayBeNamed(y, alloc'[y].name) /\ MayBeNamed(y, run'[y].name)
                   /\ Present(y)' => alloc'[y].job \in world.jobs
                   /\ alloc'[y].bound # None => gh[alloc'[y].bound].on # None
        <4>1. CASE y = x
          BY <2>4, <3>1, <4>1
        <4>2. CASE y # x
          BY <2>4, <3>2, <4>2 DEF Facts, NamesInv, JobsInv, SeenInv
        <4> QED BY <4>1, <4>2
      <3>4. ASSUME One, NoRetry, NEW y \in Allocs, NEW z \in Allocs, Present(y)', Present(z)',
                   alloc'[y].job = alloc'[z].job
            PROVE  y = z
        <4>1. \A u \in Allocs : Present(u) => alloc[u].job # op[r].job
          BY <2>1, <3>4 DEF Facts, RecordInv, MineOf
        <4> QED BY <2>4, <3>2, <3>4, <4>1 DEF Facts, RecordInv
      <3> QED BY <3>3, <3>4 DEF StoreFacts
    <2> QED BY <2>1, <2>2, <2>3, <2>4, FactsMove
  <1> QED BY <1>1, <1>2

\* ... the lookups, ...
LEMMA FindFacts ==
    ASSUME Inv, EventsInv, Facts, NEW r \in Replicas, ClaimFind(r) \/ ClaimLegacy(r) \/ FinalizeFind(r),
           UNCHANGED intakeVars
    PROVE  Facts'
  <1>1. /\ op[r].pc \in {"claim", "legacy", "finalize"}
        /\ OpMove(r) /\ UNCHANGED <<world, alloc, run, gh>>
        /\ op'[r].pc \in {"done", "legacy", "drop", "bind", "finish"}
        /\ op'[r].pc \in {"legacy", "drop"} => op[r].pc \in {"claim", "finalize"}
        /\ op'[r].pc = "legacy" => op[r].pc = "claim"
        /\ op'[r].pc = "bind" => op'[r].rec = alloc[op'[r].a]
        /\ op'[r].pc = "bind" /\ op[r].pc = "finalize" =>
             gh[op[r].job].on # None \/ alloc[op'[r].a].bound = op[r].job
    BY FindEffect
  <1>2. ActFacts(r)
    BY <1>1 DEF ActFacts, Facts, ActInv
  <1>3. HeldFacts(r)
    <2>1. op[r].act = "in_progress" => gh[op[r].job].on # None
      BY <1>1, SentEvents
    <2>2. op'[r].pc = "bind" => op'[r].a \in Allocs
      BY <1>1 DEF OpMove, Holding
    <2>3. op[r].job # None
      BY <1>1, DemandAssumption DEF DemandAssumption, Inv, TypeInv, DemandType
    <2>4. op[r].pc # "finalize" => op[r].act = "in_progress"
      BY <1>1 DEF Facts, ActInv
    <2>5. op'[r].pc = "bind" => gh[op[r].job].on # None
      BY <1>1, <2>1, <2>2, <2>3, <2>4 DEF Facts, SeenInv
    <2> QED BY <1>1, <2>2, <2>5 DEF HeldFacts, Facts, SeenInv
  <1> QED BY <1>1, <1>2, <1>3, SameFacts, FactsMove

\* ... the binding and the stamps, ...
LEMMA BindFacts ==
    ASSUME Inv, EventsInv, Facts, NEW r \in Replicas, BindExecution(r) \/ StampClaim(r), UNCHANGED intakeVars
    PROVE  Facts'
  <1>1. /\ op[r].pc \in {"bind", "stamp"} /\ op[r].a \in Allocs /\ op[r].rec.state = "ready"
        /\ OpMove(r) /\ UNCHANGED <<world, run, gh>>
        /\ \/ alloc' = alloc /\ op'[r].pc = "done" /\ op'[r].out = "error"
           \/ /\ op'[r].a = op[r].a
              /\ op'[r].pc = "stamp" => op[r].pc = "bind" /\ op[r].act # "completed"
              /\ op'[r].pc \in {"stamp", "bound"}
              /\ \/ /\ alloc' = alloc /\ op'[r].rec = op[r].rec
                    /\ op[r].rec.bound = op[r].job
                 \/ /\ alloc[op[r].a].state = "ready" /\ alloc'[op[r].a] = op'[r].rec
                    /\ \A x \in Allocs : x # op[r].a => alloc'[x] = alloc[x]
                    /\ op'[r].rec.state = "ready" /\ op'[r].rec.job = op[r].rec.job
                    /\ op'[r].rec.name = op[r].rec.name /\ op'[r].rec.deferred = op[r].rec.deferred
                    /\ op'[r].rec.bound = IF op[r].pc = "bind" THEN op[r].job ELSE op[r].rec.bound
    BY BindEffect
  <1>2. ActFacts(r)
    BY <1>1 DEF ActFacts, Facts, ActInv
  <1>3. gh[op[r].job].on # None /\ (op[r].rec.bound # None => gh[op[r].rec.bound].on # None)
    BY <1>1 DEF Facts, SeenInv
  <1>4. CASE alloc' = alloc
    <2>1. HeldFacts(r)
      BY <1>1, <1>3, <1>4 DEF HeldFacts, Facts, ReadInv
    <2> QED BY <1>1, <1>2, <1>4, <2>1, SameFacts, FactsMove
  <1>5. CASE /\ op'[r].a = op[r].a /\ op'[r].pc \in {"stamp", "bound"}
             /\ alloc[op[r].a].state = "ready" /\ alloc'[op[r].a] = op'[r].rec
             /\ \A x \in Allocs : x # op[r].a => alloc'[x] = alloc[x]
             /\ op'[r].rec.state = "ready" /\ op'[r].rec.job = op[r].rec.job
             /\ op'[r].rec.name = op[r].rec.name
             /\ op'[r].rec.bound = IF op[r].pc = "bind" THEN op[r].job ELSE op[r].rec.bound
    <2>1. HeldFacts(r)
      BY <1>3, <1>5 DEF HeldFacts
    <2>2. op[r].rec.job = alloc[op[r].a].job /\ op[r].rec.name = alloc[op[r].a].name
      BY <1>1, <1>5 DEF Inv, BindingInv, Present, Absent
    <2>3. \A x \in Allocs : /\ Present(x)' <=> Present(x)
                            /\ alloc'[x].job = alloc[x].job /\ alloc'[x].name = alloc[x].name
      BY <1>5, <2>2 DEF Present, Absent
    <2>4. \A x \in Allocs : alloc'[x].bound # None => gh[alloc'[x].bound].on # None
      BY <1>3, <1>5 DEF Facts, SeenInv
    <2>5. StoreFacts
      BY <1>1, <2>3, <2>4 DEF StoreFacts, Facts, NamesInv, JobsInv, RecordInv
    <2> QED BY <1>1, <1>2, <1>5, <2>1, <2>5, FactsMove
  <1> QED BY <1>1, <1>4, <1>5

\* ... what ends or cancels a demand, and the conclusion.
LEMMA EndFacts ==
    ASSUME Inv, EventsInv, Facts, NEW r \in Replicas,
           DropPending(r) \/ AfterBind(r) \/ RecordConclusion(r) \/ FinishExecution(r), UNCHANGED intakeVars
    PROVE  Facts'
  <1>1. CASE DropPending(r) \/ AfterBind(r) \/ FinishExecution(r)
    <2>1. /\ op[r].pc \in {"drop", "bound", "finish"} /\ OpMove(r) /\ UNCHANGED <<world, gh>>
          /\ \A x \in Allocs : Restated(x) /\ run'[x] \in {run[x], NoRunner}
          /\ op'[r].pc \in {"done", "finish", "legacy"}
          /\ op'[r].pc = "legacy" => op[r].act # "completed"
      BY <1>1, DropEffect, AfterBindEffect, FinishEffect
    <2>2. HeldFacts(r) /\ ActFacts(r)
      BY <2>1 DEF HeldFacts, ActFacts, Facts, ActInv
    <2> QED BY <2>1, <2>2, RestatedFacts, FactsMove
  <1>2. CASE RecordConclusion(r)
    <2>1. /\ op[r].pc = "conclude" /\ OpMove(r) /\ op'[r].pc = "finalize" /\ UNCHANGED <<world, run, gh>>
          /\ \/ alloc' = alloc
             \/ \E o \in findByWorkflowJobID(op[r].job) :
                  /\ alloc'[o].state = alloc[o].state /\ alloc'[o].job = alloc[o].job
                  /\ alloc'[o].name = alloc[o].name /\ alloc'[o].bound = alloc[o].bound
                  /\ \A x \in Allocs : x # o => alloc'[x] = alloc[x]
      BY <1>2, ConcludeEffect
    <2>2. \A x \in Allocs : /\ Present(x)' <=> Present(x)
                            /\ alloc'[x].bound = alloc[x].bound
                            /\ alloc'[x].job = alloc[x].job /\ alloc'[x].name = alloc[x].name
      BY <2>1 DEF Present
    <2>3. StoreFacts
      BY <2>1, <2>2 DEF StoreFacts, Facts, NamesInv, JobsInv, SeenInv, RecordInv
    <2>4. HeldFacts(r) /\ ActFacts(r)
      BY <2>1 DEF HeldFacts, ActFacts, Facts, ActInv
    <2> QED BY <2>1, <2>3, <2>4, FactsMove
  <1> QED BY <1>1, <1>2

\* These facts are kept by every step.
LEMMA FactsStep ==
    ASSUME Inv, EventsInv, Facts, [Next]_vars
    PROVE  Facts'
  <1>1. ASSUME NEW r \in Replicas, OpStep(r), UNCHANGED intakeVars PROVE Facts'
    BY <1>1, AllocateFacts, FindFacts, BindFacts, EndFacts DEF OpStep
  <1> QED BY <1>1, StepKinds, FactsLoop, FactsGitHub, FactsQuiet

-----------------------------------------------------------------------------
(* The allocation that runs a job.                                          *)

\* The deployment asks once for a job, and its runners carry either a name of
\* their own or ARC's label.
Plain == NoRetry /\ ~({"jit", "arc"} \subseteq world.drivers)

\* The runner of the live allocation a was given the job j.  It is the runner
\* that was launched for j, unless the deployment is a plain one.
Runs(j, a) == gh[j].on = a /\ alloc[a].state \in Live /\ (alloc[a].job = j \/ Plain)

\* The conclusion of j is on its own demand.
Concluded(j) == /\ findByWorkflowJobID(j) # {}
                /\ \A o \in findByWorkflowJobID(j) : alloc[o].deferred

\* What has been handled of a job that a live allocation runs: a claim has bound
\* the allocation, a completion has left its conclusion and has not seen a claim.
Handles(j, a) ==
    /\ <<j, "in_progress">> \in handled => alloc[a].bound = j
    /\ <<j, "completed">> \in handled => Concluded(j) /\ <<j, "in_progress">> \notin handled
    /\ \A x \in Allocs : alloc[x].bound = j => x = a

\* ... and what the operation of r on that job has done of it.
Works(r, j, a) ==
    /\ op[r].pc \in Holding => op[r].a = a
    /\ op[r].act = "in_progress" =>
         /\ op[r].pc # "drop"
         /\ op[r].pc \in {"stamp", "bound", "finish"} => alloc[a].bound = j
         /\ op[r].pc = "done" /\ op[r].out = "ok" =>
              alloc[a].bound = j /\ <<j, "completed">> \notin handled
    /\ op[r].act = "completed" =>
         /\ op[r].pc = "finalize" => Concluded(j) \/ findByWorkflowJobID(j) = {}
         /\ op[r].pc = "drop" \/ (op[r].pc = "done" /\ op[r].out = "ok") =>
              Concluded(j) /\ <<j, "in_progress">> \notin handled

ExecInv ==
    One => \A j \in Jobs, a \in Allocs : Runs(j, a) =>
             Handles(j, a) /\ \A r \in Replicas : op[r].job = j => Works(r, j, a)

\* The records of a lookup by job.
LEMMA FindMine ==
    ASSUME TypeInv, NEW j
    PROVE  /\ findByWorkflowJobID(j) \subseteq MineOf(j)
           /\ findByWorkflowJobID(j) = {} <=> MineOf(j) = {}
           /\ \A x \in LiveOf(j) : findByWorkflowJobID(j) = LiveOf(j)
           /\ \A o : MineOf(j) = {o} => findByWorkflowJobID(j) = {o}
  <1>1. \A x \in Allocs : Present(x) => (~IsTerminal(x) <=> alloc[x].state \in Live)
    BY DEF TypeInv, DemandType, AllocRecord, Present, IsTerminal, Live, Terminal, Absent
  <1>2. LiveOf(j) = {x \in MineOf(j) : ~IsTerminal(x)}
    BY <1>1 DEF LiveOf, MineOf, Present, Live, Absent
  <1>3. findByWorkflowJobID(j) = IF LiveOf(j) # {} THEN LiveOf(j) ELSE MineOf(j)
    BY <1>2 DEF findByWorkflowJobID, MineOf
  <1> QED BY <1>2, <1>3

\* What the names and the records say of a job that a live allocation runs.
LEMMA RunsFacts ==
    ASSUME Inv, Facts, One, NEW j \in Jobs, NEW a \in Allocs, Runs(j, a)
    PROVE  /\ run[a].name = a /\ alloc[a].state \in {"reserved", "ready"}
           /\ alloc[a].state = "ready" => alloc[a].name = a
           /\ \A x \in Allocs : alloc[x].name = a => x = a
           /\ alloc[a].job = j => findByWorkflowJobID(j) = {a}
           /\ alloc[a].job # j => findByWorkflowJobID(j) = MineOf(j)
           /\ \A x, y \in findByWorkflowJobID(j) : x = y
           /\ \A x \in findByWorkflowJobID(j) : alloc[x].name # ArcLabel
           /\ gh[j].on \notin Workers \cup {None}
  <1>1. a \notin Workers \cup {None, ArcLabel}
    BY DemandAssumption DEF DemandAssumption
  <1>2. run[a].name = a
    BY DEF Runs, Inv, GitHubInv, Live
  <1>3. alloc[a].state \in {"reserved", "ready"} /\ (alloc[a].state = "ready" => alloc[a].name = a)
    <2>1. run[a] # NoRunner
      BY <1>1, <1>2 DEF NoRunner
    <2> QED BY <1>2, <2>1 DEF Runs, Inv, RunnerInv, RunnerOK, Live
  <1>4. \A x \in Allocs : alloc[x].name = a => x = a
    BY <1>1 DEF Facts, NamesInv, MayBeNamed
  <1>5. "jit" \in world.drivers
    BY <1>1, <1>2 DEF Facts, NamesInv, MayBeNamed
  <1>6. CASE alloc[a].job = j
    <2>1. OneLiveAllocationPerJob
      BY DEF Inv, AttemptsInv, OneLiveAllocationPerJob, Present, Live, Absent
    <2>2. LiveOf(j) = {a}
      BY <1>6, <2>1 DEF LiveOf, OneLiveAllocationPerJob, Runs
    <2>3. findByWorkflowJobID(j) = {a}
      BY <2>2, FindMine DEF Inv
    <2>4. alloc[a].name # ArcLabel
      <3>1. alloc[a].state = "reserved" => alloc[a].name = None
        BY DEF Inv, RunnerInv, RunnerOK
      <3>2. None # ArcLabel
        BY DemandAssumption DEF DemandAssumption
      <3> QED BY <1>1, <1>3, <3>1, <3>2
    <2> QED BY <1>1, <1>2, <1>3, <1>4, <1>6, <2>3, <2>4 DEF Runs
  <1>7. CASE alloc[a].job # j
    <2>1. Plain
      BY <1>7 DEF Runs
    <2>2. \A x, y \in MineOf(j) : x = y
      BY <2>1 DEF Facts, RecordInv, MineOf, Plain
    <2>3. findByWorkflowJobID(j) = MineOf(j)
      <3>1. CASE MineOf(j) = {}
        BY <3>1, FindMine DEF Inv
      <3>2. ASSUME NEW o \in MineOf(j) PROVE findByWorkflowJobID(j) = MineOf(j)
        <4>1. MineOf(j) = {o}
          BY <2>2, <3>2
        <4> QED BY <4>1, FindMine DEF Inv
      <3> QED BY <3>1, <3>2
    <2>4. \A x \in Allocs : alloc[x].name # ArcLabel
      <3>1. "arc" \notin world.drivers
        BY <1>5, <2>1 DEF Plain
      <3>2. ArcLabel \notin Workers \cup {None} \cup Allocs
        BY DemandAssumption DEF DemandAssumption
      <3> QED BY <3>1, <3>2 DEF Facts, NamesInv, MayBeNamed
    <2>5. findByWorkflowJobID(j) \subseteq Allocs
      BY <2>3 DEF MineOf
    <2> QED BY <1>1, <1>2, <1>3, <1>4, <1>7, <2>2, <2>3, <2>4, <2>5 DEF Runs
  <1> QED BY <1>6, <1>7

\* What the lookup by job finds of such a job.
FindRuns == \A j \in Jobs, a \in Allocs : Runs(j, a) =>
    /\ alloc[a].job = j => findByWorkflowJobID(j) = {a}
    /\ alloc[a].job # j => findByWorkflowJobID(j) = MineOf(j)

\* The job's own runner is the one record; in a plain deployment there is one.
LEMMA FindByRunner == Inv /\ Facts /\ One => FindRuns
  BY RunsFacts DEF FindRuns

\* A record that is there stays the demand of its job, with its conclusion,
\* unless retention removes it.
Kept(x) ==
    Present(x) => \/ Removed(x)
                  \/ /\ Present(x)' /\ alloc'[x].job = alloc[x].job
                     /\ alloc[x].deferred => alloc'[x].deferred

\* A runner has its job from GitHub, not from a step of the broker.
LEMMA RunsBefore ==
    ASSUME Inv, Inv', NEW j \in Jobs, NEW a \in Allocs, Runs(j, a)', world' = world, gh'[j].on = gh[j].on, Kept(a),
           run'[a] \in {run[a], NoRunner} \/ alloc[a].state \in {"none", "reserved"}
    PROVE  Runs(j, a) /\ Present(a) /\ ~Removed(a) /\ alloc'[a].job = alloc[a].job
  <1>1. a # None /\ NoRunner.name = None
    BY DemandAssumption DEF DemandAssumption, NoRunner
  <1>2. gh[j].on = a /\ alloc'[a].state \in Live
    BY DEF Runs
  <1>3. run'[a].name = a
    <2>1. GitHubInv'
      BY DEF Inv
    <2> QED BY <1>2, <2>1 DEF GitHubInv, Runs, Live
  <1>4. RunnerOK(alloc[a], run[a]) /\ (alloc[a].state \in {"ended", "pruned"} \/ run[a].name = a)
    BY <1>2 DEF Inv, RunnerInv, GitHubInv
  <1>5. alloc[a].state \in Live
    <2>1. alloc[a].state \in Live \cup {"none", "ended", "pruned"}
      BY DEF Inv, TypeInv, DemandType, AllocRecord, Live, Terminal, Absent
    <2>2. alloc[a].state \in {"none", "ended", "pruned"} => run[a].name = None
      BY <1>1, <1>4 DEF RunnerOK
    <2>3. alloc[a].state # "none"
      BY <1>1, <1>4, <2>2
    <2>4. alloc[a].state = "reserved" => alloc[a].state \in Live
      BY DEF Live
    <2> QED BY <1>1, <1>3, <2>1, <2>2, <2>3, <2>4
  <1>6. Present(a) /\ ~Removed(a) /\ Kept(a)
    BY <1>2, <1>5 DEF Present, Live, Absent, Removed
  <1> QED BY <1>2, <1>5, <1>6 DEF Kept, Runs, Plain, NoRetry

\* What the lookup by job finds does not change, and a conclusion stays.
Unmoved(j) ==
    /\ findByWorkflowJobID(j) # {} => findByWorkflowJobID(j)' = findByWorkflowJobID(j)
    /\ Concluded(j) => Concluded(j)'

\* That is so while the allocation runs the job.
LEMMA FindStays ==
    ASSUME Inv, Inv', Facts, Facts', One, world' = world, NEW j \in Jobs, NEW a \in Allocs,
           Runs(j, a), Runs(j, a)', alloc'[a].job = alloc[a].job, \A x \in Allocs : Kept(x), Present(a), ~Removed(a)
    PROVE  Unmoved(j)
  <1>1. One' /\ FindRuns'
    <2>1. (Inv /\ Facts /\ One => FindRuns)'
      BY FindByRunner, PTL
    <2> QED BY <2>1 DEF One
  <1>2. ASSUME findByWorkflowJobID(j) # {} PROVE findByWorkflowJobID(j)' = findByWorkflowJobID(j)
    <2>1. CASE alloc[a].job = j
      <3>1. findByWorkflowJobID(j) = {a}
        BY <2>1, RunsFacts
      <3>2. (alloc[a].job = j => findByWorkflowJobID(j) = {a})'
        BY <1>1 DEF FindRuns
      <3> QED BY <2>1, <3>1, <3>2
    <2>2. CASE alloc[a].job # j
      <3>1. findByWorkflowJobID(j) = MineOf(j) /\ Plain
        BY <2>2, RunsFacts DEF Runs
      <3>2. (alloc[a].job # j => findByWorkflowJobID(j) = MineOf(j))'
        BY <1>1 DEF FindRuns
      <3>3. PICK o : MineOf(j) = {o}
        <4>1. \A x, y \in MineOf(j) : x = y
          BY <3>1, RunsFacts
        <4>2. PICK o \in MineOf(j) : TRUE
          BY <1>2, <3>1
        <4>3. MineOf(j) = {o}
          BY <4>1, <4>2
        <4> QED BY <4>3
      <3>4. o \in Allocs /\ Present(o) /\ alloc[o].job = j
        BY <3>3 DEF MineOf
      <3>5. ~Removed(o)
        BY <3>1 DEF Removed, Plain, NoRetry
      <3>6. Present(o)' /\ alloc'[o].job = j
        BY <3>4, <3>5 DEF Kept
      <3>7. \A x \in Allocs : Present(x)' /\ alloc'[x].job = j => x = o
        BY <1>1, <3>1, <3>4, <3>6 DEF Facts, RecordInv, Plain, NoRetry, One
      <3>8. MineOf(j)' = {o}
        BY <3>4, <3>6, <3>7 DEF MineOf
      <3> QED BY <2>2, <3>1, <3>2, <3>3, <3>8
    <2> QED BY <2>1, <2>2
  <1>3. ASSUME Concluded(j) PROVE Concluded(j)'
    <2>1. findByWorkflowJobID(j)' = findByWorkflowJobID(j) /\ findByWorkflowJobID(j) # {}
      BY <1>2, <1>3 DEF Concluded
    <2>2. ASSUME NEW o \in findByWorkflowJobID(j) PROVE alloc'[o].deferred
      <3>1. o \in Allocs /\ Present(o) /\ alloc[o].job = j /\ alloc[o].deferred
        BY <1>3, <2>2, Lookups DEF Inv, Concluded
      <3>2. ~Removed(o)
        <4>1. CASE alloc[a].job = j
          BY <4>1, <2>2, RunsFacts
        <4>2. CASE alloc[a].job # j
          BY <4>2 DEF Runs, Plain, NoRetry, Removed
        <4> QED BY <4>1, <4>2
      <3> QED BY <3>1, <3>2 DEF Kept
    <2> QED BY <2>1, <2>2 DEF Concluded
  <1> QED BY <1>2, <1>3 DEF Unmoved

\* Operations begin and end.
LEMMA ExecQuiet ==
    ASSUME Inv, ExecInv, Quiet
    PROVE  ExecInv'
  <1> SUFFICES ASSUME One, NEW j \in Jobs, NEW a \in Allocs, Runs(j, a)'
               PROVE  Handles(j, a)' /\ \A r \in Replicas : op'[r].job = j => Works(r, j, a)'
    BY DEF ExecInv, Quiet, One
  <1>1. UNCHANGED <<world, alloc, run, gh>> /\ handled \subseteq handled'
    BY DEF Quiet
  <1>2. /\ Concluded(j)' <=> Concluded(j)
        /\ findByWorkflowJobID(j)' = findByWorkflowJobID(j)
    BY <1>1 DEF Concluded, findByWorkflowJobID, Present, IsTerminal
  <1>3. Runs(j, a)
    BY <1>1 DEF Runs, Plain, NoRetry
  <1>4. Handles(j, a) /\ \A r \in Replicas : op[r].job = j => Works(r, j, a)
    BY <1>3 DEF ExecInv
  <1>5. IdleOp.pc = "idle" /\ IdleOp.job = None /\ j # None
    BY DemandAssumption DEF DemandAssumption, IdleOp
  <1>6. CASE handled' = handled
    <2>1. Handles(j, a)'
      BY <1>1, <1>2, <1>4, <1>6 DEF Handles
    <2>2. ASSUME NEW r \in Replicas, op'[r].job = j PROVE Works(r, j, a)'
      <3>1. CASE op'[r] = op[r]
        BY <1>1, <1>2, <1>4, <1>6, <2>2, <3>1 DEF Works
      <3>2. CASE Begins(r)
        BY <3>2 DEF Begins, Works, Holding
      <3> QED BY <1>5, <2>2, <3>1, <3>2 DEF Quiet
    <2> QED BY <2>1, <2>2
  <1>7. CASE handled' # handled
    <2>1. PICK d \in handled' \ handled : TRUE
      BY <1>1, <1>7
    <2>2. PICK q \in Replicas : /\ op[q].pc = "done" /\ op[q].out = "ok" /\ d = <<op[q].job, op[q].act>>
                                /\ op'[q] = IdleOp
      BY <2>1 DEF Quiet
    <2>3. handled' = handled \cup {d}
      <3>1. ASSUME NEW e \in handled' \ handled PROVE e = d
        <4>1. PICK p \in Replicas : op[p].pc = "done" /\ e = <<op[p].job, op[p].act>>
          BY <3>1 DEF Quiet
        <4>2. p = q
          BY <2>2, <4>1, OneOperation DEF One
        <4> QED BY <2>2, <4>1, <4>2
      <3> QED BY <1>1, <2>1, <3>1
    <2>4. \A r \in Replicas : r # q => op[r].pc = "idle"
      BY <2>2, OneOperation DEF One
    <2>5. ASSUME NEW r \in Replicas, op'[r].job = j PROVE Works(r, j, a)'
      <3>1. r # q
        BY <1>5, <2>2, <2>5
      <3>2. op[r].pc = "idle" /\ op[r] = IdleOp
        BY <2>4, <3>1 DEF Inv, TypeInv, ThreadsInv
      <3>3. Begins(r)
        BY <1>5, <2>5, <3>2 DEF Quiet
      <3> QED BY <3>3 DEF Begins, Works, Holding
    <2>6. CASE op[q].job # j
      <3>1. \A act : <<j, act>> \in handled' <=> <<j, act>> \in handled
        BY <2>2, <2>3, <2>6
      <3> QED BY <1>1, <1>2, <1>4, <2>5, <3>1 DEF Handles
    <2>7. CASE op[q].job = j
      <3>1. Works(q, j, a)
        BY <1>4, <2>7
      <3>2. /\ d = <<j, "in_progress">> => alloc[a].bound = j /\ <<j, "completed">> \notin handled
            /\ d = <<j, "completed">> => Concluded(j) /\ <<j, "in_progress">> \notin handled
        BY <2>2, <2>7, <3>1 DEF Works
      <3>3. <<j, "in_progress">> # <<j, "completed">>
        OBVIOUS
      <3> QED BY <1>1, <1>2, <1>4, <2>3, <2>5, <3>2, <3>3 DEF Handles
    <2> QED BY <2>6, <2>7
  <1> QED BY <1>6, <1>7

\* GitHub gives the job to the runner, or has given it before.
LEMMA ExecGitHub ==
    ASSUME Inv, EventsInv, Facts, ExecInv, NEW k \in Jobs, GitHubStep(k)
    PROVE  ExecInv'
  <1>1. /\ UNCHANGED <<world, alloc, run, op, handled>>
        /\ \A i \in Jobs : i # k => gh'[i] = gh[i]
        /\ gh[k].status # "completed"
        /\ gh[k].on # None => gh'[k].on = gh[k].on
    BY GitHubMoves
  <1> SUFFICES ASSUME One, NEW j \in Jobs, NEW a \in Allocs, Runs(j, a)'
               PROVE  Handles(j, a)' /\ \A r \in Replicas : op'[r].job = j => Works(r, j, a)'
    BY <1>1 DEF ExecInv, One
  <1>2. Concluded(j)' <=> Concluded(j)
    BY <1>1 DEF Concluded, findByWorkflowJobID, Present, IsTerminal
  <1>3. findByWorkflowJobID(j)' = findByWorkflowJobID(j)
    BY <1>1 DEF findByWorkflowJobID, Present, IsTerminal
  <1>4. CASE Handles(j, a) /\ \A r \in Replicas : op[r].job = j => Works(r, j, a)
    BY <1>1, <1>2, <1>3, <1>4 DEF Handles, Works
  <1>5. CASE gh'[j].on = gh[j].on
    <2>1. Runs(j, a)
      BY <1>1, <1>5 DEF Runs, Plain, NoRetry
    <2> QED BY <1>4, <2>1 DEF ExecInv
  <1>6. CASE gh'[j].on # gh[j].on
    <2>1. gh[j].on = None /\ gh[j].status # "completed"
      BY <1>1, <1>6
    <2>2. <<j, "in_progress">> \notin handled /\ <<j, "completed">> \notin handled
      BY <2>1, SentEvents
    <2>3. \A x \in Allocs : alloc[x].bound # j
      <3>1. j # None
        BY DemandAssumption DEF DemandAssumption
      <3> QED BY <2>1, <3>1 DEF Facts, SeenInv
    <2>4. ASSUME NEW r \in Replicas, op[r].job = j PROVE Works(r, j, a)
      <3>1. op[r].pc # "idle" => op[r].act \notin {"in_progress", "completed"}
        BY <2>1, <2>4, SentEvents
      <3>2. op[r].pc # "idle"
        BY <2>4, DemandAssumption DEF DemandAssumption, Inv, TypeInv, ThreadsInv, IdleOp
      <3> QED BY <3>1, <3>2 DEF Works, Facts, ActInv, Holding
    <2> QED BY <1>4, <2>2, <2>3, <2>4 DEF Handles
  <1> QED BY <1>5, <1>6

\* The loops leave bindings and conclusions alone.
LEMMA ExecLoop ==
    ASSUME Inv, Inv', Facts, Facts', ExecInv, NEW b \in Allocs, Loop(b), UNCHANGED intakeVars
    PROVE  ExecInv'
  <1>1. /\ UNCHANGED <<world, gh, op, handled>>
        /\ \A x \in Allocs : /\ Restated(x) \/ Committed(x) \/ Removed(x)
                             /\ run'[x] \in {run[x], NoRunner} \/ alloc[x].state = "reserved"
    BY LoopEffect DEF Loop, intakeVars
  <1> SUFFICES ASSUME One, NEW j \in Jobs, NEW a \in Allocs, Runs(j, a)'
               PROVE  Handles(j, a)' /\ \A r \in Replicas : op'[r].job = j => Works(r, j, a)'
    BY <1>1 DEF ExecInv, One
  <1>2. \A x \in Allocs : Kept(x)
    BY <1>1 DEF Kept, Restated, Committed, Present, Absent
  <1>3. Runs(j, a) /\ Present(a) /\ ~Removed(a) /\ alloc'[a].job = alloc[a].job
    BY <1>1, <1>2, RunsBefore
  <1>4. Handles(j, a) /\ \A r \in Replicas : op[r].job = j => Works(r, j, a)
    BY <1>3 DEF ExecInv
  <1>5. Concluded(j) => Concluded(j)'
    BY <1>1, <1>2, <1>3, FindStays DEF Unmoved
  <1>6. findByWorkflowJobID(j) = {} => findByWorkflowJobID(j)' = {}
    <2>1. MineOf(j)' \subseteq MineOf(j)
      <3>1. j # None
        BY DemandAssumption DEF DemandAssumption
      <3> QED BY <1>1, <3>1 DEF MineOf, Restated, Committed, Removed, Present, Absent
    <2>2. MineOf(j) = {} => findByWorkflowJobID(j)' = {}
      BY <2>1 DEF findByWorkflowJobID, MineOf
    <2> QED BY <2>2, FindMine DEF Inv
  <1>7. alloc'[a].bound = alloc[a].bound /\ \A x \in Allocs : alloc'[x].bound = j => alloc[x].bound = j
    <2>1. j # None
      BY DemandAssumption DEF DemandAssumption
    <2> QED BY <1>1, <1>3, <2>1 DEF Restated, Committed, Removed
  <1> QED BY <1>1, <1>4, <1>5, <1>6, <1>7 DEF Handles, Works

\* What the step of an operation may do to the records.
Writes(r) ==
    \A x \in Allocs :
        /\ Kept(x)
        /\ run'[x] \in {run[x], NoRunner} \/ alloc[x].state = "none"
        /\ \/ alloc'[x].bound = alloc[x].bound
           \/ alloc[x].state = "none" /\ alloc'[x].bound = None
           \/ /\ op[r].pc = "bind" /\ x = op[r].a /\ alloc[x].state = "ready"
              /\ alloc'[x].bound = op[r].job

\* An operation never writes the binding of another job's runner, and it works
\* for its own job as it should.
LEMMA ExecMove ==
    ASSUME Inv, Inv', Facts, Facts', ExecInv, NEW r \in Replicas, OpMove(r),
           UNCHANGED <<world, gh>>, UNCHANGED intakeVars, Writes(r),
           \A j \in Jobs, a \in Allocs :
             /\ One /\ Runs(j, a) /\ Runs(j, a)' /\ op[r].job = j /\ Handles(j, a) /\ Works(r, j, a)
             /\ Unmoved(j)
             => Works(r, j, a)'
    PROVE  ExecInv'
  <1>1. /\ op[r].pc # "idle" /\ op'[r].job = op[r].job /\ op'[r].act = op[r].act
        /\ \A q \in Replicas : q # r => op'[q] = op[q]
        /\ handled' = handled
    BY DEF OpMove, intakeVars
  <1> SUFFICES ASSUME One, NEW j \in Jobs, NEW a \in Allocs, Runs(j, a)'
               PROVE  Handles(j, a)' /\ \A q \in Replicas : op'[q].job = j => Works(q, j, a)'
    BY DEF ExecInv, One
  <1>2. Runs(j, a) /\ Present(a) /\ ~Removed(a) /\ alloc'[a].job = alloc[a].job
    BY RunsBefore DEF Writes
  <1>3. Handles(j, a) /\ \A q \in Replicas : op[q].job = j => Works(q, j, a)
    BY <1>2 DEF ExecInv
  <1>4. Unmoved(j)
    BY <1>2, FindStays DEF Writes
  <1>5. \A q \in Replicas : op'[q].job = j => q = r
    <2>1. \A q \in Replicas : q # r => op[q].pc = "idle"
      BY <1>1, OneOperation DEF One
    <2> QED BY <1>1, <2>1, DemandAssumption DEF DemandAssumption, Inv, TypeInv, ThreadsInv, IdleOp
  <1>6. \A q \in Replicas : op'[q].job = j => Works(q, j, a)'
    BY <1>1, <1>2, <1>3, <1>4, <1>5
  <1>7. alloc[a].state \in {"reserved", "ready"} /\ (alloc[a].state = "ready" => alloc[a].name = a)
    BY <1>2, RunsFacts
  <1>8. /\ alloc[a].bound = j => alloc'[a].bound = j
        /\ \A x \in Allocs : alloc'[x].bound = j => x = a
    <2>1. CASE op[r].pc = "bind" /\ op[r].a = a /\ alloc[a].state = "ready"
      <3>1. MayRelease(op[r].job, a) /\ op[r].job \in Jobs
        BY <1>7, <2>1 DEF Inv, TypeInv, DemandType, BindingInv, Holding, Present, Absent
      <3>2. gh[op[r].job].on = a
        BY <3>1, DemandAssumption DEF DemandAssumption, MayRelease
      <3>3. op[r].job = j
        BY <1>2, <3>1, <3>2 DEF Inv, GitHubInv, Runs
      <3> QED BY <1>3, <1>7, <2>1, <3>3, DemandAssumption DEF DemandAssumption, Writes, Handles
    <2>2. CASE ~(op[r].pc = "bind" /\ op[r].a = a /\ alloc[a].state = "ready")
      <3>1. alloc'[a].bound = alloc[a].bound
        BY <1>7, <2>2 DEF Writes
      <3>2. ASSUME NEW x \in Allocs, alloc'[x].bound = j PROVE x = a
        <4>1. CASE alloc[x].bound = j
          BY <1>3, <4>1 DEF Handles
        <4>2. CASE op[r].pc = "bind" /\ x = op[r].a /\ op[r].job = j
          BY <1>3, <4>2 DEF Works, Holding
        <4> QED BY <3>2, <4>1, <4>2, DemandAssumption DEF DemandAssumption, Writes
      <3> QED BY <3>1, <3>2
    <2> QED BY <2>1, <2>2
  <1> QED BY <1>1, <1>3, <1>4, <1>6, <1>8 DEF Handles, Unmoved

\* A step that at most ends, reserves or concludes records.
LEMMA RestatedWrites ==
    ASSUME NEW r \in Replicas, \A x \in Allocs : Restated(x) /\ run'[x] \in {run[x], NoRunner}
    PROVE  Writes(r)
  BY DEF Writes, Kept, Restated

\* A step that writes no record.
LEMMA SameWrites ==
    ASSUME NEW r \in Replicas, UNCHANGED <<alloc, run>>
    PROVE  Writes(r)
  BY RestatedWrites DEF Restated, Present

\* AllocateForWorkflowJob knows no runner.
LEMMA ExecAllocate ==
    ASSUME Inv, Inv', Facts, Facts', ExecInv, NEW r \in Replicas, UNCHANGED intakeVars,
           AllocateCheck(r) \/ AllocateInsert(r)
    PROVE  ExecInv'
  <1>1. /\ op[r].pc \in {"allocate", "insert"} /\ OpMove(r) /\ UNCHANGED <<world, gh>>
        /\ op'[r].pc \in {"insert", "done"}
    BY CheckEffect, InsertEffect
  <1>2. Writes(r)
    <2>1. CASE UNCHANGED <<alloc, run>>
      BY <2>1, SameWrites
    <2>2. ASSUME NEW x \in Allocs,
                 /\ alloc[x].state = "none" /\ alloc'[x].bound = None
                 /\ \A y \in Allocs : y # x => alloc'[y] = alloc[y] /\ run'[y] = run[y]
          PROVE  Writes(r)
      BY <2>2 DEF Writes, Kept, Present, Absent
    <2> QED BY <2>1, <2>2, CheckEffect, InsertEffect
  <1>3. op'[r].act = "queued"
    BY <1>1 DEF OpMove, Facts, ActInv
  <1>4. \A j \in Jobs, a \in Allocs : Works(r, j, a)'
    BY <1>1, <1>3 DEF Works, Holding
  <1> QED BY <1>1, <1>2, <1>4, ExecMove

\* A claim resolves the runner: it is the allocation that runs the job, or no
\* runner is known yet.
LEMMA ExecClaim ==
    ASSUME Inv, Inv', Facts, Facts', ExecInv, NEW r \in Replicas, UNCHANGED intakeVars,
           ClaimFind(r) \/ ClaimLegacy(r)
    PROVE  ExecInv'
  <1>1. /\ op[r].pc \in {"claim", "legacy"} /\ OpMove(r) /\ UNCHANGED <<world, alloc, run, gh>>
        /\ DemandType /\ TypeInv
    BY FindEffect DEF ClaimFind, ClaimLegacy, Inv, TypeInv
  <1>2. ASSUME One, NEW j \in Jobs, NEW a \in Allocs, Runs(j, a), op[r].job = j
        PROVE  Works(r, j, a)'
    <2>1. /\ \A x \in Allocs : alloc[x].name = a => x = a
          /\ \A x \in findByWorkflowJobID(j) : alloc[x].name # ArcLabel
          /\ gh[j].on \notin Workers \cup {None} /\ gh[j].on = a
          /\ ~IsTerminal(a) /\ a # None
      BY <1>2, RunsFacts DEF IsTerminal, Terminal, Runs
    <2>2. op'[r].act = "in_progress"
      BY <1>1 DEF OpMove, Facts, ActInv
    <2>3. CASE ClaimFind(r)
      <3>1. \A x \in executionAllocation(j, gh[j].on) : x = a
        BY <2>1 DEF executionAllocation
      <3>2. \/ Hold(r, "bind", a)
            \/ Goto(r, "legacy")
        BY <1>2, <2>1, <2>3, <3>1 DEF ClaimFind
      <3>3. \/ op'[r].pc = "bind" /\ op'[r].a = a
            \/ op'[r].pc = "legacy"
        BY <1>1, <3>2, HoldMove, GotoMove DEF OpPCs, Holding
      <3> QED BY <2>2, <3>3 DEF Works, Holding
    <2>4. CASE ClaimLegacy(r)
      <3>1. Done(r, "unknown")
        BY <1>2, <2>1, <2>4 DEF ClaimLegacy, legacyARCWorkflowAllocation
      <3>2. op'[r].pc = "done" /\ op'[r].out = "unknown"
        BY <1>1, <3>1, DoneMove
      <3> QED BY <2>2, <3>2 DEF Works, Holding
    <2> QED BY <2>3, <2>4
  <1> QED BY <1>1, <1>2, SameWrites, ExecMove

\* A completion that is not told the runner finds the binding of the claim, when
\* there was one.
LEMMA ExecFinalize ==
    ASSUME Inv, Inv', Facts, Facts', ExecInv, NEW r \in Replicas, UNCHANGED intakeVars, FinalizeFind(r)
    PROVE  ExecInv'
  <1>1. /\ op[r].pc = "finalize" /\ OpMove(r) /\ UNCHANGED <<world, alloc, run, gh>> /\ handled' = handled
        /\ DemandType /\ TypeInv
    BY FindEffect DEF FinalizeFind, Inv, TypeInv, intakeVars
  <1>2. ASSUME One, NEW j \in Jobs, NEW a \in Allocs, Runs(j, a), op[r].job = j,
               Handles(j, a), Works(r, j, a), Unmoved(j)
        PROVE  Works(r, j, a)'
    <2>1. /\ \A x \in Allocs : alloc[x].name = a => x = a
          /\ \A x \in findByWorkflowJobID(j) : alloc[x].name # ArcLabel
          /\ gh[j].on = a /\ ~IsTerminal(a) /\ a # None /\ Present(a)
      BY <1>2, RunsFacts DEF IsTerminal, Terminal, Runs, Present, Live, Absent
    <2>2. op[r].act = "completed" /\ op'[r].act = "completed"
      BY <1>1 DEF OpMove, Facts, ActInv
    <2> DEFINE runner == IF gh[j].bare THEN None ELSE gh[j].on
               found == executionAllocation(j, runner)
    <2>3. \A x \in found : x = a
      <3>1. CASE runner = None
        BY <1>2, <3>1 DEF executionAllocation, Handles
      <3>2. CASE runner = a
        BY <2>1, <3>2 DEF executionAllocation
      <3> QED BY <2>1, <3>1, <3>2
    <2>4. ASSUME found = {}, runner = None PROVE <<j, "in_progress">> \notin handled
      <3>1. alloc[a].bound # j
        BY <2>1, <2>4 DEF executionAllocation
      <3> QED BY <1>2, <3>1 DEF Handles
    <2> HIDE DEF runner, found
    <2>5. \/ Hold(r, "bind", a)
          \/ Done(r, "unknown")
          \/ /\ found = {} /\ runner = None /\ findByWorkflowJobID(j) # {}
             /\ Done(r, "ok") \/ \E x \in Allocs : Hold(r, "drop", x)
      <3>1. \A x \in findByWorkflowJobID(j) : x \in Allocs /\ ~legacyARCWorkflowAllocation(x)
        BY <1>1, <2>1, Lookups DEF legacyARCWorkflowAllocation
      <3> QED BY <1>2, <2>1, <2>3, <3>1 DEF FinalizeFind, runner, found
    <2>6. CASE Hold(r, "bind", a)
      <3>1. op'[r].pc = "bind" /\ op'[r].a = a
        BY <1>1, <2>6, HoldMove DEF OpPCs
      <3> QED BY <2>2, <3>1 DEF Works, Holding
    <2>7. CASE Done(r, "unknown")
      <3>1. op'[r].pc = "done" /\ op'[r].out = "unknown"
        BY <1>1, <2>7, DoneMove
      <3> QED BY <2>2, <3>1 DEF Works, Holding
    <2>8. CASE /\ found = {} /\ runner = None /\ findByWorkflowJobID(j) # {}
               /\ Done(r, "ok") \/ \E x \in Allocs : Hold(r, "drop", x)
      <3>1. op'[r].pc \in {"done", "drop"}
        BY <1>1, <2>8, DoneMove, HoldMove DEF OpPCs
      <3>2. Concluded(j)' /\ <<j, "in_progress">> \notin handled'
        BY <1>1, <1>2, <2>2, <2>4, <2>8 DEF Works, Unmoved
      <3> QED BY <2>2, <3>1, <3>2 DEF Works, Holding
    <2> QED BY <2>5, <2>6, <2>7, <2>8
  <1> QED BY <1>1, <1>2, SameWrites, ExecMove

\* bindWorkflowExecution writes the job onto the allocation that runs it.
LEMMA ExecBind ==
    ASSUME Inv, Inv', Facts, Facts', ExecInv, NEW r \in Replicas, UNCHANGED intakeVars,
           BindExecution(r) \/ StampClaim(r)
    PROVE  ExecInv'
  <1>1. /\ op[r].pc \in {"bind", "stamp"} /\ op[r].a \in Allocs /\ op[r].rec.state = "ready"
        /\ OpMove(r) /\ UNCHANGED <<world, run, gh>>
        /\ \/ alloc' = alloc /\ op'[r].pc = "done" /\ op'[r].out = "error"
           \/ /\ op'[r].a = op[r].a
              /\ op'[r].pc = "stamp" => op[r].pc = "bind" /\ op[r].act # "completed"
              /\ op'[r].pc \in {"stamp", "bound"}
              /\ \/ /\ alloc' = alloc /\ op'[r].rec = op[r].rec
                    /\ op[r].rec.bound = op[r].job
                 \/ /\ alloc[op[r].a].state = "ready" /\ alloc'[op[r].a] = op'[r].rec
                    /\ \A x \in Allocs : x # op[r].a => alloc'[x] = alloc[x]
                    /\ op'[r].rec.state = "ready" /\ op'[r].rec.job = op[r].rec.job
                    /\ op'[r].rec.name = op[r].rec.name /\ op'[r].rec.deferred = op[r].rec.deferred
                    /\ op'[r].rec.bound = IF op[r].pc = "bind" THEN op[r].job ELSE op[r].rec.bound
    BY BindEffect
  <1>2. One /\ alloc[op[r].a].state = "ready" => op[r].rec = alloc[op[r].a]
    BY <1>1 DEF Facts, ReadInv
  <1>3. CASE One
    <2>1. Writes(r)
      <3>1. CASE alloc' = alloc
        BY <1>1, <3>1, SameWrites
      <3>2. CASE alloc' # alloc
        BY <1>1, <1>2, <1>3, <3>2 DEF Writes, Kept, Present, Absent
      <3> QED BY <3>1, <3>2
    <2>2. ASSUME NEW j \in Jobs, NEW a \in Allocs, Runs(j, a), op[r].job = j, Works(r, j, a)
          PROVE  Works(r, j, a)'
      <3>1. op[r].a = a /\ (op[r].pc = "stamp" => alloc[a].bound = j)
        BY <1>1, <2>2 DEF Works, Holding, Facts, ActInv
      <3>2. alloc[a].state = "ready" /\ op[r].rec = alloc[a]
        <4>1. alloc[a].state \in {"ready", "ended", "pruned"}
          BY <1>1, <3>1 DEF Inv, BindingInv, Holding
        <4> QED BY <1>2, <1>3, <2>2, <3>1, <4>1 DEF Runs, Live
      <3>3. CASE op'[r].pc = "done" /\ op'[r].out = "error"
        BY <3>3 DEF Works, Holding
      <3>4. CASE op'[r].a = op[r].a /\ op'[r].pc \in {"stamp", "bound"}
        <4>1. alloc'[a].bound = j
          BY <1>1, <2>2, <3>1, <3>2, <3>4
        <4> QED BY <3>1, <3>4, <4>1 DEF Works, Holding
      <3> QED BY <1>1, <3>3, <3>4
    <2> QED BY <1>1, <2>1, <2>2, ExecMove
  <1>4. CASE ~One
    BY <1>1, <1>4 DEF ExecInv, One
  <1> QED BY <1>3, <1>4

\* A completion that cancels a pending demand, and what follows a binding: a claim
\* that finds no conclusion has not been overtaken by the completion.
LEMMA ExecAfter ==
    ASSUME Inv, Inv', Facts, Facts', ExecInv, NEW r \in Replicas, UNCHANGED intakeVars,
           DropPending(r) \/ AfterBind(r)
    PROVE  ExecInv'
  <1>1. /\ OpMove(r) /\ UNCHANGED <<world, run, gh>> /\ handled' = handled
        /\ \A x \in Allocs : Restated(x)
        /\ op'[r].act = op[r].act /\ op[r].act \in {"in_progress", "completed"}
    BY DropEffect, AfterBindEffect DEF OpMove, Facts, ActInv, intakeVars
  <1>2. Writes(r)
    BY <1>1, RestatedWrites
  <1>3. ASSUME One, NEW j \in Jobs, NEW a \in Allocs, Runs(j, a), op[r].job = j,
               Handles(j, a), Works(r, j, a), Unmoved(j)
        PROVE  Works(r, j, a)'
    <2>1. CASE DropPending(r)
      <3>1. /\ op[r].pc = "drop"
            /\ op'[r].pc = "done" \/ (op'[r].pc = "legacy" /\ op[r].act # "completed")
        BY <2>1, DropEffect
      <3>2. op[r].act = "completed" /\ Concluded(j)' /\ <<j, "in_progress">> \notin handled'
        BY <1>1, <1>3, <3>1 DEF Works, Unmoved
      <3> QED BY <1>1, <3>1, <3>2 DEF Works, Holding
    <2>2. CASE AfterBind(r)
      <3>1. /\ op[r].pc = "bound"
            /\ \/ op'[r].pc = "finish" /\ op'[r].a = op[r].a
               \/ /\ op'[r].pc = "done" /\ op[r].act = "in_progress"
                  /\ \/ findByWorkflowJobID(j) = {}
                     \/ \E o \in findByWorkflowJobID(j) : ~alloc[o].deferred
        BY <1>3, <2>2, AfterBindEffect
      <3>2. op[r].a = a /\ (op[r].act = "in_progress" => alloc'[a].bound = j)
        BY <1>1, <1>3, <3>1 DEF Works, Holding, Restated
      <3>3. op'[r].pc = "done" => op[r].act = "in_progress" /\ <<j, "completed">> \notin handled'
        BY <1>1, <1>3, <3>1 DEF Handles, Concluded
      <3> QED BY <1>1, <3>1, <3>2, <3>3 DEF Works, Holding
    <2> QED BY <2>1, <2>2
  <1> QED BY <1>1, <1>2, <1>3, ExecMove

\* The conclusion is stored where a later claim looks for it, and the end of the
\* execution ends the allocation that ran the job.
LEMMA ExecEnd ==
    ASSUME Inv, Inv', Facts, Facts', ExecInv, NEW r \in Replicas, UNCHANGED intakeVars,
           RecordConclusion(r) \/ FinishExecution(r)
    PROVE  ExecInv'
  <1>1. CASE RecordConclusion(r)
    <2>1. /\ op[r].pc = "conclude" /\ OpMove(r) /\ op'[r].pc = "finalize" /\ UNCHANGED <<world, run, gh>>
          /\ \/ alloc' = alloc /\ findByWorkflowJobID(op[r].job) = {}
             \/ \E o \in findByWorkflowJobID(op[r].job) :
                  /\ alloc'[o].deferred /\ alloc'[o].state = alloc[o].state /\ alloc'[o].job = alloc[o].job
                  /\ alloc'[o].name = alloc[o].name /\ alloc'[o].bound = alloc[o].bound
                  /\ \A x \in Allocs : x # o => alloc'[x] = alloc[x]
      BY <1>1, ConcludeEffect
    <2>2. Writes(r)
      BY <2>1, SameWrites DEF Writes, Kept, Present
    <2>3. op'[r].act = "completed"
      BY <2>1 DEF OpMove, Facts, ActInv
    <2>4. ASSUME One, NEW j \in Jobs, NEW a \in Allocs, Runs(j, a), op[r].job = j, Unmoved(j)
          PROVE  Works(r, j, a)'
      <3>1. CASE alloc' = alloc /\ findByWorkflowJobID(j) = {}
        <4>1. findByWorkflowJobID(j)' = {}
          BY <3>1 DEF findByWorkflowJobID, Present, IsTerminal
        <4> QED BY <2>1, <2>3, <4>1 DEF Works, Holding
      <3>2. ASSUME NEW o \in findByWorkflowJobID(j), alloc'[o].deferred PROVE Works(r, j, a)'
        <4>1. findByWorkflowJobID(j) = {o}
          BY <2>4, <3>2, RunsFacts
        <4>2. Concluded(j)'
          BY <2>4, <3>2, <4>1 DEF Unmoved, Concluded
        <4> QED BY <2>1, <2>3, <4>2 DEF Works, Holding
      <3> QED BY <2>1, <2>4, <3>1, <3>2
    <2> QED BY <2>1, <2>2, <2>4, ExecMove
  <1>2. CASE FinishExecution(r)
    <2>1. /\ op[r].pc = "finish" /\ op[r].a \in Allocs /\ OpMove(r)
          /\ UNCHANGED <<world, gh>>
          /\ \A x \in Allocs : Restated(x) /\ run'[x] \in {run[x], NoRunner}
          /\ alloc'[op[r].a].state \notin Live
      BY <1>2, FinishEffect
    <2>2. ASSUME NEW j \in Jobs, NEW a \in Allocs, Works(r, j, a) PROVE ~Runs(j, a)'
      BY <2>1, <2>2 DEF Works, Holding, Runs
    <2> QED BY <2>1, <2>2, RestatedWrites, ExecMove
  <1> QED BY <1>1, <1>2

\* Every step keeps the invariant of executions.
LEMMA ExecStep ==
    ASSUME Inv, EventsInv, Facts, ExecInv, [Next]_vars
    PROVE  ExecInv'
  <1>1. Inv' /\ Facts'
    BY NextInv, FactsStep
  <1>2. ASSUME NEW r \in Replicas, OpStep(r), UNCHANGED intakeVars PROVE ExecInv'
    BY <1>1, <1>2, ExecAllocate, ExecClaim, ExecFinalize, ExecBind, ExecAfter, ExecEnd DEF OpStep
  <1> QED BY <1>1, <1>2, StepKinds, ExecLoop, ExecGitHub, ExecQuiet

\* The invariant of executions holds always.
LEMMA AlwaysExec == Spec => [](Inv /\ EventsInv /\ Facts /\ ExecInv)
  <1>1. Init => Inv /\ EventsInv /\ Facts /\ ExecInv
    <2> SUFFICES ASSUME Init PROVE Inv /\ EventsInv /\ Facts /\ ExecInv
      OBVIOUS
    <2>1. ExecInv
      <3>1. NoAlloc.state \notin Live
        BY DEF NoAlloc, NewAlloc, Live
      <3> QED BY <3>1 DEF Init, DemandInit, ExecInv, Runs
    <2> QED BY <2>1, InitInv, FactsInit
  <1>2. Inv /\ EventsInv /\ Facts /\ ExecInv /\ [Next]_vars => (Inv /\ EventsInv /\ Facts /\ ExecInv)'
    BY NextInv, EventsStep, FactsStep, ExecStep
  <1> QED BY <1>1, <1>2, PTL DEF Spec

\* With one broker process the end of a job ends the allocation that was launched
\* for it and ran it, whatever is lost, repeated, retried or restarted.
OwnRunnerEnds ==
    \A j \in Jobs, a \in Allocs :
        /\ One
        /\ {<<j, "in_progress">>, <<j, "completed">>} \subseteq handled
        /\ alloc[a].state \in Live /\ alloc[a].job = j
        => gh[j].on # a

\* ClaimWorkflowJob and FinalizeWorkflowJob, in either order and although the
\* completed event may name no runner, end the runner that was launched for a job
\* and ran it: a claim leaves the binding that a completion looks for, and a
\* completion leaves the conclusion that a claim looks for.
THEOREM OwnRunnersEnd == Spec => []OwnRunnerEnds
  <1>1. ExecInv => OwnRunnerEnds
    BY DEF ExecInv, Runs, Handles, OwnRunnerEnds
  <1> QED BY <1>1, AlwaysExec, PTL

\* A deployment in which a job has one record: the broker asks once for every job
\* and names its runners in one way, or it serves a single job.
SimpleWorlds ==
    \A w \in Worlds : Cardinality(w.replicas) = 1 =>
        \/ w.loops \cap {"poll", "prune"} = {} /\ ~({"jit", "arc"} \subseteq w.drivers)
        \/ \A i, j \in w.jobs : i = j

\* In such a deployment they end the runner that ran the job although it was
\* launched for another one.
THEOREM ExecutedJobsEnd ==
    ASSUME SimpleWorlds
    PROVE  Spec => []ExecutedJobEndsItsAllocation
  <1>1. Inv /\ Facts /\ ExecInv => ExecutedJobEndsItsAllocation
    <2> SUFFICES ASSUME Inv, Facts, ExecInv, NEW j \in Jobs, NEW a \in Allocs, One,
                        <<j, "in_progress">> \in handled, <<j, "completed">> \in handled,
                        alloc[a].state \in Live, gh[j].on = a
                 PROVE  FALSE
      BY DEF ExecutedJobEndsItsAllocation, One
    <2>1. world \in Worlds
      BY DEF Inv, TypeInv, DemandType
    <2>2. a # None
      BY DemandAssumption DEF DemandAssumption
    <2>3. alloc[a].job \in world.jobs /\ j \in world.jobs
      BY <2>2 DEF Facts, JobsInv, Present, Live, Absent, Inv, GitHubInv
    <2>4. Runs(j, a)
      BY <2>1, <2>3 DEF SimpleWorlds, Runs, Plain, NoRetry, One
    <2> QED BY <2>4 DEF ExecInv, Handles
  <1> QED BY <1>1, AlwaysExec, PTL

=============================================================================
