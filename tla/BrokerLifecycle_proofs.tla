----------------------- MODULE BrokerLifecycle_proofs -----------------------
(***************************************************************************)
(* Proofs about BrokerLifecycle for every number of allocations, pools,    *)
(* backends and threads, every configuration and every limit.              *)
(***************************************************************************)
EXTENDS BrokerLifecycle, FiniteSetTheorems, TLAPS

-----------------------------------------------------------------------------
(***************************************************************************)
(* The inductive invariant behind TypeOK.  The types alone are not         *)
(* inductive: that a saved record is a record depends on where the thread  *)
(* that saves it stands.                                                   *)
(***************************************************************************)

\* A record that exists belongs to a pool.
GoodRecord(r) == r \in Record /\ (r.state # "absent" => r.pool \in Pool)

\* The program counters at which a slot is held or was saved, and those at
\* which the allocation has an id.
WithSlot == {"admit", "save", "provision", "missing", "commit", "abandon", "retry"}
WithId == {"provision", "missing", "commit", "abandon", "retry"}

\* What the local variables of allocateNow mean at each program counter.
GoodWorker(t, w) ==
    /\ w \in Worker
    /\ w.pc \notin {"idle", "done", "exit"} => w.pool \in Pool
    /\ w.pc = "filter" => w.pin # "rerouted"
    /\ w.pc \in WithSlot => w.sel \in Backend /\ MaxRunners[w.pool][w.sel] > 0
    /\ w.pc \in WithId => w.id \in Id
    /\ t = Queue =>
          \/ w.pc = "idle"
          \/ w.id \in Id /\ w.snap.state = "pending" /\ w.snap.pool \in Pool
    /\ t # Queue => w.snap = NoRecord /\ (w.id # None => w.pc \in WithId)

\* A thread between a read and a write carries what it read.
GoodCall(c, x) ==
    /\ x \in Call
    /\ x # NoCall =>
          /\ x.id \in Id /\ GoodRecord(x.rec) /\ x.rec.state # "absent"
          /\ c \in Completes => x.to \in TerminalStates

GoodStore(s) == s \in [Id -> Record] /\ \A i \in Id : GoodRecord(s[i])

GoodWorkers(ws) == ws \in [Workers -> Worker] /\ \A t \in Workers : GoodWorker(t, ws[t])

GoodCalls(cs) == cs \in [Callers -> Call] /\ \A c \in Callers : GoodCall(c, cs[c])

GoodQueue(q) ==
    /\ q \in [Id -> Record]
    /\ \A i \in Id : q[i] # NoRecord => q[i].state = "pending" /\ q[i].pool \in Pool

TypeInv ==
    /\ GoodStore(store)
    /\ active \in [Pool \X Backend -> Nat]
    /\ runners \subseteq Id \X Backend
    /\ fresh \subseteq Id
    /\ GoodWorkers(worker)
    /\ tail \in [Threads -> Tail]
    /\ GoodCalls(call)
    /\ sweep \in [running : BOOLEAN, todo : [Id -> Record]]
    /\ GoodQueue(queue)

\* The empty records have their types.
LEMMA EmptyTypes ==
    /\ NoRecord \in Record /\ GoodRecord(NoRecord)
    /\ NoTail \in Tail
    /\ NoCall \in Call
    /\ \A pc \in WorkerPC : NoWork(pc) \in Worker
  <1>1. 0 \in 0 .. MaxAttempts
    BY StoreAssumption
  <1>2. NoRecord \in Record
    BY <1>1 DEF NoRecord, Record, States
  <1>3. GoodRecord(NoRecord)
    BY <1>2 DEF GoodRecord, NoRecord
  <1>4. NoTail \in Tail
    BY DEF NoTail, Tail
  <1>5. NoCall \in Call
    BY <1>2 DEF NoCall, Call
  <1>6. \A pc \in WorkerPC : NoWork(pc) \in Worker
    BY <1>2 DEF NoWork, Worker, ErrorKinds
  <1> QED BY <1>2, <1>3, <1>4, <1>5, <1>6

\* The initial state satisfies the invariant.
LEMMA TypeInit == Init => TypeInv
  <1> SUFFICES ASSUME Init PROVE TypeInv
    OBVIOUS
  <1>1. NoRecord \in Record /\ GoodRecord(NoRecord)
    BY EmptyTypes
  <1>2. GoodStore(store)
    BY <1>1 DEF Init, NoTodo, GoodStore
  <1>3. GoodWorkers(worker)
    <2>1. NoWork("idle") \in Worker
      BY EmptyTypes DEF WorkerPC
    <2>2. \A t \in Workers : GoodWorker(t, NoWork("idle"))
      BY <2>1 DEF GoodWorker, NoWork, WithSlot, WithId
    <2> QED BY <2>1, <2>2 DEF Init, GoodWorkers
  <1>4. GoodCalls(call)
    BY EmptyTypes DEF Init, GoodCall, GoodCalls
  <1>5. sweep \in [running : BOOLEAN, todo : [Id -> Record]]
    BY <1>1 DEF Init, NoTodo
  <1>6. GoodQueue(queue)
    BY <1>1 DEF Init, NoTodo, GoodQueue
  <1>7. tail \in [Threads -> Tail]
    BY EmptyTypes DEF Init
  <1>8. active \in [Pool \X Backend -> Nat] /\ runners \subseteq Id \X Backend /\ fresh \subseteq Id
    BY DEF Init
  <1> QED BY <1>2, <1>3, <1>4, <1>5, <1>6, <1>7, <1>8 DEF TypeInv

-----------------------------------------------------------------------------
(***************************************************************************)
(* What the building blocks of the actions do to the types.                *)
(***************************************************************************)

\* Save, MarkState and Delete keep the store well formed.
LEMMA StoreOperations ==
    ASSUME NEW s, GoodStore(s)
    PROVE  /\ \A i, r : GoodRecord(r) => GoodStore(Save(s, i, r))
           /\ \A i, to : to \in TerminalStates => GoodStore(MarkState(s, i, to))
           /\ \A ids : GoodStore(Delete(s, ids))
  <1>1. ASSUME NEW i, NEW r, GoodRecord(r) PROVE GoodStore(Save(s, i, r))
    BY <1>1 DEF GoodStore, GoodRecord, Save
  <1>2. ASSUME NEW i, NEW to, to \in TerminalStates PROVE GoodStore(MarkState(s, i, to))
    <2>1. CASE i \in Id /\ s[i].state # "absent"
      <3> DEFINE r == [s[i] EXCEPT !.state = to]
      <3>1. s[i] \in Record /\ s[i].pool \in Pool
        BY <2>1 DEF GoodStore, GoodRecord
      <3>2. GoodRecord(r)
        BY <1>2, <3>1 DEF GoodRecord, Record, States, TerminalStates
      <3>3. MarkState(s, i, to) = Save(s, i, r)
        BY <2>1 DEF MarkState, Save, GoodStore
      <3> QED BY <1>1, <3>2, <3>3
    <2>2. CASE ~(i \in Id /\ s[i].state # "absent")
      <3>1. MarkState(s, i, to) = s
        BY <2>2 DEF MarkState, GoodStore
      <3> QED BY <3>1
    <2> QED BY <2>1, <2>2
  <1>3. ASSUME NEW ids PROVE GoodStore(Delete(s, ids))
    BY EmptyTypes DEF GoodStore, Delete
  <1> QED BY <1>1, <1>2, <1>3

\* The records allocateNow builds are well formed.
LEMMA RecordOfType ==
    ASSUME NEW w \in Worker, w.pool \in Pool,
           NEW state \in States, NEW b \in Backend \cup {None}, NEW pin \in Backend \cup {None}
    PROVE  GoodRecord(RecordOf(w, state, b, pin)) /\ RecordOf(w, state, b, pin).state = state
  BY DEF RecordOf, GoodRecord, Worker, Record

\* Changing one worker to a good one keeps all of them good.
LEMMA GotoType ==
    ASSUME GoodWorkers(worker), NEW t \in Workers, NEW w, GoodWorker(t, w), Goto(t, w)
    PROVE  GoodWorkers(worker')
  BY DEF GoodWorkers, GoodWorker, Goto

\* So does returning from allocateNow, with or without an error.
LEMMA ReturnType ==
    ASSUME GoodWorkers(worker), NEW t \in Workers, Return(t)
    PROVE  GoodWorkers(worker')
  <1> DEFINE w == NoWork(IF t = Queue THEN "idle" ELSE "done")
  <1>1. w \in Worker
    BY EmptyTypes DEF WorkerPC
  <1>2. GoodWorker(t, w)
    BY <1>1 DEF GoodWorker, NoWork, WithSlot, WithId
  <1> QED BY <1>2, GotoType DEF Return

\* Fail ends a request or sends the queue loop to its exit.
LEMMA FailType ==
    ASSUME GoodWorkers(worker), NEW t \in Workers, worker[t].pc # "idle",
           NEW kind \in ErrorKinds, Fail(t, kind)
    PROVE  GoodWorkers(worker')
  <1> DEFINE w == IF t = Queue
                  THEN [NoWork("exit") EXCEPT !.id = worker[t].id, !.snap = worker[t].snap, !.err = kind]
                  ELSE NoWork("done")
  <1>1. NoWork("exit") \in Worker /\ NoWork("done") \in Worker
    BY EmptyTypes DEF WorkerPC
  <1>2. worker[t] \in Worker /\ GoodWorker(t, worker[t])
    BY DEF GoodWorkers
  <1>3. w \in Worker
    <2>1. worker[t].id \in Id \cup {None} /\ worker[t].snap \in Record
      BY <1>2 DEF Worker
    <2>2. CASE t = Queue
      BY <2>1, <2>2 DEF Worker, NoWork, WorkerPC
    <2>3. CASE t # Queue
      BY <1>1, <2>3
    <2> QED BY <2>2, <2>3
  <1>4. GoodWorker(t, w)
    BY <1>2, <1>3 DEF GoodWorker, NoWork, WithSlot, WithId
  <1> QED BY <1>4, GotoType DEF Fail

\* queueAllocation saves a good record or fails.
LEMMA QueueOrFailType ==
    ASSUME TypeInv, NEW t \in Workers, worker[t].pc # "idle", worker[t].pool \in Pool,
           NEW i, NEW b \in Backend \cup {None}, NEW pin \in Backend \cup {None},
           NEW kind \in ErrorKinds, QueueOrFail(t, i, b, pin, kind)
    PROVE  GoodStore(store') /\ GoodWorkers(worker') /\ fresh' \subseteq Id
  <1>1. CASE CanQueue(worker[t], kind)
    <2>1. GoodRecord(RecordOf(worker[t], "pending", b, pin))
      BY RecordOfType DEF TypeInv, GoodWorkers, States
    <2>2. Return(t) /\ fresh' \subseteq fresh
          /\ \E id : store' = Save(store, id, RecordOf(worker[t], "pending", b, pin))
      BY <1>1 DEF QueueOrFail
    <2> QED BY <2>1, <2>2, StoreOperations, ReturnType DEF TypeInv
  <1>2. CASE ~CanQueue(worker[t], kind)
    <2>1. Fail(t, kind) /\ store' = store /\ fresh' = fresh
      BY <1>2 DEF QueueOrFail
    <2> QED BY <2>1, FailType DEF TypeInv
  <1> QED BY <1>1, <1>2

\* The lane an allocation starts with consists of backends.
LEMMA FirstLaneType ==
    ASSUME NEW p \in Pool, NEW B \in SUBSET Backend, NEW want \in Backend \cup {None}
    PROVE  /\ FirstLane(p, B, want).lane \in SUBSET Backend
           /\ FirstLane(p, B, want).want \in Backend \cup {None}
           /\ FirstLane(p, B, want).first \in BOOLEAN
  BY DEF FirstLane, Usable, LocalBackends, FallbackBackends

\* Updating one value of a function to a natural number.
LEMMA ExceptNat ==
    ASSUME NEW S, NEW f \in [S -> Nat], NEW x, NEW n, x \in S => n \in Nat
    PROVE  [f EXCEPT ![x] = n] \in [S -> Nat]
  OBVIOUS

\* Releasing a slot keeps the counters natural numbers.
LEMMA ReleaseSlotType ==
    ASSUME active \in [Pool \X Backend -> Nat], NEW p, NEW b, ReleaseSlot(p, b)
    PROVE  active' \in [Pool \X Backend -> Nat]
  <1>1. CASE b # None /\ active[<<p, b>>] > 0
    <2> DEFINE x == <<p, b>>
               n == active[x] - 1
    <2>1. active' = [active EXCEPT ![x] = n]
      BY <1>1 DEF ReleaseSlot
    <2>2. x \in Pool \X Backend => n \in Nat
      <3> SUFFICES ASSUME x \in Pool \X Backend PROVE n \in Nat
        OBVIOUS
      <3>1. active[x] \in Nat /\ active[x] > 0
        BY <1>1
      <3> HIDE DEF x
      <3> QED BY <3>1
    <2> HIDE DEF x, n
    <2> QED BY <2>1, <2>2, ExceptNat
  <1>2. CASE ~(b # None /\ active[<<p, b>>] > 0)
    BY <1>2 DEF ReleaseSlot
  <1> QED BY <1>1, <1>2

\* A thread that keeps its pool, id and record stays good where the counter
\* asks for no more than it had.
LEMMA MoveType ==
    ASSUME NEW t, NEW w, GoodWorker(t, w), NEW v \in Worker,
           w.pc \notin {"idle", "done", "exit"}, v.pc \notin {"idle", "done", "exit", "filter"},
           v.pool = w.pool, v.snap = w.snap,
           v.pc \in WithSlot => v.sel \in Backend /\ MaxRunners[v.pool][v.sel] > 0,
           v.pc \in WithId => v.id \in Id,
           t = Queue => v.id = w.id,
           t # Queue /\ v.id # None => v.pc \in WithId
    PROVE  GoodWorker(t, v)
  BY DEF GoodWorker

\* The steps of allocateNow preserve the invariant.  Each step says where the
\* thread goes; what it does to the store is one of the operations above.
LEMMA AllocateStepType ==
    ASSUME TypeInv, NEW t \in Workers, AllocateStep(t)
    PROVE  TypeInv'
  <1> DEFINE w == worker[t]
  <1>1. w \in Worker /\ GoodWorker(t, w) /\ GoodWorkers(worker)
    BY DEF TypeInv, GoodWorkers
  <1>2. t \in Threads
    BY DEF Threads
  <1>3. \A i \in Id \cup {None}, p \in Pool, b \in Backend :
           ReleaseTail(i, p, b) \in Tail /\ CleanupTail(i, p, b) \in Tail
    BY DEF ReleaseTail, CleanupTail, Tail
  <1>4. \A x \in Tail : SetTail(t, x) => tail' \in [Threads -> Tail]
    BY <1>2 DEF SetTail, TypeInv
  <1>5. \A p, b : ReleaseSlot(p, b) => active' \in [Pool \X Backend -> Nat]
    BY ReleaseSlotType DEF TypeInv
  <1>6. \A kind \in ErrorKinds : w.pc # "idle" /\ Fail(t, kind) => GoodWorkers(worker')
    BY <1>1, FailType
  <1>7. fresh # {} => (CHOOSE x \in fresh : TRUE) \in Id
    BY DEF TypeInv
  <1>8. /\ w.pool \in Pool \cup {None} /\ w.pin \in Backend \cup {None, "rerouted"}
        /\ w.want \in Backend \cup {None} /\ w.sel \in Backend \cup {None}
        /\ w.id \in Id \cup {None} /\ w.snap \in Record
        /\ w.elig \subseteq Backend /\ w.lane \subseteq Backend
    BY <1>1 DEF Worker
  <1>9. ASSUME NEW B \in SUBSET Backend, NEW dropPin \in BOOLEAN, Filter(t, B, dropPin)
        PROVE  TypeInv'
    <2> DEFINE want == IF dropPin THEN None ELSE w.pin
               lane == FirstLane(w.pool, B, want)
               v == [w EXCEPT !.pc = "reserve", !.elig = B,
                              !.pin = IF dropPin THEN "rerouted" ELSE @,
                              !.lane = lane.lane, !.want = lane.want, !.first = lane.first]
    <2>1. w.pc = "filter" /\ Goto(t, v) /\ UNCHANGED <<store, active, runners, fresh, tail, call, sweep, queue>>
      BY <1>9 DEF Filter, At
    <2>2. w.pool \in Pool /\ want \in Backend \cup {None}
      BY <1>1, <1>8, <2>1 DEF GoodWorker
    <2>3. lane.lane \in SUBSET Backend /\ lane.want \in Backend \cup {None} /\ lane.first \in BOOLEAN
      BY <2>2, FirstLaneType
    <2>4. v \in Worker
      BY <1>1, <2>3 DEF Worker, WorkerPC
    <2>5. v.pc = "reserve" /\ v.pool = w.pool /\ v.snap = w.snap /\ v.id = w.id
      BY <1>1 DEF Worker
    <2>6. t # Queue => v.id = None
      BY <1>1, <2>1, <2>5 DEF GoodWorker, WithId
    <2> HIDE DEF v
    <2>7. GoodWorker(t, v)
      BY <1>1, <2>1, <2>4, <2>5, <2>6, MoveType DEF WithSlot, WithId
    <2> QED BY <1>1, <2>1, <2>7, GotoType DEF TypeInv
  <1>10. ASSUME NEW kind \in {"circuit-open", "fatal"}, FilterRejects(t, kind)
         PROVE  TypeInv'
    <2>1. w.pc = "filter" /\ w.pool \in Pool /\ w.pin \in Backend \cup {None}
      BY <1>1, <1>8, <1>10 DEF FilterRejects, At, GoodWorker
    <2>2. QueueOrFail(t, w.id, None, w.pin, kind)
          /\ UNCHANGED <<active, runners, tail, call, sweep, queue>>
      BY <1>10 DEF FilterRejects
    <2>3. GoodStore(store') /\ GoodWorkers(worker') /\ fresh' \subseteq Id
      BY <2>1, <2>2, QueueOrFailType DEF ErrorKinds
    <2> QED BY <2>2, <2>3 DEF TypeInv
  <1>11. ASSUME NEW b \in Backend, Reserve(t, b)
         PROVE  TypeInv'
    <2> DEFINE v == [w EXCEPT !.pc = "admit", !.sel = b, !.first = FALSE]
    <2>1. /\ w.pc = "reserve" /\ b \in Candidates(w) /\ Goto(t, v)
          /\ active' = [active EXCEPT ![<<w.pool, b>>] = @ + 1]
          /\ UNCHANGED <<store, runners, fresh, tail, call, sweep, queue>>
      BY <1>11 DEF Reserve, At
    <2>2. w.pool \in Pool
      BY <1>1, <2>1 DEF GoodWorker
    <2>3. active[<<w.pool, b>>] < MaxRunners[w.pool][b]
      BY <2>1 DEF Candidates, Available
    <2>4. MaxRunners[w.pool][b] > 0
      <3>1. active[<<w.pool, b>>] \in Nat /\ MaxRunners[w.pool][b] \in Nat
        BY <2>2, BrokerAssumption DEF TypeInv
      <3> QED BY <2>3, <3>1
    <2>5. v \in Worker
      BY <1>1 DEF Worker, WorkerPC
    <2>6. GoodWorker(t, v)
      BY <1>1, <2>1, <2>2, <2>4, <2>5 DEF GoodWorker, Worker, WithSlot, WithId
    <2>7. active' \in [Pool \X Backend -> Nat]
      <3> DEFINE x == <<w.pool, b>>
                 n == active[x] + 1
      <3>1. n \in Nat
        <4>1. active[x] \in Nat
          BY <2>2 DEF TypeInv
        <4> HIDE DEF x
        <4> QED BY <4>1
      <3> HIDE DEF n
      <3> QED BY <2>1, <3>1, ExceptNat DEF n, TypeInv
    <2> QED BY <1>1, <2>1, <2>6, <2>7, GotoType DEF TypeInv
  <1>12. ASSUME Saturated(t) PROVE TypeInv'
    <2> DEFINE v == [w EXCEPT !.first = FALSE, !.want = None, !.lane = FallbackBackends(w.elig)]
    <2>1. w.pc = "reserve" /\ Goto(t, v) /\ UNCHANGED <<store, active, runners, fresh, tail, call, sweep, queue>>
      BY <1>12 DEF Saturated, At
    <2>2. v \in Worker
      BY <1>1, <1>8 DEF Worker, FallbackBackends
    <2>3. v.pc = w.pc /\ v.pool = w.pool /\ v.snap = w.snap /\ v.id = w.id /\ v.sel = w.sel
      BY <1>1 DEF Worker
    <2> HIDE DEF v
    <2>4. GoodWorker(t, v)
      BY <1>1, <2>1, <2>2, <2>3 DEF GoodWorker
    <2> QED BY <1>1, <2>1, <2>4, GotoType DEF TypeInv
  <1>13. ASSUME NoCapacity(t) PROVE TypeInv'
    BY <1>6, <1>13 DEF NoCapacity, At, TypeInv, ErrorKinds
  <1>14. ASSUME Admit(t) PROVE TypeInv'
    <2> DEFINE v == [w EXCEPT !.pc = "save"]
    <2>1. w.pc = "admit" /\ Goto(t, v) /\ UNCHANGED <<store, active, runners, fresh, tail, call, sweep, queue>>
      BY <1>14 DEF Admit, At
    <2>2. v \in Worker
      BY <1>1 DEF Worker, WorkerPC
    <2>3. v.pc = "save" /\ v.pool = w.pool /\ v.snap = w.snap /\ v.id = w.id /\ v.sel = w.sel
      BY <1>1 DEF Worker
    <2> HIDE DEF v
    <2>4. GoodWorker(t, v)
      BY <1>1, <2>1, <2>2, <2>3 DEF GoodWorker, WithSlot, WithId
    <2> QED BY <1>1, <2>1, <2>4, GotoType DEF TypeInv
  <1>15. ASSUME NEW B \in SUBSET Backend, w.pc \in WithSlot, NEW i \in Id \cup {None},
                i = IF t = Queue THEN w.id ELSE None,
                NEW v \in Worker, v.pc = "reserve", v.pool = w.pool, v.snap = w.snap, v.id = i
         PROVE  GoodWorker(t, v)
    BY <1>1, <1>15, MoveType DEF WithSlot, WithId
  <1>16. ASSUME DenyCircuitOpen(t) PROVE TypeInv'
    <2>1. w.pc = "admit" /\ ReleaseSlot(w.pool, w.sel) /\ UNCHANGED <<runners, tail, call, sweep, queue>>
      BY <1>16 DEF DenyCircuitOpen, At
    <2>2. w.pool \in Pool /\ w.pc \in WithSlot /\ (t # Queue => w.id = None)
      BY <1>1, <2>1 DEF GoodWorker, WithSlot, WithId
    <2>3. CASE LeavesARC(w)
      <3> DEFINE v == [w EXCEPT !.pc = "reserve", !.want = None, !.sel = None, !.lane = FallbackBackends(w.elig)]
      <3>1. Goto(t, v) /\ UNCHANGED <<store, fresh>>
        BY <1>16, <2>3 DEF DenyCircuitOpen
      <3>2. v \in Worker /\ v.pc = "reserve" /\ v.pool = w.pool /\ v.snap = w.snap /\ v.id = w.id
        BY <1>1, <1>8 DEF Worker, WorkerPC, FallbackBackends
      <3> HIDE DEF v
      <3>3. GoodWorker(t, v)
        BY <1>8, <1>15, <2>2, <3>2
      <3> QED BY <1>1, <1>5, <2>1, <3>1, <3>3, GotoType DEF TypeInv
    <2>4. CASE ~LeavesARC(w)
      <3>1. QueueOrFail(t, w.id, w.sel, w.want, "circuit-open")
        BY <1>16, <2>4 DEF DenyCircuitOpen
      <3>2. GoodStore(store') /\ GoodWorkers(worker') /\ fresh' \subseteq Id
        BY <1>8, <2>1, <2>2, <3>1, QueueOrFailType DEF ErrorKinds
      <3> QED BY <1>5, <2>1, <3>2 DEF TypeInv
    <2> QED BY <2>3, <2>4
  <1>17. ASSUME DenyRateLimited(t) PROVE TypeInv'
    <2> DEFINE rest == IF LeavesARC(w) THEN FallbackBackends(w.elig) ELSE w.lane \ {w.sel}
    <2>1. w.pc = "admit" /\ ReleaseSlot(w.pool, w.sel) /\ UNCHANGED <<store, runners, fresh, tail, call, sweep, queue>>
      BY <1>17 DEF DenyRateLimited, At
    <2>2. w.pool \in Pool /\ w.pc \in WithSlot /\ (t # Queue => w.id = None)
      BY <1>1, <2>1 DEF GoodWorker, WithSlot, WithId
    <2>3. CASE rest # {}
      <3> DEFINE v == [w EXCEPT !.pc = "reserve", !.want = None, !.sel = None, !.lane = rest]
      <3>1. Goto(t, v)
        BY <1>17, <2>3 DEF DenyRateLimited
      <3>2. rest \in SUBSET Backend
        BY <1>8 DEF FallbackBackends
      <3> HIDE DEF rest
      <3>3. v \in Worker /\ v.pc = "reserve" /\ v.pool = w.pool /\ v.snap = w.snap /\ v.id = w.id
        BY <1>1, <3>2 DEF Worker, WorkerPC
      <3> HIDE DEF v
      <3>4. GoodWorker(t, v)
        BY <1>8, <1>15, <2>2, <3>3
      <3> QED BY <1>1, <1>5, <2>1, <3>1, <3>4, GotoType DEF TypeInv
    <2>4. CASE rest = {}
      <3>1. Fail(t, "rate-limited")
        BY <1>17, <2>4 DEF DenyRateLimited
      <3> QED BY <1>5, <1>6, <2>1, <3>1 DEF TypeInv, ErrorKinds
    <2> QED BY <2>3, <2>4
  <1>18. ASSUME NEW pc \in {"missing", "commit", "abandon", "retry"}, NEW err \in ErrorKinds, w.pc \in WithId,
                NEW v, v = [w EXCEPT !.pc = pc, !.err = err]
         PROVE  GoodWorker(t, v)
    <2>1. v \in Worker
      BY <1>1, <1>18 DEF Worker, WorkerPC
    <2>2. v.pc = pc /\ v.pool = w.pool /\ v.snap = w.snap /\ v.id = w.id /\ v.sel = w.sel
      BY <1>1, <1>18 DEF Worker
    <2> QED BY <1>1, <1>18, <2>1, <2>2 DEF GoodWorker, WithSlot, WithId
  <1>19. ASSUME NEW pc \in {"missing", "commit", "abandon", "retry"}, w.pc \in WithId,
                Goto(t, [w EXCEPT !.pc = pc])
         PROVE  GoodWorkers(worker')
    <2> DEFINE v == [w EXCEPT !.pc = pc, !.err = w.err]
    <2>1. w.err \in ErrorKinds /\ v = [w EXCEPT !.pc = pc]
      BY <1>1 DEF Worker
    <2>2. GoodWorker(t, v)
      BY <1>18, <1>19, <2>1
    <2> HIDE DEF v
    <2> QED BY <1>1, <1>19, <2>1, <2>2, GotoType
  <1>20. ASSUME SaveReserved(t) PROVE TypeInv'
    <2> DEFINE i == IF t = Queue THEN w.id ELSE CHOOSE x \in fresh : TRUE
               r == RecordOf(w, "reserved", w.sel, w.want)
               v == [w EXCEPT !.pc = "provision", !.id = i]
    <2>1. /\ w.pc = "save" /\ (t # Queue => fresh # {})
          /\ store' = Save(store, i, r) /\ fresh' = fresh \ {i} /\ Goto(t, v)
          /\ UNCHANGED <<active, runners, tail, call, sweep, queue>>
      BY <1>20 DEF SaveReserved, At
    <2>2. w.pool \in Pool /\ w.sel \in Backend /\ MaxRunners[w.pool][w.sel] > 0
      BY <1>1, <2>1 DEF GoodWorker, WithSlot
    <2>3. i \in Id
      BY <1>1, <1>7, <2>1 DEF GoodWorker
    <2>4. GoodRecord(r)
      BY <1>1, <1>8, <2>2, RecordOfType DEF States, ActiveStates
    <2>5. GoodStore(store')
      BY <2>1, <2>4, StoreOperations DEF TypeInv
    <2> HIDE DEF i
    <2>6. v \in Worker /\ v.pc = "provision" /\ v.pool = w.pool /\ v.snap = w.snap /\ v.id = i /\ v.sel = w.sel
      BY <1>1, <2>3 DEF Worker, WorkerPC
    <2>7. t = Queue => i = w.id
      BY DEF i
    <2> HIDE DEF v
    <2>8. GoodWorker(t, v)
      BY <1>1, <2>1, <2>2, <2>3, <2>6, <2>7, MoveType DEF WithId, WithSlot
    <2> QED BY <1>1, <2>1, <2>5, <2>8, GotoType DEF TypeInv
  <1>21. ASSUME SaveRefused(t) PROVE TypeInv'
    <2>1. w.pc = "save" /\ SetTail(t, ReleaseTail(w.id, w.pool, w.sel)) /\ Fail(t, "no-capacity")
          /\ UNCHANGED <<store, active, runners, fresh, call, sweep, queue>>
      BY <1>21 DEF SaveRefused, At
    <2>2. w.pool \in Pool /\ w.sel \in Backend
      BY <1>1, <2>1 DEF GoodWorker, WithSlot
    <2> QED BY <1>3, <1>4, <1>6, <1>8, <2>1, <2>2 DEF TypeInv, ErrorKinds
  <1>22. w.pc \in WithId => w.pool \in Pool /\ w.sel \in Backend /\ w.id \in Id
    BY <1>1 DEF GoodWorker, WithSlot, WithId
  <1>23. ASSUME BackendMissing(t) PROVE TypeInv'
    <2>1. w.pc = "provision" /\ SetTail(t, ReleaseTail(w.id, w.pool, w.sel)) /\ Goto(t, [w EXCEPT !.pc = "missing"])
          /\ UNCHANGED <<store, active, runners, fresh, call, sweep, queue>>
      BY <1>23 DEF BackendMissing, At
    <2>2. w.pc \in WithId
      BY <2>1 DEF WithId
    <2> QED BY <1>3, <1>4, <1>19, <1>22, <2>1, <2>2 DEF TypeInv
  <1>24. ASSUME MarkMissing(t) PROVE TypeInv'
    <2>1. w.pc = "missing" /\ store' = MarkState(store, w.id, "failed") /\ Fail(t, "fatal")
          /\ UNCHANGED <<active, runners, fresh, tail, call, sweep, queue>>
      BY <1>24 DEF MarkMissing, At
    <2>2. GoodStore(store')
      BY <2>1, StoreOperations DEF TypeInv, TerminalStates
    <2> QED BY <1>6, <2>1, <2>2 DEF TypeInv, ErrorKinds
  <1>25. ASSUME ProvisionOK(t) PROVE TypeInv'
    <2>1. w.pc = "provision" /\ runners' = runners \cup {<<w.id, w.sel>>} /\ Goto(t, [w EXCEPT !.pc = "commit"])
          /\ UNCHANGED <<store, active, fresh, tail, call, sweep, queue>>
      BY <1>25 DEF ProvisionOK, At
    <2>2. w.pc \in WithId
      BY <2>1 DEF WithId
    <2> QED BY <1>19, <1>22, <2>1, <2>2 DEF TypeInv
  <1>26. ASSUME NEW kind \in FailureKinds, ProvisionErr(t, kind) PROVE TypeInv'
    <2> DEFINE v == [w EXCEPT !.pc = "abandon", !.err = kind]
    <2>1. w.pc = "provision" /\ Goto(t, v) /\ UNCHANGED <<store, active, runners, fresh, tail, call, sweep, queue>>
      BY <1>26 DEF ProvisionErr, At
    <2>2. w.pc \in WithId /\ kind \in ErrorKinds
      BY <2>1, BrokerAssumption DEF WithId, ErrorKinds
    <2>3. GoodWorker(t, v)
      BY <1>18, <2>2
    <2> HIDE DEF v
    <2> QED BY <1>1, <2>1, <2>3, GotoType DEF TypeInv
  <1>27. ASSUME Commit(t) PROVE TypeInv'
    <2> DEFINE r == RecordOf(w, "ready", w.sel, w.want)
               ready == [r EXCEPT !.reg = @ \/ w.sel \in StaticLabel[w.pool]]
    <2>1. w.pc = "commit" /\ w.pc \in WithId /\ UNCHANGED <<active, runners, fresh, call, sweep, queue>>
      BY <1>27 DEF Commit, At, WithId
    <2>2. CASE store[w.id].state = "reserved"
      <3>1. store' = Save(store, w.id, ready) /\ Return(t) /\ UNCHANGED tail
        BY <1>27, <2>2 DEF Commit
      <3>2. GoodRecord(r)
        BY <1>1, <1>8, <1>22, <2>1, RecordOfType DEF States, ActiveStates
      <3> HIDE DEF r
      <3>3. GoodRecord(ready)
        BY <3>2 DEF GoodRecord, Record
      <3>4. GoodStore(store')
        BY <3>1, <3>3, StoreOperations DEF TypeInv
      <3> QED BY <1>1, <2>1, <3>1, <3>4, ReturnType DEF TypeInv
    <2>3. CASE store[w.id].state # "reserved"
      <3>1. SetTail(t, CleanupTail(w.id, w.pool, w.sel)) /\ Fail(t, "fatal") /\ UNCHANGED store
        BY <1>27, <2>3 DEF Commit
      <3> QED BY <1>3, <1>4, <1>6, <1>22, <2>1, <3>1 DEF TypeInv, ErrorKinds
    <2> QED BY <2>2, <2>3
  <1>28. ASSUME Abandon(t) PROVE TypeInv'
    <2> DEFINE now == store[w.id]
    <2>1. w.pc = "abandon" /\ w.pc \in WithId /\ UNCHANGED <<active, runners, fresh, call, sweep, queue>>
      BY <1>28 DEF Abandon, At, WithId
    <2>2. CASE /\ store' = MarkState(store, w.id, "failed")
               /\ SetTail(t, ReleaseTail(w.id, w.pool, w.sel))
               /\ Goto(t, [w EXCEPT !.pc = "retry"])
      <3>1. GoodStore(store')
        BY <2>2, StoreOperations DEF TypeInv, TerminalStates
      <3>2. GoodWorkers(worker')
        BY <1>19, <2>1, <2>2
      <3>3. tail' \in [Threads -> Tail]
        BY <1>3, <1>4, <1>22, <2>1, <2>2
      <3> QED BY <2>1, <3>1, <3>2, <3>3 DEF TypeInv
    <2>3. CASE /\ Fail(t, IF now.state = "canceled" THEN "fatal" ELSE w.err)
               /\ UNCHANGED <<store, tail>>
      <3>1. (IF now.state = "canceled" THEN "fatal" ELSE w.err) \in ErrorKinds
        BY <1>1 DEF Worker, ErrorKinds
      <3>2. GoodWorkers(worker')
        BY <1>6, <2>1, <2>3, <3>1
      <3> QED BY <2>1, <2>3, <3>2 DEF TypeInv
    <2>4. CASE Goto(t, [w EXCEPT !.pc = "retry"]) /\ UNCHANGED <<store, tail>>
      BY <1>19, <2>1, <2>4 DEF TypeInv
    <2> QED BY <1>28, <2>2, <2>3, <2>4 DEF Abandon
  <1>29. ASSUME NEW rest \in SUBSET Backend, w.pc = "retry", Reroute(t, rest),
                UNCHANGED <<active, runners, tail, call, sweep, queue>>
         PROVE  TypeInv'
    <2>1. GoodStore(store')
      BY <1>29, StoreOperations DEF Reroute, TypeInv
    <2>2. w.pc \in WithId /\ w.pc \in WithSlot
      BY <1>29 DEF WithId, WithSlot
    <2>3. CASE rest # {}
      <3> DEFINE i == IF t = Queue THEN w.id ELSE None
                 v == [w EXCEPT !.pc = "reserve", !.want = None, !.sel = None,
                                !.lane = rest, !.err = "none", !.id = i]
      <3>1. Goto(t, v) /\ i \in Id \cup {None}
        BY <1>8, <1>29, <2>3 DEF Reroute
      <3> HIDE DEF i
      <3>2. v \in Worker /\ v.pc = "reserve" /\ v.pool = w.pool /\ v.snap = w.snap /\ v.id = i
        BY <1>1, <3>1 DEF Worker, WorkerPC, ErrorKinds
      <3> HIDE DEF v
      <3>3. GoodWorker(t, v)
        BY <1>15, <2>2, <3>1, <3>2 DEF i
      <3> QED BY <1>1, <1>29, <2>1, <3>1, <3>3, GotoType DEF TypeInv, Reroute
    <2>4. CASE rest = {}
      <3>1. Fail(t, "capacity") /\ UNCHANGED fresh
        BY <1>29, <2>4 DEF Reroute
      <3> QED BY <1>6, <1>29, <2>1, <3>1 DEF TypeInv, ErrorKinds
    <2> QED BY <2>3, <2>4
  <1>30. ASSUME RetryCapacity(t) PROVE TypeInv'
    <2> DEFINE rest == IF w.pin = w.sel THEN {}
                       ELSE IF w.sel = ARC /\ w.pin = None THEN FallbackBackends(w.elig)
                       ELSE w.lane \ {w.sel}
    <2>1. w.pc = "retry" /\ Reroute(t, rest) /\ UNCHANGED <<active, runners, tail, call, sweep, queue>>
      BY <1>30 DEF RetryCapacity, At
    <2>2. rest \in SUBSET Backend
      BY <1>8 DEF FallbackBackends
    <2> HIDE DEF rest
    <2> QED BY <1>29, <2>1, <2>2
  <1>31. ASSUME RetryARC(t) PROVE TypeInv'
    <2>1. w.pc = "retry" /\ Reroute(t, FallbackBackends(w.elig)) /\ UNCHANGED <<active, runners, tail, call, sweep, queue>>
      BY <1>31 DEF RetryARC, At
    <2>2. FallbackBackends(w.elig) \in SUBSET Backend
      BY <1>8 DEF FallbackBackends
    <2> QED BY <1>29, <2>1, <2>2
  <1>32. ASSUME RetryQueue(t) PROVE TypeInv'
    <2>1. w.pc = "retry" /\ w.pc \in WithId /\ QueueOrFail(t, w.id, w.sel, w.want, w.err)
          /\ UNCHANGED <<active, runners, tail, call, sweep, queue>>
      BY <1>32 DEF RetryQueue, At, WithId
    <2>2. w.err \in ErrorKinds
      BY <1>1 DEF Worker
    <2>3. GoodStore(store') /\ GoodWorkers(worker') /\ fresh' \subseteq Id
      BY <1>8, <1>22, <2>1, <2>2, QueueOrFailType
    <2> QED BY <2>1, <2>3 DEF TypeInv
  <1> QED BY <1>9, <1>10, <1>11, <1>12, <1>13, <1>14, <1>16, <1>17, <1>20, <1>21, <1>23, <1>24,
             <1>25, <1>26, <1>27, <1>28, <1>30, <1>31, <1>32 DEF AllocateStep

\* A request that arrives starts with a good thread.
LEMMA AllocateType ==
    ASSUME TypeInv, NEW t \in Requests, NEW p \in Pool, NEW pin \in Configured[p] \cup {None},
           Allocate(t, p, pin)
    PROVE  TypeInv'
  <1> DEFINE v == [NoWork("filter") EXCEPT !.pool = p, !.pin = pin]
  <1>1. t \in Workers /\ t # Queue /\ pin \in Backend \cup {None} /\ pin # "rerouted"
    BY BrokerAssumption DEF Workers
  <1>2. NoWork("filter") \in Worker
    BY EmptyTypes DEF WorkerPC
  <1>3. v \in Worker
    BY <1>1, <1>2 DEF Worker
  <1>4. GoodWorker(t, v)
    BY <1>1, <1>3 DEF GoodWorker, NoWork, WithSlot, WithId
  <1>5. Goto(t, v) /\ UNCHANGED <<store, active, runners, fresh, tail, call, sweep, queue>>
    BY DEF Allocate
  <1> HIDE DEF v
  <1> QED BY <1>1, <1>4, <1>5, GotoType DEF TypeInv

\* The calls of clients and runners preserve the invariant.
LEMMA CallType ==
    ASSUME TypeInv
    PROVE  /\ \A c \in Cancels, i \in Id : Cancel(c, i) => TypeInv'
           /\ \A c \in Completes, i \in Id, to \in CompletionStates : CompleteRead(c, i, to) => TypeInv'
           /\ \A c \in Completes : CompleteMark(c) => TypeInv'
           /\ \A c \in Claims, i \in Id, kind \in {"claim", "register"} : ClaimRead(c, i, kind) => TypeInv'
           /\ \A c \in Claims : ClaimSave(c) => TypeInv'
  <1>1. ASSUME NEW a \in Threads, NEW i \in Id, NEW r \in Record, NEW x,
               x = ReleaseTail(i, r.pool, r.backend) \/ x = NoTail, SetTail(a, x)
        PROVE  tail' \in [Threads -> Tail]
    <2>1. x \in Tail
      BY <1>1, EmptyTypes DEF ReleaseTail, Tail, Record
    <2> QED BY <1>1, <2>1 DEF SetTail, TypeInv
  <1>2. ASSUME NEW c \in Cancels, NEW i \in Id, Cancel(c, i) PROVE TypeInv'
    <2>1. store[i] \in Record /\ c \in Threads
      BY DEF TypeInv, GoodStore, Threads
    <2>2. tail' \in [Threads -> Tail]
      BY <1>1, <1>2, <2>1 DEF Cancel
    <2>3. GoodStore(store')
      BY <1>2, StoreOperations DEF Cancel, TypeInv, TerminalStates
    <2> QED BY <1>2, <2>2, <2>3 DEF Cancel, TypeInv
  <1>3. ASSUME NEW c \in Callers, NEW i \in Id, NEW to \in TerminalStates \cup {"claim", "register"},
               c \in Completes => to \in TerminalStates, ReadForWrite(c, i, to)
        PROVE  TypeInv'
    <2> DEFINE x == [id |-> i, rec |-> store[i], to |-> to]
    <2>1. GoodRecord(store[i]) /\ store[i] \in Record /\ store[i].state # "absent"
      BY <1>3 DEF ReadForWrite, TypeInv, GoodStore
    <2>2. x \in Call /\ x.id = i /\ x.rec = store[i] /\ x.to = to
      BY <2>1 DEF Call
    <2>3. call' = [call EXCEPT ![c] = x] /\ UNCHANGED <<store, active, runners, fresh, worker, tail, sweep, queue>>
      BY <1>3 DEF ReadForWrite
    <2> HIDE DEF x
    <2>4. GoodCall(c, x)
      BY <1>3, <2>1, <2>2 DEF GoodCall
    <2>5. GoodCalls(call')
      BY <2>2, <2>3, <2>4 DEF TypeInv, GoodCalls
    <2> QED BY <2>3, <2>5 DEF TypeInv
  <1>4. ASSUME NEW c \in Callers, call' = [call EXCEPT ![c] = NoCall] PROVE GoodCalls(call')
    BY <1>4, EmptyTypes DEF TypeInv, GoodCalls, GoodCall
  <1>5. ASSUME NEW c \in Callers, call[c] # NoCall
        PROVE  /\ call[c].id \in Id /\ GoodRecord(call[c].rec) /\ call[c].rec \in Record
               /\ call[c].rec.state # "absent"
               /\ c \in Completes => call[c].to \in TerminalStates
    BY <1>5 DEF TypeInv, GoodCalls, GoodCall, GoodRecord
  <1>6. ASSUME NEW c \in Completes, CompleteMark(c) PROVE TypeInv'
    <2>1. c \in Callers /\ c \in Threads /\ call[c] # NoCall
      BY <1>6 DEF CompleteMark, Callers, Threads
    <2>2. GoodStore(store')
      BY <1>5, <1>6, <2>1, StoreOperations DEF CompleteMark, TypeInv
    <2>3. tail' \in [Threads -> Tail]
      BY <1>1, <1>5, <1>6, <2>1 DEF CompleteMark
    <2>4. GoodCalls(call')
      BY <1>4, <1>6, <2>1 DEF CompleteMark
    <2> QED BY <1>6, <2>2, <2>3, <2>4 DEF CompleteMark, TypeInv
  <1>7. ASSUME NEW c \in Claims, ClaimSave(c) PROVE TypeInv'
    <2> DEFINE old == call[c].rec
               r == [old EXCEPT !.reg = TRUE, !.claim = @ \/ call[c].to = "claim"]
    <2>1. c \in Callers /\ call[c] # NoCall
      BY <1>7 DEF ClaimSave, Callers
    <2>2. old \in Record /\ GoodRecord(old)
      BY <1>5, <2>1
    <2>3. GoodRecord(r)
      <3> HIDE DEF old
      <3> QED BY <2>2 DEF GoodRecord, Record
    <2>4. GoodStore(store')
      BY <1>7, <2>3, StoreOperations DEF ClaimSave, TypeInv
    <2>5. GoodCalls(call')
      BY <1>4, <1>7, <2>1 DEF ClaimSave
    <2> QED BY <1>7, <2>4, <2>5 DEF ClaimSave, TypeInv
  <1>8. \A c \in Completes, i \in Id, to \in CompletionStates : CompleteRead(c, i, to) => TypeInv'
    BY <1>3, BrokerAssumption DEF CompleteRead, Callers
  <1>9. \A c \in Claims, i \in Id, kind \in {"claim", "register"} : ClaimRead(c, i, kind) => TypeInv'
    BY <1>3, BrokerAssumption DEF ClaimRead, Callers
  <1> QED BY <1>2, <1>6, <1>7, <1>8, <1>9

\* The reaper preserves the invariant.
LEMMA SweepStepType ==
    ASSUME TypeInv, SweepStep
    PROVE  TypeInv'
  <1> DEFINE SweepType == [running : BOOLEAN, todo : [Id -> Record]]
  <1>1. Sweep \in Threads /\ NoRecord \in Record
    BY EmptyTypes DEF Threads
  <1>2. sweep \in SweepType /\ \A i \in Id : sweep.todo[i] \in Record
    BY DEF TypeInv
  <1>3. ASSUME SweepList PROVE TypeInv'
    <2> DEFINE f == [i \in Id |-> IF IsActive(store[i]) \/ store[i].state = "quarantined"
                                  THEN store[i] ELSE NoRecord]
    <2>1. f \in [Id -> Record]
      BY <1>1 DEF TypeInv, GoodStore
    <2>2. sweep' = [running |-> TRUE, todo |-> f]
      BY <1>3 DEF SweepList
    <2> HIDE DEF f
    <2>3. sweep' \in SweepType
      BY <2>1, <2>2
    <2> QED BY <1>3, <2>3 DEF SweepList, TypeInv
  <1>4. ASSUME NEW i \in Id, NEW S, Visit(i, S) PROVE sweep' \in SweepType
    <2>1. sweep' = [sweep EXCEPT !.todo[i] = NoRecord]
      BY <1>4 DEF Visit
    <2> QED BY <1>1, <1>2, <2>1
  <1>5. ASSUME NEW i \in Id, NEW x,
               x \in {ReleaseTail(i, sweep.todo[i].pool, sweep.todo[i].backend),
                      CleanupTail(i, sweep.todo[i].pool, sweep.todo[i].backend), NoTail},
               SetTail(Sweep, x)
        PROVE  tail' \in [Threads -> Tail]
    <2>1. sweep.todo[i].pool \in Pool \cup {None} /\ sweep.todo[i].backend \in Backend \cup {None}
      BY <1>2 DEF Record
    <2>2. x \in Tail
      BY <1>5, <2>1, EmptyTypes DEF ReleaseTail, CleanupTail, Tail
    <2> QED BY <1>1, <1>5, <2>2 DEF SetTail, TypeInv
  <1>6. ASSUME NEW i \in Id, NEW S, Visit(i, S), NEW to \in TerminalStates, Reap(i, to) PROVE TypeInv'
    <2>1. GoodStore(store')
      BY <1>6, StoreOperations DEF Reap, TypeInv
    <2>2. tail' \in [Threads -> Tail]
      BY <1>5, <1>6 DEF Reap
    <2>3. sweep' \in SweepType
      BY <1>4, <1>6
    <2> QED BY <1>6, <2>1, <2>2, <2>3 DEF Reap, TypeInv
  <1>7. ASSUME NEW i \in Id, SweepUnregistered(i) PROVE TypeInv'
    BY <1>6, <1>7 DEF SweepUnregistered, TerminalStates
  <1>8. ASSUME NEW i \in Id, SweepJobTimeout(i) PROVE TypeInv'
    BY <1>6, <1>8 DEF SweepJobTimeout, TerminalStates
  <1>9. ASSUME NEW i \in Id, SweepQuarantine(i) PROVE TypeInv'
    <2>1. GoodStore(store')
      BY <1>9, StoreOperations DEF SweepQuarantine, TypeInv, TerminalStates
    <2>2. tail' \in [Threads -> Tail]
      BY <1>5, <1>9 DEF SweepQuarantine
    <2>3. sweep' \in SweepType
      BY <1>4, <1>9 DEF SweepQuarantine
    <2> QED BY <1>9, <2>1, <2>2, <2>3 DEF SweepQuarantine, TypeInv
  <1>10. ASSUME NEW i \in Id, SweepKeep(i) PROVE TypeInv'
    <2>1. sweep' \in SweepType
      BY <1>4, <1>10 DEF SweepKeep
    <2> QED BY <1>10, <2>1 DEF SweepKeep, TypeInv
  <1>11. ASSUME NEW D, SweepPrune(D) PROVE TypeInv'
    <2>1. GoodStore(store')
      BY <1>11, StoreOperations DEF SweepPrune, TypeInv
    <2>2. sweep' \in SweepType
      BY <1>2, <1>11 DEF SweepPrune
    <2> QED BY <1>11, <2>1, <2>2 DEF SweepPrune, TypeInv
  <1> QED BY <1>3, <1>7, <1>8, <1>9, <1>10, <1>11 DEF SweepStep

\* The queue loop preserves the invariant; the attempts of a record stay
\* within MaxAttempts because it retries only below that bound.
LEMMA QueueStepType ==
    ASSUME TypeInv, QueueStep
    PROVE  TypeInv'
  <1>1. Queue \in Workers /\ GoodWorkers(worker) /\ GoodWorker(Queue, worker[Queue])
    BY DEF Workers, TypeInv, GoodWorkers
  <1>2. ASSUME QueueList PROVE TypeInv'
    <2>1. \A i \in Id : store[i] \in Record /\ (store[i].state = "pending" => store[i].pool \in Pool)
      BY DEF TypeInv, GoodStore, GoodRecord
    <2>2. GoodQueue(queue')
      BY <1>2, <2>1, EmptyTypes DEF QueueList, GoodQueue
    <2> QED BY <1>2, <2>2 DEF QueueList, TypeInv
  <1>3. ASSUME NEW i \in Id, QueueVisit(i)
        PROVE  GoodQueue(queue') /\ queue[i] \in Record /\ queue[i].state = "pending" /\ queue[i].pool \in Pool
    BY <1>3, EmptyTypes DEF QueueVisit, GoodQueue, TypeInv
  <1>4. ASSUME NEW i \in Id, QueueKeep(i) PROVE TypeInv'
    BY <1>3, <1>4 DEF QueueKeep, TypeInv
  <1>5. ASSUME NEW i \in Id, NEW to \in {"expired", "failed"}, QueueDrop(i, to) PROVE TypeInv'
    <2>1. GoodStore(store')
      BY <1>5, StoreOperations DEF QueueDrop, TypeInv, TerminalStates
    <2> QED BY <1>3, <1>5, <2>1 DEF QueueDrop, TypeInv
  <1>6. ASSUME NEW i \in Id, QueueRetry(i) PROVE TypeInv'
    <2> DEFINE old == queue[i]
               new == [old EXCEPT !.attempts = @ + 1]
               v == [NoWork("filter") EXCEPT !.pool = old.pool, !.pin = old.pin, !.id = i, !.snap = new]
    <2>1. /\ QueueVisit(i) /\ old.attempts < MaxAttempts /\ store' = Save(store, i, new)
          /\ Goto(Queue, v) /\ UNCHANGED <<active, runners, fresh, tail, call, sweep>>
      BY <1>6 DEF QueueRetry
    <2>2. GoodQueue(queue') /\ old \in Record /\ old.state = "pending" /\ old.pool \in Pool
      BY <1>3, <2>1
    <2> HIDE DEF old
    <2>3. old.attempts + 1 \in 0 .. MaxAttempts
      <3>1. old.attempts \in 0 .. MaxAttempts
        BY <2>2 DEF Record
      <3> QED BY <2>1, <3>1, StoreAssumption
    <2>4. new \in Record /\ new.state = "pending" /\ new.pool = old.pool /\ GoodRecord(new)
      BY <2>2, <2>3 DEF Record, GoodRecord
    <2> HIDE DEF new
    <2>5. GoodStore(store')
      BY <2>1, <2>4, StoreOperations DEF TypeInv
    <2>6. NoWork("filter") \in Worker
      BY EmptyTypes DEF WorkerPC
    <2>7. old.pin \in Backend \cup {None}
      BY <2>2 DEF Record
    <2>8. /\ v \in Worker /\ v.pc = "filter" /\ v.pool = old.pool /\ v.pin = old.pin
          /\ v.id = i /\ v.snap = new
      BY <2>2, <2>4, <2>6, <2>7 DEF Worker, NoWork
    <2>9. v.pin # "rerouted"
      BY <2>7, <2>8, BrokerAssumption
    <2> HIDE DEF v
    <2>10. GoodWorker(Queue, v)
      BY <2>2, <2>4, <2>8, <2>9 DEF GoodWorker, WithSlot, WithId
    <2> QED BY <1>1, <2>1, <2>2, <2>5, <2>10, GotoType DEF TypeInv
  <1>7. ASSUME QueueExit PROVE TypeInv'
    <2> DEFINE w == worker[Queue]
    <2>1. w.pc = "exit" /\ Goto(Queue, NoWork("idle"))
          /\ UNCHANGED <<active, runners, fresh, tail, call, sweep, queue>>
          /\ (store' = Save(store, w.id, w.snap) \/ store' = MarkState(store, w.id, "failed"))
      BY <1>7 DEF QueueExit, At
    <2>2. GoodRecord(w.snap)
      BY <1>1, <2>1 DEF GoodWorker, GoodRecord, Worker
    <2>3. GoodStore(store')
      BY <2>1, <2>2, StoreOperations DEF TypeInv, TerminalStates
    <2>4. NoWork("idle") \in Worker
      BY EmptyTypes DEF WorkerPC
    <2>5. GoodWorker(Queue, NoWork("idle"))
      BY <2>4 DEF GoodWorker, NoWork, WithSlot, WithId
    <2> QED BY <1>1, <2>1, <2>3, <2>5, GotoType DEF TypeInv
  <1>8. ASSUME AllocateStep(Queue) PROVE TypeInv'
    BY <1>1, <1>8, AllocateStepType
  <1> QED BY <1>2, <1>4, <1>5, <1>6, <1>7, <1>8 DEF QueueStep

\* Releasing a slot and tearing a runner down preserve the invariant.
LEMMA TailStepType ==
    ASSUME TypeInv, NEW a \in Threads, TailStep(a)
    PROVE  TypeInv'
  <1>1. tail[a] \in Tail
    BY DEF TypeInv
  <1>2. SetTail(a, NoTail) => tail' \in [Threads -> Tail]
    BY EmptyTypes DEF SetTail, TypeInv
  <1>3. ASSUME Release(a) PROVE TypeInv'
    <2>1. active' \in [Pool \X Backend -> Nat]
      BY <1>3, ReleaseSlotType DEF Release, TypeInv
    <2>2. tail' \in [Threads -> Tail]
      <3> DEFINE x == [tail[a] EXCEPT !.phase = "cleanup"]
      <3>1. x \in Tail
        BY <1>1 DEF Tail
      <3>2. tail' = [tail EXCEPT ![a] = x]
        BY <1>3 DEF Release
      <3> HIDE DEF x
      <3> QED BY <3>1, <3>2 DEF TypeInv
    <2> QED BY <1>3, <2>1, <2>2 DEF Release, TypeInv
  <1>4. ASSUME Cleanup(a) PROVE TypeInv'
    <2>1. runners' \subseteq Id \X Backend
      BY <1>4 DEF Cleanup, TypeInv
    <2> QED BY <1>2, <1>4, <2>1 DEF Cleanup, TypeInv
  <1>5. ASSUME CleanupFails(a) PROVE TypeInv'
    BY <1>2, <1>5 DEF CleanupFails, TypeInv
  <1> QED BY <1>3, <1>4, <1>5 DEF TailStep

\* Every step preserves the invariant.
LEMMA TypeNext == TypeInv /\ [Next]_vars => TypeInv'
  <1> SUFFICES ASSUME TypeInv, [Next]_vars PROVE TypeInv'
    OBVIOUS
  <1>1. CASE UNCHANGED vars
    BY <1>1 DEF vars, TypeInv, GoodStore, GoodWorkers, GoodCalls, GoodQueue
  <1>2. ASSUME NEW t \in Requests, NEW p \in Pool, NEW pin \in Pins \cap (Configured[p] \cup {None}),
               Allocate(t, p, pin)
        PROVE  TypeInv'
    BY <1>2, AllocateType
  <1>3. ASSUME NEW t \in Requests, AllocateStep(t) PROVE TypeInv'
    BY <1>3, AllocateStepType DEF Workers
  <1>4. ASSUME NEW a \in Threads, TailStep(a) PROVE TypeInv'
    BY <1>4, TailStepType
  <1> QED BY <1>1, <1>2, <1>3, <1>4, CallType, SweepStepType, QueueStepType DEF Next

\* The state of the broker always has its type, for any number of threads: in
\* particular the scheduler's counters never go below zero although slots are
\* released twice, and the attempts of a queued allocation never exceed
\* broker.queue.maxAttempts.
THEOREM TypeCorrect == Spec => []TypeOK
  <1>1. TypeInv => TypeOK
    BY DEF TypeInv, TypeOK, GoodStore, GoodWorkers, GoodCalls, GoodQueue
  <1>2. Spec => []TypeInv
    BY TypeInit, TypeNext, PTL DEF Spec
  <1> QED BY <1>1, <1>2, PTL
=============================================================================
