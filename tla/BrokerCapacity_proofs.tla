------------------------ MODULE BrokerCapacity_proofs ------------------------
(***************************************************************************)
(* The capacity promise of the broker, proved for every configuration: with *)
(* no claim or register callback in flight (a stale one writes an old      *)
(* record back), the store never holds more reserved and ready records than *)
(* maxRunners and broker.backendLimits allow, the broker implements        *)
(* CapacityPool, and no reservation is orphaned.                           *)
(*                                                                         *)
(* The argument.  A limit can only be exceeded by a step that makes a      *)
(* record accounted, or moves an accounted one to another pool or backend. *)
(* SaveReserved does so under the check of SaveIfCapacity.  The only other *)
(* one is Commit, which rewrites the record of a reservation: it is        *)
(* harmless when the record still names the pool and backend of the thread *)
(* (OwnReservation), and that holds because no other thread writes under   *)
(* the same id (OneOwner).                                                 *)
(***************************************************************************)
EXTENDS BrokerLifecycle_proofs

Inv == TypeInv /\ OneOwner /\ OwnReservation /\ ReservedHasOwner

-----------------------------------------------------------------------------
(***************************************************************************)
(* How a step of the broker treats the store, the ids and the queue.       *)
(***************************************************************************)

\* A step that leaves the threads, the fresh ids and the queue's snapshot as
\* they are and turns no record into a pending or reserved one.
Harmless ==
    /\ UNCHANGED <<worker, fresh>>
    /\ \A i \in Id : queue'[i] # NoRecord => queue[i] # NoRecord \/ store[i].state = "pending"
    /\ \A i \in Id : store'[i] = store[i] \/ store'[i].state \notin {"pending", "reserved"}

\* Such a step keeps the ownership of ids and reservations.
LEMMA HarmlessKeeps ==
    ASSUME TypeInv, OneOwner, OwnReservation, ReservedHasOwner, Harmless
    PROVE  OneOwner' /\ OwnReservation' /\ ReservedHasOwner'
  <1>1. OneOwner'
    BY DEF Harmless, OneOwner
  <1>2. OwnReservation'
    <2> SUFFICES ASSUME NEW t \in Workers,
                        worker[t].pc \in Deciding,
                        store'[worker[t].id].state = "reserved"
                 PROVE  /\ store'[worker[t].id].pool = worker[t].pool
                        /\ store'[worker[t].id].backend = worker[t].sel
      BY DEF Harmless, OwnReservation
    <2>1. worker[t].id \in Id
      BY DEF TypeInv, GoodWorkers, GoodWorker, WithId, Deciding
    <2>2. store'[worker[t].id] = store[worker[t].id]
      BY <2>1 DEF Harmless
    <2> QED BY <2>2 DEF OwnReservation
  <1>3. ReservedHasOwner'
    BY DEF Harmless, ReservedHasOwner
  <1> QED BY <1>1, <1>2, <1>3

\* A step of a thread in allocateNow that writes under its own id or a new
\* one, gives its id up when it queues the record, and stays in charge of the
\* record while it is reserved.
LEMMA MoveKeeps ==
    ASSUME Inv, NEW t \in Workers, NEW v, Goto(t, v), UNCHANGED queue, fresh' \subseteq fresh,
           v.id = None \/ v.id = worker[t].id \/ v.id \in fresh \ fresh',
           v.pc \in Deciding => v.id \in Id,
           \A i \in Id : store'[i] # store[i] =>
              /\ i = worker[t].id \/ i \in fresh \ fresh'
              /\ store'[i].state = "pending" /\ t \in Requests => v.id # i,
           \A i \in Id : store'[i].state = "reserved" =>
              \/ store'[i] = store[i] /\ (i = worker[t].id => worker[t].pc \notin Deciding)
              \/ /\ v.id = i /\ v.pc \in Deciding
                 /\ store'[i].pool = v.pool /\ store'[i].backend = v.sel
    PROVE  OneOwner' /\ OwnReservation' /\ ReservedHasOwner'
  <1> USE DEF Inv
  <1>1. /\ worker'[t] = v /\ \A u \in Workers \ {t} : worker'[u] = worker[u]
        /\ None \notin Id /\ None \notin fresh /\ Requests \subseteq Workers
    BY BrokerAssumption DEF Goto, TypeInv, GoodWorkers, Workers
  <1>2. \A u \in Workers : worker[u].pc \in Deciding => worker[u].id \in Id
    BY DEF TypeInv, GoodWorkers, GoodWorker, WithId, Deciding
  <1>3. \A u \in Workers \ {t} : worker[u].id # None => worker[u].id # worker[t].id /\ worker[u].id \notin fresh
    BY DEF OneOwner
  <1>4. \A u \in Workers \ {t} : worker[u].id # None => worker[u].id # v.id
    BY <1>3
  <1>5. OneOwner'
    <2>1. \A a, b \in Workers : worker'[a].id # None /\ worker'[a].id = worker'[b].id => a = b
      BY <1>1, <1>4 DEF OneOwner
    <2>2. \A a \in Workers : worker'[a].id \notin fresh'
      BY <1>1 DEF OneOwner
    <2>3. ASSUME NEW i \in Id, store'[i].state = "pending" \/ queue'[i] # NoRecord
          PROVE  i \notin fresh' /\ \A u \in Requests : worker'[u].id # i
      <3>1. CASE store[i].state = "pending" \/ queue[i] # NoRecord
        <4>1. i \notin fresh /\ \A u \in Requests : worker[u].id # i
          BY <3>1 DEF OneOwner
        <4> QED BY <1>1, <4>1
      <3>2. CASE store'[i] # store[i] /\ store'[i].state = "pending"
        <4>1. i \notin fresh'
          BY <3>2 DEF OneOwner
        <4>2. \A u \in Requests \ {t} : worker'[u].id # i
          BY <1>1, <1>3, <3>2
        <4> QED BY <1>1, <3>2, <4>1, <4>2
      <3> QED BY <2>3, <3>1, <3>2
    <2> QED BY <2>1, <2>2, <2>3 DEF OneOwner
  <1>6. ASSUME NEW i \in Id, store[i].state = "reserved", i = worker[t].id
        PROVE  worker[t].pc \in Deciding
    BY <1>1, <1>6 DEF ReservedHasOwner, OneOwner
  <1>7. \A i \in Id : store[i].state = "reserved" => i \notin fresh
    BY DEF ReservedHasOwner, OneOwner
  <1>8. OwnReservation'
    <2> SUFFICES ASSUME NEW u \in Workers, worker'[u].pc \in Deciding,
                        store'[worker'[u].id].state = "reserved"
                 PROVE  /\ store'[worker'[u].id].pool = worker'[u].pool
                        /\ store'[worker'[u].id].backend = worker'[u].sel
      BY DEF OwnReservation
    <2>1. CASE u # t
      <3>1. worker[u].id \in Id /\ worker'[u] = worker[u]
        BY <1>1, <1>2, <2>1
      <3>2. store'[worker[u].id] = store[worker[u].id]
        BY <1>1, <1>3, <2>1, <3>1
      <3> QED BY <3>1, <3>2 DEF OwnReservation
    <2>2. CASE u = t
      <3>1. CASE v.id \in Id
        BY <1>1, <1>6, <1>7, <2>2, <3>1
      <3>2. CASE v.id \notin Id
        BY <1>1, <2>2, <3>2
      <3> QED BY <3>1, <3>2
    <2> QED BY <2>1, <2>2
  <1>9. ReservedHasOwner'
    <2> SUFFICES ASSUME NEW i \in Id, store'[i].state = "reserved"
                 PROVE  \E u \in Workers : worker'[u].id = i /\ worker'[u].pc \in Deciding
      BY DEF ReservedHasOwner
    <2>1. CASE store'[i] = store[i] /\ (i = worker[t].id => worker[t].pc \notin Deciding)
      <3>1. PICK u \in Workers : worker[u].id = i /\ worker[u].pc \in Deciding
        BY <2>1 DEF ReservedHasOwner
      <3>2. u # t
        BY <2>1, <3>1
      <3> QED BY <1>1, <3>1, <3>2
    <2>2. CASE v.id = i /\ v.pc \in Deciding
      BY <1>1, <2>2
    <2> QED BY <2>1, <2>2
  <1> QED BY <1>5, <1>8, <1>9

Kept == OneOwner' /\ OwnReservation' /\ ReservedHasOwner'

\* A thread without a reservation that leaves the store alone.
LEMMA StillKeeps ==
    ASSUME Inv, NEW t \in Workers, NEW v, Goto(t, v), UNCHANGED <<store, fresh, queue>>,
           v.id = None \/ v.id = worker[t].id,
           worker[t].pc \notin Deciding, v.pc \notin Deciding
    PROVE  Kept
  BY MoveKeeps DEF Kept

\* A thread that keeps its reservation.
LEMMA DecideKeeps ==
    ASSUME Inv, NEW t \in Workers, NEW v, Goto(t, v), UNCHANGED <<store, fresh, queue>>,
           worker[t].pc \in Deciding, v.pc \in Deciding,
           v.id = worker[t].id, v.pool = worker[t].pool, v.sel = worker[t].sel
    PROVE  Kept
  <1>1. v.id \in Id
    BY DEF Inv, TypeInv, GoodWorkers, GoodWorker, WithId, Deciding
  <1>2. \A i \in Id : store'[i].state = "reserved" =>
              \/ store'[i] = store[i] /\ (i = worker[t].id => worker[t].pc \notin Deciding)
              \/ /\ v.id = i /\ v.pc \in Deciding
                 /\ store'[i].pool = v.pool /\ store'[i].backend = v.sel
    BY DEF Inv, OwnReservation
  <1> QED BY <1>1, <1>2, MoveKeeps DEF Kept

\* A thread whose record is no longer reserved, neither pending.
LEMMA FinishKeeps ==
    ASSUME Inv, NEW t \in Workers, NEW v, Goto(t, v), UNCHANGED <<fresh, queue>>,
           v.id = None \/ v.id = worker[t].id, v.pc \notin Deciding,
           \A i \in Id \ {worker[t].id} : store'[i] = store[i],
           worker[t].id \in Id => store'[worker[t].id].state \notin {"pending", "reserved"}
    PROVE  Kept
  BY MoveKeeps DEF Kept

\* A thread that queues its allocation, or fails to.
LEMMA QueueOrFailKeeps ==
    ASSUME Inv, NEW t \in Workers, worker[t].pool \in Pool, worker[t].pc \notin Deciding,
           NEW b \in Backend \cup {None}, NEW pin \in Backend \cup {None}, NEW kind,
           QueueOrFail(t, worker[t].id, b, pin, kind), UNCHANGED queue
    PROVE  Kept
  <1> DEFINE w == worker[t]
  <1>1. CASE CanQueue(w, kind)
    <2> DEFINE id == IF w.id = None THEN CHOOSE x \in fresh : TRUE ELSE w.id
               r == RecordOf(w, "pending", b, pin)
               v == NoWork(IF t = Queue THEN "idle" ELSE "done")
    <2>1. (w.id # None \/ fresh # {}) /\ store' = Save(store, id, r) /\ fresh' = fresh \ {id} /\ Goto(t, v)
      BY <1>1 DEF QueueOrFail, Return
    <2>2. w \in Worker
      BY DEF Inv, TypeInv, GoodWorkers
    <2>3. GoodRecord(r) /\ r.state = "pending"
      BY <2>2, RecordOfType DEF States
    <2>4. v.id = None /\ v.pc \notin Deciding
      BY DEF NoWork, Deciding
    <2>5. id = w.id \/ id \in fresh \ fresh'
      BY <2>1
    <2>6. /\ \A i \in Id \ {id} : store'[i] = store[i]
          /\ id \in Id => store'[id] = r
      BY <2>1 DEF Save, Inv, TypeInv, GoodStore
    <2>7. None \notin Id /\ fresh' \subseteq fresh
      BY <2>1, BrokerAssumption
    <2> HIDE DEF id, r, v
    <2> QED BY <2>1, <2>3, <2>4, <2>5, <2>6, <2>7, MoveKeeps DEF Kept
  <1>2. CASE ~CanQueue(w, kind)
    <2> DEFINE v == IF t = Queue
                    THEN [NoWork("exit") EXCEPT !.id = w.id, !.snap = w.snap, !.err = kind]
                    ELSE NoWork("done")
    <2>1. Goto(t, v) /\ UNCHANGED <<store, fresh>>
      BY <1>2 DEF QueueOrFail, Fail
    <2>2. (v.id = None \/ v.id = w.id) /\ v.pc \notin Deciding
      BY DEF NoWork, Deciding
    <2> HIDE DEF v
    <2> QED BY <2>1, <2>2, StillKeeps
  <1> QED BY <1>1, <1>2

\* A thread that fails keeps its id or gives it up.
LEMMA FailMove ==
    ASSUME NEW t, NEW kind, Fail(t, kind)
    PROVE  \E v : Goto(t, v) /\ (v.id = None \/ v.id = worker[t].id) /\ v.pc \notin Deciding
  <1> DEFINE v == IF t = Queue
                  THEN [NoWork("exit") EXCEPT !.id = worker[t].id, !.snap = worker[t].snap, !.err = kind]
                  ELSE NoWork("done")
  <1>1. Goto(t, v)
    BY DEF Fail
  <1>2. (v.id = None \/ v.id = worker[t].id) /\ v.pc \notin Deciding
    BY DEF NoWork, Deciding
  <1> HIDE DEF v
  <1> QED BY <1>1, <1>2

\* So does one that returns.
LEMMA ReturnMove ==
    ASSUME NEW t, Return(t)
    PROVE  \E v : Goto(t, v) /\ v.id = None /\ v.pc \notin Deciding
  <1> DEFINE v == NoWork(IF t = Queue THEN "idle" ELSE "done")
  <1>1. Goto(t, v) /\ v.id = None /\ v.pc \notin Deciding
    BY DEF Return, NoWork, Deciding
  <1> HIDE DEF v
  <1> QED BY <1>1

\* The steps of allocateNow keep the ownership of ids and reservations.
LEMMA AllocateStepKeeps ==
    ASSUME Inv, NEW t \in Workers, AllocateStep(t)
    PROVE  Kept
  <1> DEFINE w == worker[t]
  <1>1. w \in Worker /\ GoodWorker(t, w)
    BY DEF Inv, TypeInv, GoodWorkers
  <1>2. /\ w.pool \in Pool \cup {None} /\ w.want \in Backend \cup {None} /\ w.sel \in Backend \cup {None}
        /\ w.pin \in Backend \cup {None, "rerouted"} /\ w.id \in Id \cup {None}
    BY <1>1 DEF Worker
  <1>3. w.pc \in Deciding => w.id \in Id /\ w.pool \in Pool /\ w.sel \in Backend
    BY <1>1 DEF GoodWorker, Deciding, WithId, WithSlot
  <1>4. \A i \in Id : store[i] \in Record
    BY DEF Inv, TypeInv, GoodStore
  <1>5. ASSUME NEW kind, Fail(t, kind), w.pc \notin Deciding, UNCHANGED <<store, fresh, queue>>
        PROVE  Kept
    BY <1>5, FailMove, StillKeeps
  <1>6. ASSUME NEW B, NEW dropPin, Filter(t, B, dropPin) PROVE Kept
    <2> DEFINE want == IF dropPin THEN None ELSE w.pin
               lane == FirstLane(w.pool, B, want)
               v == [w EXCEPT !.pc = "reserve", !.elig = B,
                              !.pin = IF dropPin THEN "rerouted" ELSE @,
                              !.lane = lane.lane, !.want = lane.want, !.first = lane.first]
    <2>1. w.pc = "filter" /\ Goto(t, v) /\ UNCHANGED <<store, fresh, queue>>
      BY <1>6 DEF Filter, At
    <2>2. v.id = w.id /\ v.pc \notin Deciding /\ w.pc \notin Deciding
      BY <1>1, <2>1 DEF Worker, Deciding
    <2> HIDE DEF v
    <2> QED BY <2>1, <2>2, StillKeeps
  <1>7. ASSUME NEW kind \in {"circuit-open", "fatal"}, FilterRejects(t, kind) PROVE Kept
    <2>1. w.pc = "filter" /\ QueueOrFail(t, w.id, None, w.pin, kind) /\ UNCHANGED queue
      BY <1>7 DEF FilterRejects, At
    <2>2. w.pool \in Pool /\ w.pin \in Backend \cup {None} /\ w.pc \notin Deciding
      BY <1>1, <1>2, <2>1 DEF GoodWorker, Deciding
    <2> QED BY <2>1, <2>2, QueueOrFailKeeps
  <1>8. ASSUME NEW b \in Backend, Reserve(t, b) PROVE Kept
    <2> DEFINE v == [w EXCEPT !.pc = "admit", !.sel = b, !.first = FALSE]
    <2>1. w.pc = "reserve" /\ Goto(t, v) /\ UNCHANGED <<store, fresh, queue>>
      BY <1>8 DEF Reserve, At
    <2>2. v.id = w.id /\ v.pc \notin Deciding /\ w.pc \notin Deciding
      BY <1>1, <2>1 DEF Worker, Deciding
    <2> HIDE DEF v
    <2> QED BY <2>1, <2>2, StillKeeps
  <1>9. ASSUME Saturated(t) PROVE Kept
    <2> DEFINE v == [w EXCEPT !.first = FALSE, !.want = None, !.lane = FallbackBackends(w.elig)]
    <2>1. w.pc = "reserve" /\ Goto(t, v) /\ UNCHANGED <<store, fresh, queue>>
      BY <1>9 DEF Saturated, At
    <2>2. v.id = w.id /\ v.pc \notin Deciding /\ w.pc \notin Deciding
      BY <1>1, <2>1 DEF Worker, Deciding
    <2> HIDE DEF v
    <2> QED BY <2>1, <2>2, StillKeeps
  <1>10. ASSUME NoCapacity(t) PROVE Kept
    BY <1>5, <1>10 DEF NoCapacity, At, Deciding
  <1>11. ASSUME Admit(t) PROVE Kept
    <2> DEFINE v == [w EXCEPT !.pc = "save"]
    <2>1. w.pc = "admit" /\ Goto(t, v) /\ UNCHANGED <<store, fresh, queue>>
      BY <1>11 DEF Admit, At
    <2>2. v.id = w.id /\ v.pc \notin Deciding /\ w.pc \notin Deciding
      BY <1>1, <2>1 DEF Worker, Deciding
    <2> HIDE DEF v
    <2> QED BY <2>1, <2>2, StillKeeps
  <1>12. ASSUME DenyCircuitOpen(t) PROVE Kept
    <2> DEFINE v == [w EXCEPT !.pc = "reserve", !.want = None, !.sel = None, !.lane = FallbackBackends(w.elig)]
    <2>1. w.pc = "admit" /\ UNCHANGED queue /\ w.pc \notin Deciding
      BY <1>12 DEF DenyCircuitOpen, At, Deciding
    <2>2. w.pool \in Pool
      BY <1>1, <2>1 DEF GoodWorker
    <2>3. CASE QueueOrFail(t, w.id, w.sel, w.want, "circuit-open")
      BY <1>2, <2>1, <2>2, <2>3, QueueOrFailKeeps
    <2>4. CASE Goto(t, v) /\ UNCHANGED <<store, fresh>>
      <3>1. v.id = w.id /\ v.pc \notin Deciding
        BY <1>1 DEF Worker, Deciding
      <3> HIDE DEF v
      <3> QED BY <2>1, <2>4, <3>1, StillKeeps
    <2> QED BY <1>12, <2>3, <2>4 DEF DenyCircuitOpen
  <1>13. ASSUME DenyRateLimited(t) PROVE Kept
    <2> DEFINE rest == IF LeavesARC(w) THEN FallbackBackends(w.elig) ELSE w.lane \ {w.sel}
               v == [w EXCEPT !.pc = "reserve", !.want = None, !.sel = None, !.lane = rest]
    <2>1. w.pc = "admit" /\ UNCHANGED <<store, fresh, queue>> /\ w.pc \notin Deciding
      BY <1>13 DEF DenyRateLimited, At, Deciding
    <2>2. CASE Goto(t, v)
      <3>1. v.id = w.id /\ v.pc \notin Deciding
        BY <1>1 DEF Worker, Deciding
      <3> HIDE DEF v
      <3> QED BY <2>1, <2>2, <3>1, StillKeeps
    <2>3. CASE Fail(t, "rate-limited")
      BY <1>5, <2>1, <2>3
    <2> QED BY <1>13, <2>2, <2>3 DEF DenyRateLimited
  <1>14. ASSUME SaveReserved(t) PROVE Kept
    <2> DEFINE i == IF t = Queue THEN w.id ELSE CHOOSE x \in fresh : TRUE
               r == RecordOf(w, "reserved", w.sel, w.want)
               v == [w EXCEPT !.pc = "provision", !.id = i]
    <2>1. /\ w.pc = "save" /\ (t # Queue => fresh # {})
          /\ store' = Save(store, i, r) /\ fresh' = fresh \ {i} /\ Goto(t, v) /\ UNCHANGED queue
      BY <1>14 DEF SaveReserved, At
    <2>2. w.pool \in Pool /\ w.pc \notin Deciding
      BY <1>1, <2>1 DEF GoodWorker, Deciding
    <2>3. i \in Id /\ (i = w.id \/ i \in fresh \ fresh')
      BY <1>1, <2>1 DEF GoodWorker, Inv, TypeInv
    <2>4. r.state = "reserved" /\ r.pool = w.pool /\ r.backend = w.sel
      BY <1>1 DEF RecordOf, Worker, Record
    <2> HIDE DEF i, r
    <2>5. v.id = i /\ v.pc \in Deciding /\ v.pool = w.pool /\ v.sel = w.sel
      BY <1>1 DEF Worker, Deciding
    <2>6. (\A j \in Id \ {i} : store'[j] = store[j]) /\ store'[i] = r
      BY <2>1, <2>3 DEF Save, Inv, TypeInv, GoodStore
    <2> HIDE DEF v
    <2> QED BY <2>1, <2>2, <2>3, <2>4, <2>5, <2>6, MoveKeeps DEF Kept
  <1>15. ASSUME SaveRefused(t) PROVE Kept
    BY <1>5, <1>15 DEF SaveRefused, At, Deciding
  <1>16. ASSUME NEW pc \in Deciding, NEW v, v = [w EXCEPT !.pc = pc] \/ \E e : v = [w EXCEPT !.pc = pc, !.err = e],
                w.pc \in Deciding, Goto(t, v), UNCHANGED <<store, fresh, queue>>
         PROVE  Kept
    <2>1. v.pc = pc /\ v.id = w.id /\ v.pool = w.pool /\ v.sel = w.sel
      BY <1>1, <1>16 DEF Worker
    <2> QED BY <1>16, <2>1, DecideKeeps
  <1>17. ASSUME BackendMissing(t) PROVE Kept
    BY <1>16, <1>17 DEF BackendMissing, At, Deciding
  <1>18. ASSUME ProvisionOK(t) PROVE Kept
    BY <1>16, <1>18 DEF ProvisionOK, At, Deciding
  <1>19. ASSUME NEW kind, ProvisionErr(t, kind) PROVE Kept
    BY <1>16, <1>19 DEF ProvisionErr, At, Deciding
  <1>20. ASSUME MarkMissing(t) PROVE Kept
    <2>1. w.pc \in Deciding /\ store' = MarkState(store, w.id, "failed") /\ Fail(t, "fatal") /\ UNCHANGED <<fresh, queue>>
      BY <1>20 DEF MarkMissing, At, Deciding
    <2>2. (\A j \in Id \ {w.id} : store'[j] = store[j]) /\ store'[w.id].state \in {"absent", "failed"}
      BY <1>3, <1>4, <2>1 DEF MarkState, Record, Inv, TypeInv, GoodStore
    <2> QED BY <2>1, <2>2, FailMove, FinishKeeps
  <1>21. ASSUME Commit(t) PROVE Kept
    <2> DEFINE r == [RecordOf(w, "ready", w.sel, w.want) EXCEPT !.reg = @ \/ w.sel \in StaticLabel[w.pool]]
    <2>1. w.pc \in Deciding /\ UNCHANGED <<fresh, queue>>
      BY <1>21 DEF Commit, At, Deciding
    <2>2. CASE store' = Save(store, w.id, r) /\ Return(t)
      <3>1. r.state = "ready"
        BY <1>1 DEF RecordOf, Worker, Record
      <3> HIDE DEF r
      <3>2. (\A j \in Id \ {w.id} : store'[j] = store[j]) /\ store'[w.id] = r
        BY <1>3, <2>1, <2>2 DEF Save, Inv, TypeInv, GoodStore
      <3> QED BY <2>1, <2>2, <3>1, <3>2, ReturnMove, FinishKeeps
    <2>3. CASE Fail(t, "fatal") /\ UNCHANGED store /\ store[w.id].state # "reserved"
      <3>1. PICK v : Goto(t, v) /\ (v.id = None \/ v.id = w.id) /\ v.pc \notin Deciding
        BY <2>3, FailMove
      <3> QED BY <2>1, <2>3, <3>1, MoveKeeps DEF Kept
    <2> QED BY <1>21, <2>2, <2>3 DEF Commit
  <1>22. ASSUME Abandon(t) PROVE Kept
    <2> DEFINE v == [w EXCEPT !.pc = "retry"]
    <2>1. w.pc \in Deciding /\ UNCHANGED <<fresh, queue>>
      BY <1>22 DEF Abandon, At, Deciding
    <2>2. v.id = w.id /\ v.pc \notin Deciding
      BY <1>1 DEF Worker, Deciding
    <2> HIDE DEF v
    <2>3. CASE store' = MarkState(store, w.id, "failed") /\ Goto(t, v)
      <3>1. (\A j \in Id \ {w.id} : store'[j] = store[j]) /\ store'[w.id].state \in {"absent", "failed"}
        BY <1>3, <1>4, <2>1, <2>3 DEF MarkState, Record, Inv, TypeInv, GoodStore
      <3> QED BY <2>1, <2>2, <2>3, <3>1, FinishKeeps
    <2>4. ASSUME NEW kind, Fail(t, kind), UNCHANGED store, IsTerminal(store[w.id]) PROVE Kept
      <3>1. PICK x : Goto(t, x) /\ (x.id = None \/ x.id = w.id) /\ x.pc \notin Deciding
        BY <2>4, FailMove
      <3>2. store[w.id].state # "reserved"
        BY <2>4 DEF IsTerminal, TerminalStates
      <3> QED BY <2>1, <2>4, <3>1, <3>2, MoveKeeps DEF Kept
    <2>5. CASE Goto(t, v) /\ UNCHANGED store /\ store[w.id].state # "reserved"
      BY <2>1, <2>2, <2>5, MoveKeeps DEF Kept
    <2> QED BY <1>22, <2>3, <2>4, <2>5 DEF Abandon, v
  <1>23. ASSUME NEW rest, w.pc = "retry", Reroute(t, rest), UNCHANGED queue PROVE Kept
    <2> DEFINE i == IF t = Queue THEN w.id ELSE None
               v == [w EXCEPT !.pc = "reserve", !.want = None, !.sel = None, !.lane = rest,
                              !.err = "none", !.id = i]
    <2>1. v.id = i /\ v.pc \notin Deciding
      BY <1>1 DEF Worker, Deciding
    <2>2. PICK x : Goto(t, x) /\ (x.id = None \/ x.id = w.id) /\ x.pc \notin Deciding
      <3>1. CASE Goto(t, v)
        <4> HIDE DEF v
        <4> QED BY <2>1, <3>1
      <3>2. CASE Fail(t, "capacity")
        BY <3>2, FailMove
      <3> QED BY <1>23, <3>1, <3>2 DEF Reroute
    <2>3. w.pc \notin Deciding /\ UNCHANGED fresh
      BY <1>23 DEF Deciding, Reroute
    <2>4. CASE UNCHANGED store
      BY <1>23, <2>2, <2>3, <2>4, StillKeeps
    <2>5. CASE store' = Delete(store, {w.id})
      <3>1. (\A j \in Id \ {w.id} : store'[j] = store[j]) /\ (w.id \in Id => store'[w.id].state = "absent")
        BY <2>5 DEF Delete, NoRecord
      <3> QED BY <1>23, <2>2, <2>3, <3>1, FinishKeeps
    <2> QED BY <1>23, <2>4, <2>5 DEF Reroute
  <1>24. ASSUME RetryCapacity(t) PROVE Kept
    BY <1>23, <1>24 DEF RetryCapacity, At
  <1>25. ASSUME RetryARC(t) PROVE Kept
    BY <1>23, <1>25 DEF RetryARC, At
  <1>26. ASSUME RetryQueue(t) PROVE Kept
    <2>1. w.pc = "retry" /\ QueueOrFail(t, w.id, w.sel, w.want, w.err) /\ UNCHANGED queue
      BY <1>26 DEF RetryQueue, At
    <2>2. w.pool \in Pool /\ w.pc \notin Deciding
      BY <1>1, <2>1 DEF GoodWorker, Deciding
    <2> QED BY <1>2, <2>1, <2>2, QueueOrFailKeeps
  <1> QED BY <1>6, <1>7, <1>8, <1>9, <1>10, <1>11, <1>12, <1>13, <1>14, <1>15, <1>17, <1>18, <1>19,
             <1>20, <1>21, <1>22, <1>24, <1>25, <1>26 DEF AllocateStep

\* The queue loop keeps them: it takes over an id nobody else works on.
LEMMA QueueStepKeeps ==
    ASSUME Inv, QueueStep
    PROVE  Kept
  <1> DEFINE w == worker[Queue]
  <1>1. Queue \in Workers /\ w \in Worker /\ GoodWorker(Queue, w) /\ Queue \notin Requests
    BY BrokerAssumption DEF Workers, Inv, TypeInv, GoodWorkers
  <1>2. \A i \in Id : store[i] \in Record
    BY DEF Inv, TypeInv, GoodStore
  <1>3. ASSUME QueueList PROVE Kept
    <2>1. Harmless
      BY <1>3 DEF QueueList, Harmless
    <2> QED BY <2>1, HarmlessKeeps DEF Inv, Kept
  <1>4. ASSUME NEW i \in Id, QueueVisit(i)
        PROVE  \A j \in Id : queue'[j] # NoRecord => j # i /\ queue'[j] = queue[j]
    BY <1>4 DEF QueueVisit, Inv, TypeInv, GoodQueue
  <1>5. ASSUME NEW i \in Id, QueueKeep(i) PROVE Kept
    <2>1. Harmless
      BY <1>4, <1>5 DEF QueueKeep, Harmless
    <2> QED BY <2>1, HarmlessKeeps DEF Inv, Kept
  <1>6. ASSUME NEW i \in Id, NEW to \in {"expired", "failed"}, QueueDrop(i, to) PROVE Kept
    <2>1. \A j \in Id : store'[j] = store[j] \/ store'[j].state = to
      BY <1>2, <1>6 DEF QueueDrop, MarkState, Record, Inv, TypeInv, GoodStore
    <2>2. Harmless
      BY <1>4, <1>6, <2>1 DEF QueueDrop, Harmless
    <2> QED BY <2>2, HarmlessKeeps DEF Inv, Kept
  <1>7. ASSUME NEW i \in Id, QueueRetry(i) PROVE Kept
    <2> DEFINE old == queue[i]
               new == [old EXCEPT !.attempts = @ + 1]
               v == [NoWork("filter") EXCEPT !.pool = old.pool, !.pin = old.pin, !.id = i, !.snap = new]
    <2>1. /\ QueueVisit(i) /\ store' = Save(store, i, new) /\ Goto(Queue, v)
          /\ UNCHANGED fresh /\ w.pc = "idle"
      BY <1>7 DEF QueueRetry, QueueVisit, QueueIdle, At
    <2>2. old \in Record /\ old # NoRecord /\ old.state = "pending"
      BY <2>1 DEF QueueVisit, Inv, TypeInv, GoodQueue
    <2>3. new.state = "pending"
      <3> HIDE DEF old
      <3> QED BY <2>2 DEF Record
    <2>4. i \notin fresh /\ \A u \in Requests : worker[u].id # i
      BY <2>2 DEF Inv, OneOwner
    <2>5. v.id = i /\ v.pc \notin Deciding
      BY DEF NoWork, Deciding
    <2>6. (\A j \in Id \ {i} : store'[j] = store[j]) /\ store'[i] = new
      BY <2>1 DEF Save, Inv, TypeInv, GoodStore
    <2> HIDE DEF old, new, v
    <2>7. /\ worker'[Queue] = v /\ \A u \in Requests : worker'[u] = worker[u]
          /\ \A u \in Workers : u = Queue \/ u \in Requests
      BY <1>1, <2>1 DEF Goto, Workers, Inv, TypeInv, GoodWorkers
    <2>8. OneOwner'
      <3>1. \A a, b \in Workers : worker'[a].id # None /\ worker'[a].id = worker'[b].id => a = b
        BY <1>1, <2>4, <2>5, <2>7 DEF Inv, OneOwner
      <3>2. \A a \in Workers : worker'[a].id \notin fresh'
        BY <2>1, <2>4, <2>5, <2>7 DEF Inv, OneOwner
      <3>3. ASSUME NEW j \in Id, store'[j].state = "pending" \/ queue'[j] # NoRecord
            PROVE  j \notin fresh' /\ \A u \in Requests : worker'[u].id # j
        <4>1. j = i \/ store[j].state = "pending" \/ queue[j] # NoRecord
          BY <1>4, <2>1, <2>6, <3>3
        <4> QED BY <2>1, <2>4, <2>7, <4>1 DEF Inv, OneOwner
      <3> QED BY <3>1, <3>2, <3>3 DEF OneOwner
    <2>9. OwnReservation'
      <3>1. \A u \in Requests : worker[u].pc \in Deciding => worker[u].id \in Id
        BY <2>7 DEF Inv, TypeInv, GoodWorkers, GoodWorker, WithId, Deciding, Workers
      <3>2. \A u \in Requests : worker[u].pc \in Deciding => store'[worker[u].id] = store[worker[u].id]
        BY <2>4, <2>6, <3>1
      <3> QED BY <2>5, <2>7, <3>2 DEF Inv, OwnReservation
    <2>10. ReservedHasOwner'
      <3> SUFFICES ASSUME NEW j \in Id, store'[j].state = "reserved"
                   PROVE  \E u \in Workers : worker'[u].id = j /\ worker'[u].pc \in Deciding
        BY DEF ReservedHasOwner
      <3>1. PICK u \in Workers : worker[u].id = j /\ worker[u].pc \in Deciding
        BY <2>3, <2>6 DEF Inv, ReservedHasOwner
      <3>2. u # Queue
        BY <2>1, <3>1 DEF Deciding
      <3> QED BY <2>7, <3>1, <3>2
    <2> QED BY <2>8, <2>9, <2>10 DEF Kept
  <1>8. ASSUME QueueExit PROVE Kept
    <2> DEFINE v == NoWork("idle")
    <2>1. /\ w.pc = "exit" /\ w.pc \notin Deciding /\ Goto(Queue, v) /\ UNCHANGED <<fresh, queue>>
          /\ (store' = Save(store, w.id, w.snap) \/ store' = MarkState(store, w.id, "failed"))
      BY <1>8 DEF QueueExit, At, Deciding
    <2>2. w.id \in Id /\ w.snap.state = "pending"
      BY <1>1, <2>1 DEF GoodWorker
    <2>3. (\A j \in Id \ {w.id} : store'[j] = store[j]) /\ store'[w.id].state \in {"pending", "absent", "failed"}
      BY <1>2, <2>1, <2>2 DEF Save, MarkState, Record, Inv, TypeInv, GoodStore
    <2>4. v.id = None /\ v.pc \notin Deciding
      BY DEF NoWork, Deciding
    <2> HIDE DEF v
    <2> QED BY <1>1, <2>1, <2>2, <2>3, <2>4, MoveKeeps DEF Kept
  <1>9. ASSUME AllocateStep(Queue) PROVE Kept
    BY <1>1, <1>9, AllocateStepKeeps
  <1> QED BY <1>3, <1>5, <1>6, <1>7, <1>8, <1>9 DEF QueueStep

\* The steps that only mark, delete or read records, and release slots.
LEMMA MarkingIsHarmless ==
    ASSUME TypeInv
    PROVE  /\ \A c \in Cancels, i \in Id : Cancel(c, i) => Harmless
           /\ \A c \in Completes, i \in Id, to \in CompletionStates : CompleteRead(c, i, to) => Harmless
           /\ \A c \in Completes : CompleteMark(c) => Harmless
           /\ SweepStep => Harmless
           /\ \A a : TailStep(a) => Harmless
  <1>1. ASSUME NEW i, NEW to \in TerminalStates, store' = MarkState(store, i, to),
               UNCHANGED <<worker, fresh, queue>>
        PROVE  Harmless
    <2>1. \A j \in Id : store[j] \in Record
      BY DEF TypeInv, GoodStore
    <2>2. \A j \in Id : store'[j] = store[j] \/ store'[j].state = to
      BY <1>1, <2>1 DEF MarkState, Record, TypeInv, GoodStore
    <2> QED BY <1>1, <2>2 DEF Harmless, TerminalStates
  <1>2. ASSUME UNCHANGED <<store, worker, fresh, queue>> PROVE Harmless
    BY <1>2 DEF Harmless
  <1>3. \A c \in Cancels, i \in Id : Cancel(c, i) => Harmless
    BY <1>1 DEF Cancel, TerminalStates
  <1>4. \A c \in Completes, i \in Id, to \in CompletionStates : CompleteRead(c, i, to) => Harmless
    BY <1>2 DEF CompleteRead, ReadForWrite
  <1>5. ASSUME NEW c \in Completes, CompleteMark(c) PROVE Harmless
    <2>1. call[c].to \in TerminalStates
      BY <1>5 DEF CompleteMark, TypeInv, GoodCalls, GoodCall, Callers
    <2> QED BY <1>1, <1>5, <2>1 DEF CompleteMark
  <1>6. SweepStep => Harmless
    <2>1. SweepList => Harmless
      BY <1>2 DEF SweepList
    <2>2. \A i \in Id : SweepUnregistered(i) => Harmless
      BY <1>1 DEF SweepUnregistered, Reap, TerminalStates
    <2>3. \A i \in Id : SweepJobTimeout(i) => Harmless
      BY <1>1 DEF SweepJobTimeout, Reap, TerminalStates
    <2>4. \A i \in Id : SweepQuarantine(i) => Harmless
      BY <1>1 DEF SweepQuarantine, TerminalStates
    <2>5. \A i \in Id : SweepKeep(i) => Harmless
      BY <1>2 DEF SweepKeep
    <2>6. \A D : SweepPrune(D) => Harmless
      BY DEF SweepPrune, Delete, NoRecord, Harmless
    <2> QED BY <2>1, <2>2, <2>3, <2>4, <2>5, <2>6 DEF SweepStep
  <1>7. \A a : TailStep(a) => Harmless
    BY <1>2 DEF TailStep, Release, Cleanup, CleanupFails
  <1> QED BY <1>3, <1>4, <1>5, <1>6, <1>7

\* The invariant is inductive when no claim or register callback is in flight.
LEMMA InvNext ==
    ASSUME Claims = {}
    PROVE  Inv /\ [Next]_vars => Inv'
  <1> SUFFICES ASSUME Inv, [Next]_vars PROVE Inv'
    OBVIOUS
  <1>1. TypeInv'
    BY TypeNext DEF Inv
  <1>2. CASE UNCHANGED vars
    BY <1>1, <1>2 DEF vars, Inv, OneOwner, OwnReservation, ReservedHasOwner
  <1>3. Harmless => Inv'
    BY <1>1, HarmlessKeeps DEF Inv
  <1>4. ASSUME NEW t \in Requests, NEW p, NEW pin, Allocate(t, p, pin) PROVE Inv'
    <2> DEFINE v == [NoWork("filter") EXCEPT !.pool = p, !.pin = pin]
    <2>1. t \in Workers /\ worker[t].pc \notin Deciding /\ Goto(t, v) /\ UNCHANGED <<store, fresh, queue>>
      BY <1>4 DEF Allocate, At, Workers, Deciding
    <2>2. v.id = None /\ v.pc \notin Deciding
      BY DEF NoWork, Deciding
    <2> HIDE DEF v
    <2> QED BY <1>1, <2>1, <2>2, StillKeeps DEF Kept, Inv
  <1>5. ASSUME NEW t \in Requests, AllocateStep(t) PROVE Inv'
    BY <1>1, <1>5, AllocateStepKeeps DEF Workers, Kept, Inv
  <1>6. QueueStep => Inv'
    BY <1>1, QueueStepKeeps DEF Kept, Inv
  <1>7. TypeInv
    BY DEF Inv
  <1> QED BY <1>2, <1>3, <1>4, <1>5, <1>6, <1>7, MarkingIsHarmless DEF Next

\* Every reachable state satisfies it.
LEMMA InvAlways ==
    ASSUME Claims = {}
    PROVE  Spec => []Inv
  <1>1. Init => Inv
    <2> SUFFICES ASSUME Init PROVE Inv
      OBVIOUS
    <2>1. TypeInv
      BY TypeInit
    <2>2. None \notin fresh
      BY BrokerAssumption DEF Init
    <2>3. OneOwner /\ OwnReservation /\ ReservedHasOwner
      BY <2>2 DEF Init, NoWork, NoTodo, NoRecord, OneOwner, OwnReservation, ReservedHasOwner, Deciding
    <2> QED BY <2>1, <2>3 DEF Inv
  <1> QED BY <1>1, InvNext, PTL DEF Spec

\* No reservation is orphaned: while a record is reserved, the thread that
\* reserved it is still in allocateNow and will commit it, mark it failed or
\* find it taken over, whatever the other threads do.
THEOREM ReservationsAreOwned ==
    ASSUME Claims = {}
    PROVE  Spec => []ReservedHasOwner
  <1>1. Inv => ReservedHasOwner
    BY DEF Inv
  <1> QED BY <1>1, InvAlways, PTL

\* No two threads work on one allocation id, and a queued allocation is out of
\* the hands of the request that created it.
THEOREM IdsHaveOneOwner ==
    ASSUME Claims = {}
    PROVE  Spec => []OneOwner
  <1>1. Inv => OneOwner
    BY DEF Inv
  <1> QED BY <1>1, InvAlways, PTL

-----------------------------------------------------------------------------
(***************************************************************************)
(* What a step may do to the slots in use.                                 *)
(***************************************************************************)
SlotStep ==
    \/ UNCHANGED SlotsInUse
    \/ \E i \in Id : SlotsInUse' = [SlotsInUse EXCEPT ![i] = None]
    \/ \E i \in Id, p \in Pool, b \in Backend :
          /\ MaxRunners[p][b] > 0
          /\ CapacityAllowed(store, i, p, b, MaxRunners[p][b], BackendLimit(p, b))
          /\ SlotsInUse' = [SlotsInUse EXCEPT ![i] = <<p, b>>]

\* A step that leaves the store alone leaves the slots alone.
LEMMA StoreUnchanged ==
    ASSUME UNCHANGED store
    PROVE  SlotStep
  BY DEF SlotStep, SlotsInUse

\* A step that makes one record unaccounted frees its slot.
LEMMA SlotFreed ==
    ASSUME NEW i \in Id, \A j \in Id \ {i} : store'[j] = store[j], ~IsAccounted(store'[i])
    PROVE  SlotStep
  <1>1. SlotsInUse' = [SlotsInUse EXCEPT ![i] = None]
    BY DEF SlotsInUse, IsAccounted
  <1> QED BY <1>1 DEF SlotStep

\* Saving an unaccounted record and marking one terminal free its slot.
LEMMA SaveFrees ==
    ASSUME TypeInv, NEW i \in Id
    PROVE  /\ \A r : r.state \notin AccountedStates /\ store' = Save(store, i, r) => SlotStep
           /\ \A to \in TerminalStates : store' = MarkState(store, i, to) => SlotStep
  <1>1. ASSUME NEW r, r.state \notin AccountedStates, store' = Save(store, i, r) PROVE SlotStep
    <2>1. (\A j \in Id \ {i} : store'[j] = store[j]) /\ store'[i] = r
      BY <1>1 DEF Save, TypeInv, GoodStore
    <2> QED BY <1>1, <2>1, SlotFreed DEF IsAccounted
  <1>2. ASSUME NEW to \in TerminalStates, store' = MarkState(store, i, to) PROVE SlotStep
    <2>1. store[i] \in Record
      BY DEF TypeInv, GoodStore
    <2>2. /\ \A j \in Id \ {i} : store'[j] = store[j]
          /\ store'[i].state \in {"absent", to}
      BY <1>2, <2>1 DEF MarkState, Record, TypeInv, GoodStore
    <2> QED BY <2>2, SlotFreed DEF IsAccounted, AccountedStates, TerminalStates
  <1> QED BY <1>1, <1>2

\* The steps of allocateNow: only SaveReserved takes a slot, and Commit keeps
\* the one it has.
LEMMA AllocateSlotStep ==
    ASSUME Inv, NEW t \in Workers, AllocateStep(t)
    PROVE  SlotStep
  <1> DEFINE w == worker[t]
  <1>1. TypeInv /\ w \in Worker /\ GoodWorker(t, w) /\ w.id \in Id \cup {None}
    BY DEF Inv, TypeInv, GoodWorkers, Worker
  <1>2. ASSUME NEW i, i = None \/ i \in Id, NEW b, NEW pin, NEW kind, QueueOrFail(t, i, b, pin, kind)
        PROVE  SlotStep
    <2>1. CASE CanQueue(w, kind)
      <3> DEFINE id == IF i = None THEN CHOOSE x \in fresh : TRUE ELSE i
                 r == RecordOf(w, "pending", b, pin)
      <3>1. store' = Save(store, id, r) /\ (i # None \/ fresh # {})
        BY <1>2, <2>1 DEF QueueOrFail
      <3>2. id \in Id
        BY <1>1, <1>2, <3>1 DEF TypeInv
      <3>3. r.state = "pending"
        BY <1>1 DEF RecordOf, Worker, Record
      <3> HIDE DEF id, r
      <3> QED BY <1>1, <3>1, <3>2, <3>3, SaveFrees DEF AccountedStates
    <2>2. CASE ~CanQueue(w, kind)
      BY <1>2, <2>2, StoreUnchanged DEF QueueOrFail
    <2> QED BY <2>1, <2>2
  <1>3. ASSUME NEW kind, FilterRejects(t, kind) \/ DenyCircuitOpen(t) \/ RetryQueue(t) PROVE SlotStep
    BY <1>1, <1>2, <1>3, StoreUnchanged DEF FilterRejects, DenyCircuitOpen, RetryQueue
  <1>4. w.pc \in Deciding => w.id \in Id
    BY <1>1 DEF GoodWorker, Deciding, WithId
  <1>5. ASSUME MarkMissing(t) \/ Abandon(t) PROVE SlotStep
    <2>1. w.id \in Id
      BY <1>4, <1>5 DEF MarkMissing, Abandon, At, Deciding
    <2>2. UNCHANGED store \/ store' = MarkState(store, w.id, "failed")
      BY <1>5 DEF MarkMissing, Abandon
    <2> QED BY <1>1, <2>1, <2>2, StoreUnchanged, SaveFrees DEF TerminalStates
  <1>6. ASSUME RetryCapacity(t) \/ RetryARC(t) PROVE SlotStep
    <2>1. w.id \in Id
      BY <1>1, <1>6 DEF RetryCapacity, RetryARC, At, GoodWorker, WithId
    <2>2. UNCHANGED store \/ store' = Delete(store, {w.id})
      BY <1>6 DEF RetryCapacity, RetryARC, Reroute
    <2>3. CASE store' = Delete(store, {w.id})
      <3>1. (\A j \in Id \ {w.id} : store'[j] = store[j]) /\ store'[w.id] = NoRecord
        BY <2>1, <2>3 DEF Delete
      <3> QED BY <2>1, <3>1, SlotFreed DEF NoRecord, IsAccounted, AccountedStates
    <2> QED BY <2>2, <2>3, StoreUnchanged
  <1>7. ASSUME Commit(t) PROVE SlotStep
    <2> DEFINE r == [RecordOf(w, "ready", w.sel, w.want) EXCEPT !.reg = @ \/ w.sel \in StaticLabel[w.pool]]
    <2>1. w.pc \in Deciding /\ w.id \in Id
      BY <1>4, <1>7 DEF Commit, At, Deciding
    <2>2. CASE store[w.id].state = "reserved" /\ store' = Save(store, w.id, r)
      <3>1. r.state = "ready" /\ r.pool = w.pool /\ r.backend = w.sel
        BY <1>1 DEF RecordOf, Worker, Record
      <3> HIDE DEF r
      <3>2. (\A j \in Id \ {w.id} : store'[j] = store[j]) /\ store'[w.id] = r
        BY <1>1, <2>1, <2>2 DEF Save, TypeInv, GoodStore
      <3>3. store[w.id].pool = w.pool /\ store[w.id].backend = w.sel
        BY <2>1, <2>2 DEF Inv, OwnReservation
      <3>4. SlotsInUse' = SlotsInUse
        BY <2>2, <3>1, <3>2, <3>3 DEF SlotsInUse, IsAccounted, AccountedStates
      <3> QED BY <3>4 DEF SlotStep
    <2>3. CASE UNCHANGED store
      BY <2>3, StoreUnchanged
    <2> QED BY <1>7, <2>2, <2>3 DEF Commit
  <1>8. ASSUME SaveReserved(t) PROVE SlotStep
    <2> DEFINE i == IF t = Queue THEN w.id ELSE CHOOSE x \in fresh : TRUE
               r == RecordOf(w, "reserved", w.sel, w.want)
    <2>1. /\ w.pc = "save" /\ (t # Queue => fresh # {}) /\ store' = Save(store, i, r)
          /\ CapacityAllowed(store, i, w.pool, w.sel, MaxRunners[w.pool][w.sel], BackendLimit(w.pool, w.sel))
      BY <1>8 DEF SaveReserved, At
    <2>2. i \in Id
      BY <1>1, <2>1 DEF GoodWorker, TypeInv
    <2>3. w.pool \in Pool /\ w.sel \in Backend /\ MaxRunners[w.pool][w.sel] > 0
      BY <1>1, <2>1 DEF GoodWorker, WithSlot
    <2>4. r.state = "reserved" /\ r.pool = w.pool /\ r.backend = w.sel
      BY <1>1 DEF RecordOf, Worker, Record
    <2> HIDE DEF i, r
    <2>5. (\A j \in Id \ {i} : store'[j] = store[j]) /\ store'[i] = r
      BY <1>1, <2>1, <2>2 DEF Save, TypeInv, GoodStore
    <2>6. SlotsInUse' = [SlotsInUse EXCEPT ![i] = <<w.pool, w.sel>>]
      BY <2>2, <2>4, <2>5 DEF SlotsInUse, IsAccounted, AccountedStates
    <2> QED BY <2>1, <2>2, <2>3, <2>6 DEF SlotStep
  <1>9. ASSUME NEW B, NEW dropPin, Filter(t, B, dropPin) PROVE SlotStep
    BY <1>9, StoreUnchanged DEF Filter
  <1>10. ASSUME NEW b, Reserve(t, b) PROVE SlotStep
    BY <1>10, StoreUnchanged DEF Reserve
  <1>11. Saturated(t) \/ NoCapacity(t) \/ Admit(t) \/ DenyRateLimited(t) \/ SaveRefused(t)
            \/ BackendMissing(t) \/ ProvisionOK(t) => SlotStep
    BY StoreUnchanged DEF Saturated, NoCapacity, Admit, DenyRateLimited, SaveRefused, BackendMissing, ProvisionOK
  <1>12. ASSUME NEW kind, ProvisionErr(t, kind) PROVE SlotStep
    BY <1>12, StoreUnchanged DEF ProvisionErr
  <1> QED BY <1>3, <1>5, <1>6, <1>7, <1>8, <1>9, <1>10, <1>11, <1>12 DEF AllocateStep

\* Every step of the broker is a step of the slots.
LEMMA SlotNext ==
    ASSUME Claims = {}, Inv, [Next]_vars
    PROVE  SlotStep
  <1>1. TypeInv
    BY DEF Inv
  <1>2. CASE UNCHANGED vars
    BY <1>2, StoreUnchanged DEF vars
  <1>3. ASSUME NEW t \in Requests, NEW p, NEW pin, Allocate(t, p, pin) PROVE SlotStep
    BY <1>3, StoreUnchanged DEF Allocate
  <1>4. ASSUME NEW t \in Requests, AllocateStep(t) PROVE SlotStep
    BY <1>4, AllocateSlotStep DEF Workers
  <1>5. ASSUME NEW c, NEW i \in Id, Cancel(c, i) PROVE SlotStep
    BY <1>1, <1>5, SaveFrees DEF Cancel, TerminalStates
  <1>6. ASSUME NEW c, NEW i, NEW to, CompleteRead(c, i, to) PROVE SlotStep
    BY <1>6, StoreUnchanged DEF CompleteRead, ReadForWrite
  <1>7. ASSUME NEW c \in Completes, CompleteMark(c) PROVE SlotStep
    <2>1. call[c].id \in Id /\ call[c].to \in TerminalStates
      BY <1>1, <1>7 DEF CompleteMark, TypeInv, GoodCalls, GoodCall, Callers
    <2> QED BY <1>1, <1>7, <2>1, SaveFrees DEF CompleteMark
  <1>8. ASSUME SweepStep PROVE SlotStep
    <2>1. SweepList => SlotStep
      BY StoreUnchanged DEF SweepList
    <2>2. ASSUME NEW i \in Id, NEW to \in TerminalStates, Reap(i, to) PROVE SlotStep
      BY <1>1, <2>2, SaveFrees DEF Reap
    <2>3. \A i \in Id : SweepUnregistered(i) \/ SweepJobTimeout(i) => SlotStep
      BY <2>2 DEF SweepUnregistered, SweepJobTimeout, TerminalStates
    <2>4. \A i \in Id : SweepQuarantine(i) => SlotStep
      BY <1>1, SaveFrees DEF SweepQuarantine, TerminalStates
    <2>5. \A i \in Id : SweepKeep(i) => SlotStep
      BY StoreUnchanged DEF SweepKeep
    <2>6. ASSUME NEW D, SweepPrune(D) PROVE SlotStep
      <3>1. \A i \in Id : store'[i] = store[i] \/ (~IsAccounted(store[i]) /\ ~IsAccounted(store'[i]))
        BY <2>6 DEF SweepPrune, Delete, Prunable, NoRecord, IsTerminal, IsAccounted, TerminalStates, AccountedStates
      <3>2. SlotsInUse' = SlotsInUse
        BY <3>1 DEF SlotsInUse, IsAccounted
      <3> QED BY <3>2 DEF SlotStep
    <2> QED BY <1>8, <2>1, <2>3, <2>4, <2>5, <2>6 DEF SweepStep
  <1>9. ASSUME QueueStep PROVE SlotStep
    <2>1. QueueList => SlotStep
      BY StoreUnchanged DEF QueueList
    <2>2. \A i \in Id : QueueKeep(i) => SlotStep
      BY StoreUnchanged DEF QueueKeep
    <2>3. \A i \in Id, to \in {"expired", "failed"} : QueueDrop(i, to) => SlotStep
      BY <1>1, SaveFrees DEF QueueDrop, TerminalStates
    <2>4. ASSUME NEW i \in Id, QueueRetry(i) PROVE SlotStep
      <3> DEFINE old == queue[i]
                 new == [old EXCEPT !.attempts = @ + 1]
      <3>1. QueueVisit(i) /\ store' = Save(store, i, new)
        BY <2>4 DEF QueueRetry
      <3>2. old \in Record /\ old.state = "pending"
        BY <1>1, <3>1 DEF QueueVisit, TypeInv, GoodQueue
      <3> HIDE DEF old
      <3>3. new.state = "pending"
        BY <3>2 DEF Record
      <3> HIDE DEF new
      <3> QED BY <1>1, <3>1, <3>3, SaveFrees DEF AccountedStates
    <2>5. ASSUME QueueExit PROVE SlotStep
      <3>1. worker[Queue].id \in Id /\ worker[Queue].snap.state = "pending"
        BY <1>1, <2>5 DEF QueueExit, At, TypeInv, GoodWorkers, GoodWorker, Workers
      <3> QED BY <1>1, <2>5, <3>1, SaveFrees DEF QueueExit, AccountedStates, TerminalStates
    <2>6. AllocateStep(Queue) => SlotStep
      BY AllocateSlotStep DEF Workers
    <2> QED BY <1>9, <2>1, <2>2, <2>3, <2>4, <2>5, <2>6 DEF QueueStep
  <1>10. ASSUME NEW a, TailStep(a) PROVE SlotStep
    BY <1>10, StoreUnchanged DEF TailStep, Release, Cleanup, CleanupFails
  <1> QED BY <1>2, <1>3, <1>4, <1>5, <1>6, <1>7, <1>8, <1>9, <1>10 DEF Next

-----------------------------------------------------------------------------
(***************************************************************************)
(* The broker implements CapacityPool.                                     *)
(***************************************************************************)

\* The records that count against a limit, in terms of the slots in use.
LEMMA OccupantsAreSlots ==
    ASSUME GoodStore(store)
    PROVE  /\ \A p \in Pool, b \in Backend :
                 Occupants(store, p, b) = {i \in Id : SlotsInUse[i] = <<p, b>>}
           /\ \A b \in Backend :
                 BackendOccupants(store, b) = {i \in Id : \E p \in Pool : SlotsInUse[i] = <<p, b>>}
  <1>1. \A i \in Id, p \in Pool, b \in Backend :
           SlotsInUse[i] = <<p, b>> <=> IsAccounted(store[i]) /\ store[i].pool = p /\ store[i].backend = b
    <2> SUFFICES ASSUME NEW i \in Id, NEW p \in Pool, NEW b \in Backend
                 PROVE  SlotsInUse[i] = <<p, b>> <=>
                           IsAccounted(store[i]) /\ store[i].pool = p /\ store[i].backend = b
      OBVIOUS
    <2>1. None # <<p, b>>
      <3>1. <<p, b>> \in Pool \X Backend
        OBVIOUS
      <3> QED BY <3>1, StoreAssumption
    <2> QED BY <2>1 DEF SlotsInUse
  <1>2. \A i \in Id : IsAccounted(store[i]) => store[i].pool \in Pool
    BY DEF GoodStore, GoodRecord, IsAccounted, AccountedStates
  <1>3. \A p \in Pool, b \in Backend : Occupants(store, p, b) = {i \in Id : SlotsInUse[i] = <<p, b>>}
    BY <1>1 DEF Occupants
  <1>4. \A b \in Backend :
           BackendOccupants(store, b) = {i \in Id : \E p \in Pool : SlotsInUse[i] = <<p, b>>}
    BY <1>1, <1>2 DEF BackendOccupants
  <1> QED BY <1>3, <1>4

\* The limit the scheduler and the store enforce on a backend is at most
\* broker.backendLimits.
LEMMA BackendLimitCovers ==
    ASSUME NEW p \in Pool, NEW b \in Backend, BrokerLimit[b] > 0
    PROVE  BackendLimit(p, b) > 0 /\ BackendLimit(p, b) <= BrokerLimit[b]
  <1>1. BrokerLimit[b] \in Nat /\ CrossPoolMax[p][b] \in Nat
    BY BrokerAssumption
  <1> QED BY <1>1 DEF BackendLimit

\* A check of SaveIfCapacity that succeeds leaves room under both limits.
LEMMA CheckLeavesRoom ==
    ASSUME GoodStore(store), NEW i \in Id, NEW p \in Pool, NEW b \in Backend, MaxRunners[p][b] > 0,
           CapacityAllowed(store, i, p, b, MaxRunners[p][b], BackendLimit(p, b))
    PROVE  /\ Cardinality(Occupants(store, p, b) \ {i}) < MaxRunners[p][b]
           /\ BrokerLimit[b] > 0 => Cardinality(BackendOccupants(store, b) \ {i}) < BrokerLimit[b]
  <1>1. Cardinality(Occupants(store, p, b) \ {i}) < MaxRunners[p][b]
    BY DEF CapacityAllowed
  <1>2. ASSUME BrokerLimit[b] > 0
        PROVE  Cardinality(BackendOccupants(store, b) \ {i}) < BrokerLimit[b]
    <2> DEFINE S == BackendOccupants(store, b) \ {i}
    <2>1. BackendLimit(p, b) > 0 /\ BackendLimit(p, b) <= BrokerLimit[b]
      BY <1>2, BackendLimitCovers
    <2>2. Cardinality(S) < BackendLimit(p, b)
      BY <2>1 DEF CapacityAllowed
    <2>3. Cardinality(S) \in Nat
      <3>1. S \in SUBSET Id
        BY DEF BackendOccupants
      <3> QED BY <3>1, StoreAssumption, FS_Subset, FS_CardinalityType
    <2>4. BackendLimit(p, b) \in Nat /\ BrokerLimit[b] \in Nat
      BY BrokerAssumption DEF BackendLimit
    <2> HIDE DEF S
    <2>5. Cardinality(S) < BrokerLimit[b]
      BY <2>1, <2>2, <2>3, <2>4
    <2> QED BY <2>5 DEF S
  <1> QED BY <1>1, <1>2

\* A step of the slots is a step of the capacity pool.
LEMMA SlotStepRefines ==
    ASSUME GoodStore(store), SlotStep
    PROVE  [Abstract!PoolNext]_SlotsInUse
  <1>1. ASSUME NEW i \in Id, SlotsInUse' = [SlotsInUse EXCEPT ![i] = None] PROVE Abstract!PoolNext
    BY <1>1 DEF Abstract!PoolNext, Abstract!GiveBack
  <1>2. ASSUME NEW i \in Id, NEW p \in Pool, NEW b \in Backend, MaxRunners[p][b] > 0,
               CapacityAllowed(store, i, p, b, MaxRunners[p][b], BackendLimit(p, b)),
               SlotsInUse' = [SlotsInUse EXCEPT ![i] = <<p, b>>]
        PROVE  Abstract!PoolNext
    <2>1. Abstract!Others(i, p, b) = Occupants(store, p, b) \ {i}
      BY OccupantsAreSlots DEF Abstract!Others
    <2>2. Abstract!OthersOnBackend(i, b) = BackendOccupants(store, b) \ {i}
      BY OccupantsAreSlots DEF Abstract!OthersOnBackend
    <2>3. \A S : Abstract!Cardinality(S) = Cardinality(S)
      BY DEF Abstract!Cardinality, Cardinality
    <2>4. Abstract!Grant(i, p, b)
      BY <1>2, <2>1, <2>2, <2>3, CheckLeavesRoom DEF Abstract!Grant
    <2> QED BY <2>4 DEF Abstract!PoolNext
  <1> QED BY <1>1, <1>2 DEF SlotStep

\* The broker implements the capacity pool: with no claim or register callback
\* in flight, every step of every thread grants at most one slot, under both
\* limits, or gives at most one back.
THEOREM CapacityRefinement ==
    ASSUME Claims = {}
    PROVE  Spec => ImplementsCapacityPool
  <1>1. Init => Abstract!PoolInit
    BY DEF Init, NoTodo, NoRecord, SlotsInUse, IsAccounted, AccountedStates, Abstract!PoolInit
  <1>2. Inv /\ [Next]_vars => [Abstract!PoolNext]_SlotsInUse
    BY SlotNext, SlotStepRefines DEF Inv, TypeInv
  <1> QED BY <1>1, <1>2, InvAlways, PTL DEF Spec, ImplementsCapacityPool, Abstract!PoolSpec

-----------------------------------------------------------------------------
(***************************************************************************)
(* The limits hold in the store.                                           *)
(***************************************************************************)

\* One more member than a set that is below a limit does not exceed it.
LEMMA OneMoreFits ==
    ASSUME NEW S, IsFiniteSet(S), NEW x, NEW T \in SUBSET (S \cup {x}), NEW n \in Nat, Cardinality(S) < n
    PROVE  Cardinality(T) <= n
  <1>1. Cardinality(S) \in Nat
    BY FS_CardinalityType
  <1>2. IsFiniteSet(S \cup {x}) /\ Cardinality(S \cup {x}) <= Cardinality(S) + 1
    <2>1. /\ IsFiniteSet(S \cup {x})
          /\ Cardinality(S \cup {x}) = IF x \in S THEN Cardinality(S) ELSE Cardinality(S) + 1
      BY FS_AddElement
    <2> QED BY <1>1, <2>1
  <1>3. IsFiniteSet(T) /\ Cardinality(T) <= Cardinality(S \cup {x})
    BY <1>2, FS_Subset
  <1>4. Cardinality(T) \in Nat /\ Cardinality(S \cup {x}) \in Nat
    BY <1>2, <1>3, FS_CardinalityType
  <1> QED BY <1>1, <1>2, <1>3, <1>4

\* A set within a limit stays within it when it loses members.
LEMMA FewerFit ==
    ASSUME NEW S \in SUBSET Id, NEW T \in SUBSET S, NEW n \in Nat, Cardinality(S) <= n
    PROVE  Cardinality(T) <= n
  <1>1. IsFiniteSet(S)
    BY StoreAssumption, FS_Subset
  <1>2. IsFiniteSet(T) /\ Cardinality(T) <= Cardinality(S)
    BY <1>1, FS_Subset
  <1>3. Cardinality(S) \in Nat /\ Cardinality(T) \in Nat
    BY <1>1, <1>2, FS_CardinalityType
  <1> QED BY <1>2, <1>3

\* A step of the slots keeps the limits.
LEMMA SlotStepKeepsLimits ==
    ASSUME GoodStore(store), GoodStore(store)', SlotStep, StoreCapacity
    PROVE  StoreCapacity'
  <1> DEFINE Occ(p, b) == {i \in Id : SlotsInUse[i] = <<p, b>>}
             BackendOcc(b) == {i \in Id : \E p \in Pool : SlotsInUse[i] = <<p, b>>}
  <1>1. /\ \A p \in Pool, b \in Backend : Occupants(store, p, b) = Occ(p, b)
        /\ \A b \in Backend : BackendOccupants(store, b) = BackendOcc(b)
    BY OccupantsAreSlots
  <1>2. /\ \A p \in Pool, b \in Backend : Occupants(store, p, b)' = Occ(p, b)'
        /\ \A b \in Backend : BackendOccupants(store, b)' = BackendOcc(b)'
    <2>1. (GoodStore(store) =>
             /\ \A p \in Pool, b \in Backend : Occupants(store, p, b) = Occ(p, b)
             /\ \A b \in Backend : BackendOccupants(store, b) = BackendOcc(b))'
      BY OccupantsAreSlots, PTL
    <2> QED BY <2>1
  <1>3. /\ \A p \in Pool, b \in Backend : MaxRunners[p][b] \in Nat
        /\ \A b \in Backend : BrokerLimit[b] \in Nat
    BY BrokerAssumption
  <1>4. DOMAIN SlotsInUse = Id
    BY DEF SlotsInUse
  <1>5. ASSUME NEW i \in Id, \A j \in Id \ {i} : SlotsInUse'[j] = SlotsInUse[j],
               NEW p \in Pool, NEW b \in Backend, SlotsInUse'[i] = <<p, b>>, MaxRunners[p][b] > 0,
               CapacityAllowed(store, i, p, b, MaxRunners[p][b], BackendLimit(p, b))
        PROVE  StoreCapacity'
    <2>1. /\ Cardinality(Occ(p, b) \ {i}) < MaxRunners[p][b]
          /\ BrokerLimit[b] > 0 => Cardinality(BackendOcc(b) \ {i}) < BrokerLimit[b]
      BY <1>1, <1>5, CheckLeavesRoom
    <2>2. ASSUME NEW q \in Pool, NEW c \in Backend PROVE Cardinality(Occ(q, c)') <= MaxRunners[q][c]
      <3>1. CASE q = p /\ c = b
        <4>1. Occ(q, c)' \in SUBSET ((Occ(p, b) \ {i}) \cup {i})
          BY <1>5, <3>1
        <4>2. Occ(p, b) \ {i} \in SUBSET Id
          OBVIOUS
        <4>3. IsFiniteSet(Occ(p, b) \ {i})
          BY <4>2, StoreAssumption, FS_Subset
        <4> QED BY <1>3, <2>1, <3>1, <4>1, <4>3, OneMoreFits
      <3>2. CASE ~(q = p /\ c = b)
        <4>1. Occ(q, c)' \in SUBSET Occ(q, c) /\ Occ(q, c) \in SUBSET Id
          BY <1>5, <3>2
        <4>2. Cardinality(Occ(q, c)) <= MaxRunners[q][c]
          BY <1>1 DEF StoreCapacity
        <4> QED BY <1>3, <4>1, <4>2, FewerFit
      <3> QED BY <3>1, <3>2
    <2>3. ASSUME NEW c \in Backend, BrokerLimit[c] > 0 PROVE Cardinality(BackendOcc(c)') <= BrokerLimit[c]
      <3>1. CASE c = b
        <4>1. BackendOcc(c)' \in SUBSET ((BackendOcc(b) \ {i}) \cup {i})
          BY <1>5, <3>1
        <4>2. BackendOcc(b) \ {i} \in SUBSET Id
          OBVIOUS
        <4>3. IsFiniteSet(BackendOcc(b) \ {i})
          BY <4>2, StoreAssumption, FS_Subset
        <4> QED BY <1>3, <2>1, <2>3, <3>1, <4>1, <4>3, OneMoreFits
      <3>2. CASE c # b
        <4>1. BackendOcc(c)' \in SUBSET BackendOcc(c) /\ BackendOcc(c) \in SUBSET Id
          BY <1>5, <3>2
        <4>2. Cardinality(BackendOcc(c)) <= BrokerLimit[c]
          BY <1>1, <2>3 DEF StoreCapacity
        <4> QED BY <1>3, <4>1, <4>2, FewerFit
      <3> QED BY <3>1, <3>2
    <2> QED BY <1>2, <2>2, <2>3 DEF StoreCapacity
  <1>6. ASSUME \A j \in Id : SlotsInUse'[j] = SlotsInUse[j] \/ SlotsInUse'[j] = None
        PROVE  StoreCapacity'
    <2>1. \A p \in Pool, b \in Backend : None # <<p, b>>
      <3>1. \A p \in Pool, b \in Backend : <<p, b>> \in Pool \X Backend
        OBVIOUS
      <3> QED BY <3>1, StoreAssumption
    <2>2. ASSUME NEW q \in Pool, NEW c \in Backend PROVE Cardinality(Occ(q, c)') <= MaxRunners[q][c]
      <3>1. Occ(q, c)' \in SUBSET Occ(q, c) /\ Occ(q, c) \in SUBSET Id
        BY <1>6, <2>1
      <3>2. Cardinality(Occ(q, c)) <= MaxRunners[q][c]
        BY <1>1 DEF StoreCapacity
      <3> QED BY <1>3, <3>1, <3>2, FewerFit
    <2>3. ASSUME NEW c \in Backend, BrokerLimit[c] > 0 PROVE Cardinality(BackendOcc(c)') <= BrokerLimit[c]
      <3>1. BackendOcc(c)' \in SUBSET BackendOcc(c) /\ BackendOcc(c) \in SUBSET Id
        BY <1>6, <2>1
      <3>2. Cardinality(BackendOcc(c)) <= BrokerLimit[c]
        BY <1>1, <2>3 DEF StoreCapacity
      <3> QED BY <1>3, <3>1, <3>2, FewerFit
    <2> QED BY <1>2, <2>2, <2>3 DEF StoreCapacity
  <1>7. CASE UNCHANGED SlotsInUse
    BY <1>6, <1>7
  <1>8. ASSUME NEW i \in Id, SlotsInUse' = [SlotsInUse EXCEPT ![i] = None] PROVE StoreCapacity'
    BY <1>4, <1>6, <1>8
  <1>9. ASSUME NEW i \in Id, NEW p \in Pool, NEW b \in Backend, MaxRunners[p][b] > 0,
               CapacityAllowed(store, i, p, b, MaxRunners[p][b], BackendLimit(p, b)),
               SlotsInUse' = [SlotsInUse EXCEPT ![i] = <<p, b>>]
        PROVE  StoreCapacity'
    BY <1>4, <1>5, <1>9
  <1> QED BY <1>7, <1>8, <1>9 DEF SlotStep

\* The limits of the configuration hold in the store at all times: with no
\* claim or register callback in flight, there are never more than maxRunners
\* reserved and ready records of a pool on a backend, nor more than
\* broker.backendLimits of all pools together, for any number of threads and
\* although the scheduler's counters can be released twice.
THEOREM CapacityKept ==
    ASSUME Claims = {}
    PROVE  Spec => []StoreCapacity
  <1>1. Init => StoreCapacity
    <2> SUFFICES ASSUME Init PROVE StoreCapacity
      OBVIOUS
    <2>1. /\ \A p \in Pool, b \in Backend : Occupants(store, p, b) = {}
          /\ \A b \in Backend : BackendOccupants(store, b) = {}
      BY DEF Init, NoTodo, NoRecord, Occupants, BackendOccupants, IsAccounted, AccountedStates
    <2>2. \A n \in Nat : Cardinality({}) <= n
      BY FS_EmptySet
    <2>3. /\ \A p \in Pool, b \in Backend : MaxRunners[p][b] \in Nat
          /\ \A b \in Backend : BrokerLimit[b] \in Nat
      BY BrokerAssumption
    <2> QED BY <2>1, <2>2, <2>3 DEF StoreCapacity
  <1>2. StoreCapacity /\ Inv /\ Inv' /\ [Next]_vars => StoreCapacity'
    BY SlotNext, SlotStepKeepsLimits DEF Inv, TypeInv
  <1> QED BY <1>1, <1>2, InvAlways, PTL DEF Spec
=============================================================================
