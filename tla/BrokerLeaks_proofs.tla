------------------------- MODULE BrokerLeaks_proofs -------------------------
(***************************************************************************)
(* Nothing is forgotten, for every configuration: a pinned request stays on *)
(* its backend, and in a broker without a queue and without claim callbacks *)
(* in flight a finished allocation stays finished, every slot of the       *)
(* scheduler is answered for and so is every runner at a provider.         *)
(*                                                                         *)
(* Why these hypotheses.  With the queue enabled a completion that read a  *)
(* pending record releases nothing although the queue loop has reserved it *)
(* since, and the queue loop writes a canceled record back; a claim writes *)
(* back whatever it read.  Then a slot or a runner is lost, or a finished  *)
(* record revived.                                                         *)
(***************************************************************************)
EXTENDS BrokerCapacity_proofs

-----------------------------------------------------------------------------
(***************************************************************************)
(* Pins.                                                                   *)
(***************************************************************************)

\* A pinned thread asks the scheduler for its backend and for nothing else,
\* and the backend it got is the one it asked for.
PinKept(w) ==
    w.pin # None =>
        /\ w.pc = "reserve" => w.want = w.pin /\ ~w.first
        /\ w.sel # None => w.sel = w.pin

PinsKept == \A t \in Workers : PinKept(worker[t])

\* A thread that goes to a place where its pin is kept.
LEMMA GotoPin ==
    ASSUME TypeInv, PinsKept, NEW t \in Workers, NEW v, PinKept(v), Goto(t, v)
    PROVE  PinsKept'
  BY DEF TypeInv, GoodWorkers, PinsKept, Goto

\* A thread that has not selected a backend and is not about to.
LEMMA NoPin ==
    ASSUME NEW v, v.sel = None, v.pc # "reserve"
    PROVE  PinKept(v)
  BY DEF PinKept

\* Returning, failing and queueing drop the selection.
LEMMA EndPin ==
    ASSUME TypeInv, PinsKept, NEW t \in Workers
    PROVE  /\ Return(t) => PinsKept'
           /\ \A kind : Fail(t, kind) => PinsKept'
           /\ \A i, b, pin, kind : QueueOrFail(t, i, b, pin, kind) => PinsKept'
  <1>1. \A pc \in WorkerPC : NoWork(pc).sel = None /\ NoWork(pc).pc = pc
    BY DEF NoWork
  <1>2. Return(t) => PinsKept'
    <2> DEFINE v == NoWork(IF t = Queue THEN "idle" ELSE "done")
    <2>1. v.sel = None /\ v.pc # "reserve"
      BY DEF NoWork
    <2> HIDE DEF v
    <2>2. PinKept(v)
      BY <2>1, NoPin
    <2> QED BY <2>2, GotoPin DEF Return, v
  <1>3. ASSUME NEW kind, Fail(t, kind) PROVE PinsKept'
    <2> DEFINE v == IF t = Queue
                    THEN [NoWork("exit") EXCEPT !.id = worker[t].id, !.snap = worker[t].snap, !.err = kind]
                    ELSE NoWork("done")
    <2>1. Goto(t, v)
      BY <1>3 DEF Fail
    <2>2. v.sel = None /\ v.pc # "reserve"
      BY DEF NoWork
    <2> HIDE DEF v
    <2> QED BY <2>1, <2>2, NoPin, GotoPin
  <1>4. \A i, b, pin, kind : QueueOrFail(t, i, b, pin, kind) => Return(t) \/ Fail(t, kind)
    BY DEF QueueOrFail
  <1> QED BY <1>2, <1>3, <1>4

\* The steps of allocateNow keep the pins, unless a rate limit may drop them.
LEMMA AllocateStepPin ==
    ASSUME TypeInv, PinsKept, NEW t \in Workers, AllocateStep(t), "rate-limited" \notin Denials
    PROVE  PinsKept'
  <1> DEFINE w == worker[t]
  <1>1. w \in Worker /\ PinKept(w) /\ GoodWorker(t, w)
    BY DEF TypeInv, GoodWorkers, PinsKept
  <1>2. w.pin \in Backend \cup {None, "rerouted"} /\ w.sel \in Backend \cup {None}
    BY <1>1 DEF Worker
  <1>3. ASSUME NEW B, NEW dropPin, Filter(t, B, dropPin) PROVE PinsKept'
    <2> DEFINE want == IF dropPin THEN None ELSE w.pin
               lane == FirstLane(w.pool, B, want)
               v == [w EXCEPT !.pc = "reserve", !.elig = B,
                              !.pin = IF dropPin THEN "rerouted" ELSE @,
                              !.lane = lane.lane, !.want = lane.want, !.first = lane.first]
    <2>1. Goto(t, v) /\ ~dropPin
      BY <1>3 DEF Filter
    <2>2. want = w.pin
      BY <2>1
    <2>3. w.pin # None => lane.want = w.pin /\ lane.first = FALSE
      <3> HIDE DEF want
      <3> QED BY <2>2 DEF FirstLane
    <2> HIDE DEF lane
    <2>4. v.pin = w.pin /\ v.want = lane.want /\ v.first = lane.first /\ v.sel = w.sel
      BY <1>1, <2>1 DEF Worker
    <2> HIDE DEF v
    <2>5. PinKept(v)
      BY <1>1, <2>3, <2>4 DEF PinKept
    <2> QED BY <2>1, <2>5, GotoPin
  <1>4. ASSUME NEW b \in Backend, Reserve(t, b) PROVE PinsKept'
    <2> DEFINE v == [w EXCEPT !.pc = "admit", !.sel = b, !.first = FALSE]
    <2>1. w.pc = "reserve" /\ Goto(t, v) /\ b \in Candidates(w)
      BY <1>4 DEF Reserve, At
    <2>2. w.want # None => b = w.want
      BY <2>1 DEF Candidates
    <2>3. v.pin = w.pin /\ v.sel = b /\ v.pc = "admit"
      BY <1>1 DEF Worker
    <2> HIDE DEF v
    <2>4. PinKept(v)
      BY <1>1, <2>1, <2>2, <2>3 DEF PinKept
    <2> QED BY <2>1, <2>4, GotoPin
  <1>5. ASSUME Saturated(t) PROVE PinsKept'
    <2> DEFINE v == [w EXCEPT !.first = FALSE, !.want = None, !.lane = FallbackBackends(w.elig)]
    <2>1. w.pc = "reserve" /\ w.first /\ Goto(t, v)
      BY <1>5 DEF Saturated, At
    <2>2. w.pin = None
      BY <1>1, <2>1 DEF PinKept
    <2>3. v.pin = w.pin
      BY <1>1 DEF Worker
    <2> HIDE DEF v
    <2>4. PinKept(v)
      BY <2>2, <2>3 DEF PinKept
    <2> QED BY <2>1, <2>4, GotoPin
  <1>6. ASSUME NEW pc \in Deciding \cup {"save", "retry"},
               NEW v, v = [w EXCEPT !.pc = pc] \/ (\E e : v = [w EXCEPT !.pc = pc, !.err = e])
                      \/ (\E i : v = [w EXCEPT !.pc = pc, !.id = i]),
               Goto(t, v)
        PROVE  PinsKept'
    <2>1. v.pin = w.pin /\ v.sel = w.sel /\ v.pc = pc
      BY <1>1, <1>6 DEF Worker
    <2>2. PinKept(v)
      BY <1>1, <2>1 DEF PinKept, Deciding
    <2> QED BY <1>6, <2>2, GotoPin
  <1>7. ASSUME NEW v, v.pin = None, Goto(t, v) PROVE PinsKept'
    <2>1. PinKept(v)
      BY <1>7 DEF PinKept
    <2> QED BY <1>7, <2>1, GotoPin
  <1>8. ASSUME DenyCircuitOpen(t) PROVE PinsKept'
    <2> DEFINE v == [w EXCEPT !.pc = "reserve", !.want = None, !.sel = None, !.lane = FallbackBackends(w.elig)]
    <2>1. CASE Goto(t, v) /\ w.pin = None
      <3>1. v.pin = w.pin
        BY <1>1 DEF Worker
      <3> HIDE DEF v
      <3> QED BY <1>7, <2>1, <3>1
    <2> QED BY <1>8, <2>1, EndPin DEF DenyCircuitOpen, LeavesARC
  <1>9. ASSUME Abandon(t) PROVE PinsKept'
    <2>1. Goto(t, [w EXCEPT !.pc = "retry"]) \/ (\E kind : Fail(t, kind))
      BY <1>9 DEF Abandon
    <2> QED BY <1>6, <2>1, EndPin
  <1>10. ASSUME NEW rest, Reroute(t, rest), w.pin = None \/ rest = {} PROVE PinsKept'
    <2> DEFINE v == [w EXCEPT !.pc = "reserve", !.want = None, !.sel = None, !.lane = rest, !.err = "none",
                              !.id = IF t = Queue THEN @ ELSE None]
    <2>1. CASE Goto(t, v) /\ w.pin = None
      <3>1. v.pin = w.pin
        BY <1>1 DEF Worker
      <3> HIDE DEF v
      <3> QED BY <1>7, <2>1, <3>1
    <2> QED BY <1>10, <2>1, EndPin DEF Reroute
  <1>11. ASSUME RetryCapacity(t) PROVE PinsKept'
    <2> DEFINE rest == IF w.pin = w.sel THEN {}
                       ELSE IF w.sel = ARC /\ w.pin = None THEN FallbackBackends(w.elig)
                       ELSE w.lane \ {w.sel}
    <2>1. w.pc = "retry" /\ Reroute(t, rest)
      BY <1>11 DEF RetryCapacity, At
    <2>2. w.sel # None
      BY <1>1, <2>1, StoreAssumption DEF GoodWorker, WithSlot
    <2>3. w.pin = None \/ rest = {}
      BY <1>1, <2>2 DEF PinKept
    <2> HIDE DEF rest
    <2> QED BY <1>10, <2>1, <2>3
  <1>12. ASSUME RetryARC(t) PROVE PinsKept'
    BY <1>10, <1>12 DEF RetryARC, LeavesARC
  <1>13. /\ \A kind : FilterRejects(t, kind) => PinsKept'
         /\ NoCapacity(t) => PinsKept'
         /\ SaveRefused(t) => PinsKept'
         /\ MarkMissing(t) => PinsKept'
         /\ Commit(t) => PinsKept'
         /\ RetryQueue(t) => PinsKept'
    BY EndPin DEF FilterRejects, NoCapacity, SaveRefused, MarkMissing, Commit, RetryQueue
  <1>14. /\ Admit(t) => PinsKept'
         /\ SaveReserved(t) => PinsKept'
         /\ BackendMissing(t) => PinsKept'
         /\ ProvisionOK(t) => PinsKept'
         /\ \A kind : ProvisionErr(t, kind) => PinsKept'
    BY <1>6 DEF Admit, SaveReserved, BackendMissing, ProvisionOK, ProvisionErr, Deciding
  <1>15. ~DenyRateLimited(t)
    BY DEF DenyRateLimited
  <1> QED BY <1>3, <1>4, <1>5, <1>8, <1>9, <1>11, <1>12, <1>13, <1>14, <1>15 DEF AllocateStep

\* So does every step of the broker.
LEMMA PinNext ==
    ASSUME TypeInv, PinsKept, [Next]_vars, "rate-limited" \notin Denials
    PROVE  PinsKept'
  <1>1. ASSUME UNCHANGED worker PROVE PinsKept'
    BY <1>1 DEF PinsKept
  <1>2. ASSUME NEW t \in Requests, NEW p, NEW pin, Allocate(t, p, pin) PROVE PinsKept'
    <2> DEFINE v == [NoWork("filter") EXCEPT !.pool = p, !.pin = pin]
    <2>1. v.sel = None /\ v.pc # "reserve" /\ Goto(t, v)
      BY <1>2 DEF NoWork, Allocate
    <2> HIDE DEF v
    <2> QED BY <2>1, NoPin, GotoPin DEF Workers
  <1>3. ASSUME QueueStep PROVE PinsKept'
    <2>1. \A i, to : QueueList \/ QueueKeep(i) \/ QueueDrop(i, to) => PinsKept'
      BY <1>1 DEF QueueList, QueueKeep, QueueDrop
    <2>2. ASSUME NEW i, QueueRetry(i) PROVE PinsKept'
      <3> DEFINE new == [queue[i] EXCEPT !.attempts = @ + 1]
                 v == [NoWork("filter") EXCEPT !.pool = queue[i].pool, !.pin = queue[i].pin,
                                               !.id = i, !.snap = new]
      <3>1. v.sel = None /\ v.pc # "reserve" /\ Goto(Queue, v)
        BY <2>2 DEF NoWork, QueueRetry
      <3> HIDE DEF v
      <3> QED BY <3>1, NoPin, GotoPin DEF Workers
    <2>3. ASSUME QueueExit PROVE PinsKept'
      <3> DEFINE v == NoWork("idle")
      <3>1. v.sel = None /\ v.pc # "reserve" /\ Goto(Queue, v)
        BY <2>3 DEF NoWork, QueueExit
      <3> HIDE DEF v
      <3> QED BY <3>1, NoPin, GotoPin DEF Workers
    <2> QED BY <1>3, <2>1, <2>2, <2>3, AllocateStepPin DEF QueueStep, Workers
  <1>4. \A c, i, to : Cancel(c, i) \/ CompleteRead(c, i, to) \/ CompleteMark(c) \/ ClaimRead(c, i, to) \/ ClaimSave(c)
                      => PinsKept'
    BY <1>1 DEF Cancel, CompleteRead, CompleteMark, ClaimRead, ClaimSave, ReadForWrite
  <1>5. SweepStep => PinsKept'
    BY <1>1 DEF SweepStep, SweepList, SweepUnregistered, SweepJobTimeout, SweepQuarantine, SweepKeep,
                SweepPrune, Reap
  <1>6. \A a : TailStep(a) => PinsKept'
    BY <1>1 DEF TailStep, Release, Cleanup, CleanupFails
  <1>7. UNCHANGED vars => PinsKept'
    BY <1>1 DEF vars
  <1> QED BY <1>2, <1>3, <1>4, <1>5, <1>6, <1>7, AllocateStepPin DEF Next, Workers

\* A pin is kept: unless admission may refuse a backend with a rate limit, a
\* request that names a backend takes no slot anywhere else, whatever the
\* provider refuses, the queue retries or a callback writes back.
THEOREM PinsAreHonoured == Spec => []PinHonoured
  <1>1. Init => PinsKept
    BY DEF Init, PinsKept, PinKept, NoWork
  <1>2. TypeInv /\ PinsKept /\ [Next]_vars /\ "rate-limited" \notin Denials => PinsKept'
    BY PinNext
  <1>3. CASE "rate-limited" \notin Denials
    <2>1. PinsKept => PinHonoured
      BY DEF PinsKept, PinKept, PinHonoured
    <2>2. TypeInv /\ PinsKept /\ [Next]_vars => PinsKept'
      BY <1>2, <1>3
    <2> QED BY <1>1, <2>1, <2>2, TypeInit, TypeNext, PTL DEF Spec
  <1>4. CASE "rate-limited" \in Denials
    <2>1. PinHonoured
      BY <1>4 DEF PinHonoured
    <2> QED BY <2>1, PTL
  <1> QED BY <1>3, <1>4

-----------------------------------------------------------------------------
(***************************************************************************)
(* What a request does, without the detail of its lanes: where the thread  *)
(* goes, and what happens to the slot, the record, the runner and the      *)
(* release that are in its hands.  Only requests run allocateNow when there *)
(* is no queue.                                                            *)
(***************************************************************************)
Moves(t, from, to) ==
    /\ worker[t].pc \in from /\ worker'[t].pc \in to
    /\ \A u \in Workers \ {t} : worker'[u] = worker[u]

SameSlot(t) == worker'[t].pool = worker[t].pool /\ worker'[t].sel = worker[t].sel

SameId(t) == worker'[t].id = worker[t].id

\* It looks for a backend, gives up, or leaves the scheduler without a slot.
Looks(t) ==
    /\ Moves(t, {"idle", "filter", "reserve"}, {"filter", "reserve", "done"})
    /\ UNCHANGED <<store, active, runners, fresh, tail>>

TakesSlot(t) ==
    /\ Moves(t, {"reserve"}, {"admit"})
    /\ active' = [active EXCEPT ![<<worker'[t].pool, worker'[t].sel>>] = @ + 1]
    /\ UNCHANGED <<store, runners, fresh, tail>>

Passes(t) ==
    /\ Moves(t, {"admit"}, {"save"}) /\ SameSlot(t)
    /\ UNCHANGED <<store, active, runners, fresh, tail>>

GivesBack(t) ==
    /\ Moves(t, {"admit"}, {"reserve", "done"})
    /\ ReleaseSlot(worker[t].pool, worker[t].sel)
    /\ UNCHANGED <<store, runners, fresh, tail>>

Reserves(t) ==
    /\ Moves(t, {"save"}, {"provision"}) /\ SameSlot(t)
    /\ \E i \in fresh :
          /\ worker'[t].id = i /\ fresh' = fresh \ {i}
          /\ \A j \in Id \ {i} : store'[j] = store[j]
          /\ store'[i].state = "reserved"
          /\ store'[i].pool = worker[t].pool /\ store'[i].backend = worker[t].sel
    /\ UNCHANGED <<active, runners, tail>>

IsRefused(t) ==
    /\ Moves(t, {"save"}, {"done"})
    /\ tail[t] = NoTail /\ SetTail(t, ReleaseTail(worker[t].id, worker[t].pool, worker[t].sel))
    /\ UNCHANGED <<store, active, runners, fresh>>

FindsNoBackend(t) ==
    /\ Moves(t, {"provision"}, {"missing"}) /\ SameSlot(t) /\ SameId(t)
    /\ tail[t] = NoTail /\ SetTail(t, ReleaseTail(worker[t].id, worker[t].pool, worker[t].sel))
    /\ UNCHANGED <<store, active, runners, fresh>>

\* The record of the thread is marked failed when it exists.
MarksFailed(t) ==
    /\ \A j \in Id \ {worker[t].id} : store'[j] = store[j]
    /\ store'[worker[t].id].state \in {"absent", "failed"}

MarksMissing(t) ==
    /\ Moves(t, {"missing"}, {"done"}) /\ MarksFailed(t)
    /\ UNCHANGED <<active, runners, fresh, tail>>

GetsRunner(t) ==
    /\ Moves(t, {"provision"}, {"commit"}) /\ SameSlot(t) /\ SameId(t)
    /\ worker[t].sel \in Registered
    /\ runners' = runners \cup {<<worker[t].id, worker[t].sel>>}
    /\ UNCHANGED <<store, active, fresh, tail>>

GetsError(t) ==
    /\ Moves(t, {"provision"}, {"abandon"}) /\ SameSlot(t) /\ SameId(t)
    /\ UNCHANGED <<store, active, runners, fresh, tail>>

Commits(t) ==
    /\ Moves(t, {"commit"}, {"done"})
    /\ store[worker[t].id].state = "reserved"
    /\ \A j \in Id \ {worker[t].id} : store'[j] = store[j]
    /\ store'[worker[t].id].state = "ready"
    /\ store'[worker[t].id].pool = worker[t].pool /\ store'[worker[t].id].backend = worker[t].sel
    /\ UNCHANGED <<active, runners, fresh, tail>>

LosesCommit(t) ==
    /\ Moves(t, {"commit"}, {"done"})
    /\ store[worker[t].id].state # "reserved"
    /\ tail[t] = NoTail /\ SetTail(t, CleanupTail(worker[t].id, worker[t].pool, worker[t].sel))
    /\ UNCHANGED <<store, active, runners, fresh>>

Abandons(t) ==
    /\ Moves(t, {"abandon"}, {"retry"}) /\ SameSlot(t) /\ SameId(t)
    /\ store[worker[t].id].state = "reserved" /\ MarksFailed(t)
    /\ tail[t] = NoTail /\ SetTail(t, ReleaseTail(worker[t].id, worker[t].pool, worker[t].sel))
    /\ UNCHANGED <<active, runners, fresh>>

LosesReservation(t) ==
    /\ Moves(t, {"abandon"}, {"retry", "done"})
    /\ worker'[t].pc = "retry" => SameId(t)
    /\ store[worker[t].id].state # "reserved"
    /\ UNCHANGED <<store, active, runners, fresh, tail>>

Retries(t) ==
    /\ Moves(t, {"retry"}, {"reserve", "done"})
    /\ \A j \in Id \ {worker[t].id} : store'[j] = store[j]
    /\ store'[worker[t].id] = store[worker[t].id] \/ store'[worker[t].id].state = "absent"
    /\ UNCHANGED <<active, runners, fresh, tail>>

RequestStep(t) ==
    /\ \/ Looks(t) \/ TakesSlot(t) \/ Passes(t) \/ GivesBack(t) \/ Reserves(t) \/ IsRefused(t)
       \/ FindsNoBackend(t) \/ MarksMissing(t) \/ GetsRunner(t) \/ GetsError(t) \/ Commits(t)
       \/ LosesCommit(t) \/ Abandons(t) \/ LosesReservation(t) \/ Retries(t)
    /\ UNCHANGED <<call, sweep>>

\* Where Goto leads, for the thread that moves and for the others.
LEMMA GotoMoves ==
    ASSUME TypeInv, NEW t \in Workers, NEW v, Goto(t, v)
    PROVE  worker'[t] = v /\ \A u \in Workers \ {t} : worker'[u] = worker[u]
  BY DEF TypeInv, GoodWorkers, Goto

\* A request that ends is done.
LEMMA RequestEnds ==
    ASSUME TypeInv, NEW t \in Requests, ~QueueEnabled
    PROVE  /\ Return(t) => Moves(t, {worker[t].pc}, {"done"})
           /\ \A kind : Fail(t, kind) => Moves(t, {worker[t].pc}, {"done"})
           /\ \A i, b, pin, kind : QueueOrFail(t, i, b, pin, kind) =>
                 Moves(t, {worker[t].pc}, {"done"}) /\ UNCHANGED <<store, fresh>>
  <1>1. t \in Workers /\ t # Queue
    BY BrokerAssumption DEF Workers
  <1>2. NoWork("done").pc = "done"
    BY DEF NoWork
  <1>3. Goto(t, NoWork("done")) => Moves(t, {worker[t].pc}, {"done"})
    BY <1>1, <1>2, GotoMoves DEF Moves
  <1>4. Return(t) => Moves(t, {worker[t].pc}, {"done"})
    BY <1>1, <1>3 DEF Return
  <1>5. \A kind : Fail(t, kind) => Moves(t, {worker[t].pc}, {"done"})
    BY <1>1, <1>3 DEF Fail
  <1>6. \A i, b, pin, kind : QueueOrFail(t, i, b, pin, kind) => Fail(t, kind) /\ UNCHANGED <<store, fresh>>
    BY DEF QueueOrFail, CanQueue
  <1> QED BY <1>4, <1>5, <1>6

\* Marking the record of a thread.
LEMMA MarkFailed ==
    ASSUME TypeInv, NEW t \in Workers, worker[t].id \in Id, store' = MarkState(store, worker[t].id, "failed")
    PROVE  MarksFailed(t)
  <1>1. \A i \in Id : store[i] \in Record
    BY DEF TypeInv, GoodStore
  <1> QED BY <1>1 DEF MarkState, Record, TypeInv, GoodStore, MarksFailed

\* Every step of allocateNow has one of these shapes.
LEMMA RequestShapes ==
    ASSUME TypeInv, NEW t \in Requests, AllocateStep(t), ~QueueEnabled
    PROVE  RequestStep(t)
  <1> DEFINE w == worker[t]
  <1>1. t \in Workers /\ t # Queue /\ w \in Worker /\ GoodWorker(t, w)
    BY BrokerAssumption DEF Workers, TypeInv, GoodWorkers
  <1>2. w.pc \in WithId => w.id \in Id
    BY <1>1 DEF GoodWorker
  <1>3. ASSUME NEW B, NEW dropPin, Filter(t, B, dropPin) PROVE RequestStep(t)
    <2> DEFINE want == IF dropPin THEN None ELSE w.pin
               lane == FirstLane(w.pool, B, want)
               v == [w EXCEPT !.pc = "reserve", !.elig = B,
                              !.pin = IF dropPin THEN "rerouted" ELSE @,
                              !.lane = lane.lane, !.want = lane.want, !.first = lane.first]
    <2>1. w.pc = "filter" /\ Goto(t, v) /\ UNCHANGED <<store, active, runners, fresh, tail, call, sweep>>
      BY <1>3 DEF Filter, At
    <2>2. v.pc = "reserve"
      BY <1>1 DEF Worker
    <2> HIDE DEF v
    <2>3. Looks(t)
      BY <1>1, <2>1, <2>2, GotoMoves DEF Looks, Moves
    <2> QED BY <2>1, <2>3 DEF RequestStep
  <1>4. ASSUME NEW kind, FilterRejects(t, kind) PROVE RequestStep(t)
    BY <1>4, RequestEnds DEF FilterRejects, At, Looks, Moves, RequestStep
  <1>5. ASSUME NEW b \in Backend, Reserve(t, b) PROVE RequestStep(t)
    <2> DEFINE v == [w EXCEPT !.pc = "admit", !.sel = b, !.first = FALSE]
    <2>1. /\ w.pc = "reserve" /\ Goto(t, v) /\ UNCHANGED <<store, runners, fresh, tail, call, sweep>>
          /\ active' = [active EXCEPT ![<<w.pool, b>>] = @ + 1]
      BY <1>5 DEF Reserve, At
    <2>2. v.pc = "admit" /\ v.sel = b /\ v.pool = w.pool
      BY <1>1 DEF Worker
    <2> HIDE DEF v
    <2>3. TakesSlot(t)
      BY <1>1, <2>1, <2>2, GotoMoves DEF TakesSlot, Moves
    <2> QED BY <2>1, <2>3 DEF RequestStep
  <1>6. ASSUME Saturated(t) PROVE RequestStep(t)
    <2> DEFINE v == [w EXCEPT !.first = FALSE, !.want = None, !.lane = FallbackBackends(w.elig)]
    <2>1. w.pc = "reserve" /\ Goto(t, v) /\ UNCHANGED <<store, active, runners, fresh, tail, call, sweep>>
      BY <1>6 DEF Saturated, At
    <2>2. v.pc = w.pc
      BY <1>1 DEF Worker
    <2> HIDE DEF v
    <2>3. Looks(t)
      BY <1>1, <2>1, <2>2, GotoMoves DEF Looks, Moves
    <2> QED BY <2>1, <2>3 DEF RequestStep
  <1>7. ASSUME NoCapacity(t) PROVE RequestStep(t)
    BY <1>7, RequestEnds DEF NoCapacity, At, Looks, Moves, RequestStep
  <1>8. ASSUME NEW pc, NEW v, v = [w EXCEPT !.pc = pc] \/ (\E e : v = [w EXCEPT !.pc = pc, !.err = e]),
               Goto(t, v)
        PROVE  Moves(t, {w.pc}, {pc}) /\ SameSlot(t) /\ SameId(t)
    <2>1. v.pc = pc /\ v.pool = w.pool /\ v.sel = w.sel /\ v.id = w.id
      BY <1>1, <1>8 DEF Worker
    <2> QED BY <1>1, <1>8, <2>1, GotoMoves DEF Moves, SameSlot, SameId
  <1>9. ASSUME Admit(t) PROVE RequestStep(t)
    <2>1. Passes(t) /\ UNCHANGED <<call, sweep>>
      BY <1>8, <1>9 DEF Admit, At, Passes
    <2> QED BY <2>1 DEF RequestStep
  <1>10. ASSUME DenyCircuitOpen(t) PROVE RequestStep(t)
    <2> DEFINE v == [w EXCEPT !.pc = "reserve", !.want = None, !.sel = None, !.lane = FallbackBackends(w.elig)]
    <2>1. v.pc = "reserve"
      BY <1>1 DEF Worker
    <2>2. /\ w.pc = "admit" /\ ReleaseSlot(w.pool, w.sel) /\ UNCHANGED <<runners, tail, call, sweep>>
          /\ \/ Goto(t, v) /\ UNCHANGED <<store, fresh>>
             \/ QueueOrFail(t, w.id, w.sel, w.want, "circuit-open")
      BY <1>10 DEF DenyCircuitOpen, At
    <2> HIDE DEF v
    <2>3. Moves(t, {"admit"}, {"reserve", "done"}) /\ UNCHANGED <<store, fresh>>
      BY <1>1, <2>1, <2>2, GotoMoves, RequestEnds DEF Moves
    <2> QED BY <2>2, <2>3 DEF GivesBack, RequestStep
  <1>11. ASSUME DenyRateLimited(t) PROVE RequestStep(t)
    <2> DEFINE rest == IF LeavesARC(w) THEN FallbackBackends(w.elig) ELSE w.lane \ {w.sel}
               v == [w EXCEPT !.pc = "reserve", !.want = None, !.sel = None, !.lane = rest]
    <2>1. v.pc = "reserve"
      BY <1>1 DEF Worker
    <2>2. /\ w.pc = "admit" /\ ReleaseSlot(w.pool, w.sel)
          /\ UNCHANGED <<store, runners, fresh, tail, call, sweep>>
          /\ Goto(t, v) \/ Fail(t, "rate-limited")
      BY <1>11 DEF DenyRateLimited, At
    <2> HIDE DEF v
    <2>3. Moves(t, {"admit"}, {"reserve", "done"})
      BY <1>1, <2>1, <2>2, GotoMoves, RequestEnds DEF Moves
    <2> QED BY <2>2, <2>3 DEF GivesBack, RequestStep
  <1>12. ASSUME SaveReserved(t) PROVE RequestStep(t)
    <2> DEFINE i == CHOOSE x \in fresh : TRUE
               r == RecordOf(w, "reserved", w.sel, w.want)
               v == [w EXCEPT !.pc = "provision", !.id = i]
    <2>1. /\ w.pc = "save" /\ fresh # {} /\ store' = Save(store, i, r) /\ fresh' = fresh \ {i} /\ Goto(t, v)
          /\ UNCHANGED <<active, runners, tail, call, sweep>>
      BY <1>1, <1>12 DEF SaveReserved, At
    <2>2. i \in fresh /\ i \in Id
      BY <2>1 DEF TypeInv
    <2>3. r.state = "reserved" /\ r.pool = w.pool /\ r.backend = w.sel
      BY <1>1 DEF RecordOf, Worker, Record
    <2> HIDE DEF i, r
    <2>4. v.pc = "provision" /\ v.id = i /\ v.pool = w.pool /\ v.sel = w.sel
      BY <1>1 DEF Worker
    <2> HIDE DEF v
    <2>5. (\A j \in Id \ {i} : store'[j] = store[j]) /\ store'[i] = r
      BY <2>1, <2>2 DEF Save, TypeInv, GoodStore
    <2>6. Reserves(t)
      BY <1>1, <2>1, <2>2, <2>3, <2>4, <2>5, GotoMoves DEF Reserves, Moves, SameSlot
    <2> QED BY <2>1, <2>6 DEF RequestStep
  <1>13. ASSUME SaveRefused(t) PROVE RequestStep(t)
    <2>1. IsRefused(t) /\ UNCHANGED <<call, sweep>>
      BY <1>13, RequestEnds DEF SaveRefused, At, IsRefused, Moves
    <2> QED BY <2>1 DEF RequestStep
  <1>14. ASSUME BackendMissing(t) PROVE RequestStep(t)
    <2>1. FindsNoBackend(t) /\ UNCHANGED <<call, sweep>>
      BY <1>8, <1>14 DEF BackendMissing, At, FindsNoBackend
    <2> QED BY <2>1 DEF RequestStep
  <1>15. ASSUME MarkMissing(t) PROVE RequestStep(t)
    <2>1. w.id \in Id
      BY <1>2, <1>15 DEF MarkMissing, At, WithId
    <2>2. MarksFailed(t)
      BY <1>1, <1>15, <2>1, MarkFailed DEF MarkMissing
    <2>3. MarksMissing(t) /\ UNCHANGED <<call, sweep>>
      BY <1>15, <2>2, RequestEnds DEF MarkMissing, At, MarksMissing, Moves
    <2> QED BY <2>3 DEF RequestStep
  <1>16. ASSUME ProvisionOK(t) PROVE RequestStep(t)
    <2>1. GetsRunner(t) /\ UNCHANGED <<call, sweep>>
      BY <1>8, <1>16 DEF ProvisionOK, At, GetsRunner
    <2> QED BY <2>1 DEF RequestStep
  <1>17. ASSUME NEW kind, ProvisionErr(t, kind) PROVE RequestStep(t)
    <2>1. GetsError(t) /\ UNCHANGED <<call, sweep>>
      BY <1>8, <1>17 DEF ProvisionErr, At, GetsError
    <2> QED BY <2>1 DEF RequestStep
  <1>18. ASSUME Commit(t) PROVE RequestStep(t)
    <2> DEFINE r == [RecordOf(w, "ready", w.sel, w.want) EXCEPT !.reg = @ \/ w.sel \in StaticLabel[w.pool]]
    <2>1. r.state = "ready" /\ r.pool = w.pool /\ r.backend = w.sel
      BY <1>1 DEF RecordOf, Worker, Record
    <2>2. w.pc = "commit" /\ tail[t] = NoTail /\ UNCHANGED <<active, runners, fresh, call, sweep>> /\ w.id \in Id
      BY <1>2, <1>18 DEF Commit, At, WithId
    <2>3. CASE store[w.id].state = "reserved" /\ store' = Save(store, w.id, r) /\ Return(t) /\ UNCHANGED tail
      <3> HIDE DEF r
      <3>1. (\A j \in Id \ {w.id} : store'[j] = store[j]) /\ store'[w.id] = r
        BY <2>2, <2>3 DEF Save, TypeInv, GoodStore
      <3>2. Commits(t)
        BY <2>1, <2>2, <2>3, <3>1, RequestEnds DEF Commits, Moves
      <3> QED BY <2>2, <3>2 DEF RequestStep
    <2>4. CASE /\ store[w.id].state # "reserved" /\ SetTail(t, CleanupTail(w.id, w.pool, w.sel))
               /\ Fail(t, "fatal") /\ UNCHANGED store
      <3>1. LosesCommit(t)
        BY <2>2, <2>4, RequestEnds DEF LosesCommit, Moves
      <3> QED BY <2>2, <3>1 DEF RequestStep
    <2> QED BY <1>18, <2>3, <2>4 DEF Commit
  <1>19. ASSUME Abandon(t) PROVE RequestStep(t)
    <2>1. w.pc = "abandon" /\ tail[t] = NoTail /\ UNCHANGED <<active, runners, fresh, call, sweep>> /\ w.id \in Id
      BY <1>2, <1>19 DEF Abandon, At, WithId
    <2>2. CASE /\ store[w.id].state = "reserved" /\ store' = MarkState(store, w.id, "failed")
               /\ SetTail(t, ReleaseTail(w.id, w.pool, w.sel)) /\ Goto(t, [w EXCEPT !.pc = "retry"])
      <3>1. MarksFailed(t)
        BY <1>1, <2>1, <2>2, MarkFailed
      <3>2. Abandons(t)
        BY <1>8, <2>1, <2>2, <3>1 DEF Abandons
      <3> QED BY <2>1, <3>2 DEF RequestStep
    <2>3. CASE store[w.id].state # "reserved" /\ UNCHANGED <<store, tail>> /\ Goto(t, [w EXCEPT !.pc = "retry"])
      <3>1. LosesReservation(t)
        BY <1>8, <2>1, <2>3 DEF LosesReservation, Moves
      <3> QED BY <2>1, <3>1 DEF RequestStep
    <2>4. ASSUME NEW kind, Fail(t, kind), IsTerminal(store[w.id]), UNCHANGED <<store, tail>> PROVE RequestStep(t)
      <3>1. LosesReservation(t)
        BY <2>1, <2>4, RequestEnds DEF LosesReservation, Moves, IsTerminal, TerminalStates
      <3> QED BY <2>1, <3>1 DEF RequestStep
    <2> QED BY <1>19, <2>2, <2>3, <2>4 DEF Abandon
  <1>20. ASSUME NEW rest, w.pc = "retry", Reroute(t, rest), UNCHANGED <<active, runners, tail, call, sweep>>
         PROVE  RequestStep(t)
    <2> DEFINE v == [w EXCEPT !.pc = "reserve", !.want = None, !.sel = None, !.lane = rest, !.err = "none",
                              !.id = IF t = Queue THEN @ ELSE None]
    <2>1. v.pc = "reserve"
      BY <1>1 DEF Worker
    <2>2. (Goto(t, v) \/ Fail(t, "capacity")) /\ store' = Delete(store, {w.id}) /\ UNCHANGED fresh
      BY <1>1, <1>20 DEF Reroute
    <2> HIDE DEF v
    <2>3. Moves(t, {"retry"}, {"reserve", "done"})
      BY <1>1, <1>20, <2>1, <2>2, GotoMoves, RequestEnds DEF Moves
    <2>4. (\A j \in Id \ {w.id} : store'[j] = store[j]) /\ (w.id \in Id => store'[w.id].state = "absent")
      BY <2>2 DEF Delete, NoRecord
    <2>5. w.id \in Id
      BY <1>2, <1>20 DEF WithId
    <2> QED BY <1>20, <2>2, <2>3, <2>4, <2>5 DEF Retries, RequestStep
  <1>21. ASSUME RetryCapacity(t) PROVE RequestStep(t)
    BY <1>20, <1>21 DEF RetryCapacity, At
  <1>22. ASSUME RetryARC(t) PROVE RequestStep(t)
    BY <1>20, <1>22 DEF RetryARC, At
  <1>23. ASSUME RetryQueue(t) PROVE RequestStep(t)
    <2>1. Retries(t) /\ UNCHANGED <<call, sweep>>
      BY <1>23, RequestEnds DEF RetryQueue, At, Retries, Moves
    <2> QED BY <2>1 DEF RequestStep
  <1> QED BY <1>3, <1>4, <1>5, <1>6, <1>7, <1>9, <1>10, <1>11, <1>12, <1>13, <1>14, <1>15, <1>16, <1>17,
             <1>18, <1>19, <1>21, <1>22, <1>23 DEF AllocateStep

-----------------------------------------------------------------------------
(***************************************************************************)
(* Records in a broker without a queue.                                    *)
(***************************************************************************)

\* What a thread read of a record still tells where its slot is, as long as
\* the record counts: ids are not reused, and no record is moved to another
\* pool or backend.
Agrees(f, s, r, i) ==
    /\ i \notin f
    /\ IsAccounted(s[i]) => IsActive(r) /\ r.pool = s[i].pool /\ r.backend = s[i].backend

\* While a thread decides about its reservation nobody else makes it ready,
\* and a reservation that was abandoned is over.
SettledAt(s, w) ==
    /\ w.pc \in Deciding => s[w.id].state # "ready"
    /\ w.pc = "retry" => s[w.id].state \notin ActiveStates

QuietQueue == worker[Queue].pc = "idle"

FreshAbsent == \A i \in fresh : store[i].state = "absent"

KnownStates == \A i \in Id : store[i].state \notin {"pending", "warm"}

Settled == \A t \in Workers : SettledAt(store, worker[t])

CallsAgree ==
    \A c \in Completes : call[c] # NoCall =>
        tail[c] = NoTail /\ Agrees(fresh, store, call[c].rec, call[c].id)

SweepAgrees ==
    \A i \in Id : sweep.todo[i] # NoRecord => Agrees(fresh, store, sweep.todo[i], i)

RecordInv ==
    /\ Inv
    /\ QuietQueue /\ FreshAbsent /\ KnownStates /\ Settled
    /\ CallsAgree /\ SweepAgrees

\* The ways in which a step changes a record: it ends or is dropped, a
\* reservation becomes ready in the hands of a thread that lets go of it, or a
\* new id is reserved.
Evolves ==
    /\ fresh' \subseteq fresh
    /\ \A i \in Id :
          \/ store'[i] = store[i]
          \/ store'[i].state \in TerminalStates \cup {"absent"} /\ i \notin fresh
          \/ /\ store[i].state = "reserved" /\ store'[i].state = "ready"
             /\ store'[i].pool = store[i].pool /\ store'[i].backend = store[i].backend
             /\ \A t \in Workers : worker'[t].id # i
          \/ i \in fresh \ fresh' /\ store'[i].state = "reserved"

\* Such a step reserves no old id and revives no record.
LEMMA EvolvesStates ==
    ASSUME FreshAbsent, KnownStates, fresh \subseteq Id, Evolves
    PROVE  /\ FreshAbsent' /\ KnownStates'
           /\ \A i \in Id : IsTerminal(store[i]) => IsTerminal(store'[i]) \/ store'[i].state = "absent"
  <1>1. FreshAbsent'
    BY DEF FreshAbsent, Evolves
  <1>2. KnownStates'
    BY DEF KnownStates, Evolves, TerminalStates
  <1>3. \A i \in Id : IsTerminal(store[i]) => IsTerminal(store'[i]) \/ store'[i].state = "absent"
    BY DEF FreshAbsent, Evolves, IsTerminal, TerminalStates
  <1> QED BY <1>1, <1>2, <1>3

\* What was read stays in agreement.
LEMMA EvolvesAgrees ==
    ASSUME Evolves, NEW i \in Id, NEW r, Agrees(fresh, store, r, i)
    PROVE  Agrees(fresh', store', r, i)
  BY DEF Evolves, Agrees, IsAccounted, IsActive, AccountedStates, ActiveStates, TerminalStates

\* A thread that does not move stays settled.
LEMMA EvolvesSettled ==
    ASSUME Inv, Evolves, NEW u \in Workers, worker'[u] = worker[u], SettledAt(store, worker[u])
    PROVE  SettledAt(store', worker'[u])
  <1>1. worker[u].pc \in Deciding \cup {"retry"} => worker[u].id \in Id /\ worker[u].id \notin fresh
    BY DEF Inv, TypeInv, GoodWorkers, GoodWorker, WithId, Deciding, OneOwner
  <1> QED BY <1>1 DEF Evolves, SettledAt, TerminalStates, ActiveStates

\* The snapshot of the reaper stays in agreement.
LEMMA SweepStaysAgreed ==
    ASSUME RecordInv, Evolves, UNCHANGED sweep
    PROVE  SweepAgrees'
  BY EvolvesAgrees DEF RecordInv, SweepAgrees

\* So do the completion callbacks that this step does not serve.
LEMMA CallsStayAgreed ==
    ASSUME RecordInv, Evolves, NEW c \in Completes, call'[c] = call[c], tail'[c] = tail[c], call[c] # NoCall
    PROVE  tail'[c] = NoTail /\ Agrees(fresh', store', call'[c].rec, call'[c].id)
  <1>1. call[c].id \in Id
    BY DEF RecordInv, Inv, TypeInv, GoodCalls, GoodCall, Callers
  <1> QED BY <1>1, EvolvesAgrees DEF RecordInv, CallsAgree

\* A record that is marked finished.
LEMMA MarkEvolves ==
    ASSUME RecordInv, NEW i \in Id, NEW to \in TerminalStates, store' = MarkState(store, i, to), UNCHANGED fresh
    PROVE  /\ Evolves
           /\ \A j \in Id \ {i} : store'[j] = store[j]
           /\ store[i].state = "absent" => store'[i] = store[i]
           /\ store[i].state # "absent" => store'[i].state = to
  <1>1. \A j \in Id : store[j] \in Record
    BY DEF RecordInv, Inv, TypeInv, GoodStore
  <1>2. \A j \in Id \ {i} : store'[j] = store[j]
    BY DEF MarkState, RecordInv, Inv, TypeInv, GoodStore
  <1>3. store[i].state = "absent" => store'[i] = store[i]
    BY DEF MarkState
  <1>4. store[i].state # "absent" => store'[i].state = to
    BY <1>1 DEF MarkState, Record, RecordInv, Inv, TypeInv, GoodStore
  <1>5. store[i].state # "absent" => i \notin fresh
    BY DEF RecordInv, FreshAbsent
  <1>6. Evolves
    BY <1>2, <1>3, <1>4, <1>5 DEF Evolves
  <1> QED BY <1>2, <1>3, <1>4, <1>6

\* What a request changes besides its own record and its own tail.
LEMMA RequestEvolves ==
    ASSUME RecordInv, TypeInv', NEW t \in Requests, RequestStep(t)
    PROVE  /\ Evolves /\ SettledAt(store', worker'[t])
           /\ \A u \in Workers \ {t} : worker'[u] = worker[u]
           /\ \A a \in Threads \ {t} : tail'[a] = tail[a]
  <1> DEFINE w == worker[t]
             v == worker'[t]
  <1>1. t \in Workers /\ t # Queue
    BY BrokerAssumption DEF Workers
  <1>2. \A u \in Workers \ {t} : worker'[u] = worker[u]
    BY DEF RequestStep, Looks, TakesSlot, Passes, GivesBack, Reserves, IsRefused, FindsNoBackend,
           MarksMissing, GetsRunner, GetsError, Commits, LosesCommit, Abandons, LosesReservation, Retries, Moves
  <1>3. \A a \in Threads \ {t} : tail'[a] = tail[a]
    BY DEF RequestStep, Looks, TakesSlot, Passes, GivesBack, Reserves, IsRefused, FindsNoBackend,
           MarksMissing, GetsRunner, GetsError, Commits, LosesCommit, Abandons, LosesReservation, Retries,
           SetTail, RecordInv, Inv, TypeInv
  <1>4. w.pc \in WithId => w.id \in Id /\ w.id \notin fresh
    BY <1>1 DEF RecordInv, Inv, TypeInv, GoodWorkers, GoodWorker, OneOwner
  <1>5. v.pc = "done" => v.id = None
    BY <1>1 DEF TypeInv, GoodWorkers, GoodWorker, WithId
  <1>6. SettledAt(store, w)
    BY <1>1 DEF RecordInv, Settled
  <1>7. UNCHANGED <<store, fresh>> => Evolves
    BY DEF Evolves
  <1>8. v.pc \notin Deciding \cup {"retry"} => SettledAt(store', v)
    BY DEF SettledAt
  <1>9. CASE Looks(t) \/ TakesSlot(t) \/ Passes(t) \/ GivesBack(t) \/ IsRefused(t) \/ LosesCommit(t)
    <2>1. UNCHANGED <<store, fresh>> /\ v.pc \notin Deciding \cup {"retry"}
      BY <1>9 DEF Looks, TakesSlot, Passes, GivesBack, IsRefused, LosesCommit, Moves, Deciding
    <2> QED BY <1>2, <1>3, <1>7, <1>8, <2>1
  <1>10. CASE Reserves(t)
    <2>1. PICK i \in fresh : /\ v.id = i /\ fresh' = fresh \ {i} /\ store'[i].state = "reserved"
                             /\ \A j \in Id \ {i} : store'[j] = store[j]
      BY <1>10 DEF Reserves
    <2>2. v.pc = "provision"
      BY <1>10 DEF Reserves, Moves
    <2>3. Evolves
      BY <2>1 DEF Evolves
    <2>4. SettledAt(store', v)
      BY <2>1, <2>2 DEF SettledAt
    <2> QED BY <1>2, <1>3, <2>3, <2>4
  <1>11. CASE FindsNoBackend(t) \/ GetsRunner(t) \/ GetsError(t)
    <2>1. UNCHANGED <<store, fresh>> /\ v.id = w.id /\ w.pc = "provision" /\ v.pc # "retry"
      BY <1>11 DEF FindsNoBackend, GetsRunner, GetsError, Moves, SameId
    <2>2. SettledAt(store', v)
      BY <1>6, <2>1 DEF SettledAt, Deciding
    <2> QED BY <1>2, <1>3, <1>7, <2>1, <2>2
  <1>12. ASSUME MarksFailed(t), UNCHANGED fresh, w.pc \in WithId PROVE Evolves
    BY <1>4, <1>12 DEF MarksFailed, Evolves, TerminalStates
  <1>13. CASE MarksMissing(t)
    <2>1. MarksFailed(t) /\ UNCHANGED fresh /\ w.pc \in WithId /\ v.pc \notin Deciding \cup {"retry"}
      BY <1>13 DEF MarksMissing, Moves, WithId, Deciding
    <2> QED BY <1>2, <1>3, <1>8, <1>12, <2>1
  <1>14. CASE Commits(t)
    <2>1. /\ w.pc = "commit" /\ v.pc = "done" /\ store[w.id].state = "reserved" /\ store'[w.id].state = "ready"
          /\ store'[w.id].pool = w.pool /\ store'[w.id].backend = w.sel
          /\ \A j \in Id \ {w.id} : store'[j] = store[j]
          /\ UNCHANGED fresh
      BY <1>14 DEF Commits, Moves
    <2>2. store[w.id].pool = w.pool /\ store[w.id].backend = w.sel
      BY <1>1, <2>1 DEF RecordInv, Inv, OwnReservation, Deciding
    <2>3. w.id \in Id
      BY <1>4, <2>1 DEF WithId
    <2>4. v.id # w.id
      BY <1>5, <2>1, <2>3, BrokerAssumption
    <2>5. \A u \in Workers \ {t} : worker[u].id # w.id
      BY <1>1, <2>3, BrokerAssumption DEF RecordInv, Inv, OneOwner
    <2>6. Evolves
      BY <1>2, <2>1, <2>2, <2>4, <2>5 DEF Evolves
    <2> QED BY <1>2, <1>3, <1>8, <2>1, <2>6 DEF Deciding
  <1>15. CASE Abandons(t)
    <2>1. MarksFailed(t) /\ UNCHANGED fresh /\ w.pc \in WithId /\ v.pc = "retry" /\ v.id = w.id
      BY <1>15 DEF Abandons, Moves, WithId, SameId
    <2>2. SettledAt(store', v)
      BY <2>1 DEF SettledAt, MarksFailed, Deciding, ActiveStates
    <2> QED BY <1>2, <1>3, <1>12, <2>1, <2>2
  <1>16. CASE LosesReservation(t)
    <2>1. /\ UNCHANGED <<store, fresh>> /\ w.pc = "abandon" /\ store[w.id].state # "reserved"
          /\ v.pc = "done" \/ (v.pc = "retry" /\ v.id = w.id)
      BY <1>16 DEF LosesReservation, Moves, SameId
    <2>2. SettledAt(store', v)
      BY <1>6, <2>1 DEF SettledAt, Deciding, ActiveStates
    <2> QED BY <1>2, <1>3, <1>7, <2>1, <2>2
  <1>17. CASE Retries(t)
    <2>1. /\ w.pc = "retry" /\ v.pc \notin Deciding \cup {"retry"} /\ UNCHANGED fresh
          /\ \A j \in Id \ {w.id} : store'[j] = store[j]
          /\ store'[w.id] = store[w.id] \/ store'[w.id].state = "absent"
      BY <1>17 DEF Retries, Moves, Deciding
    <2>2. Evolves
      BY <1>4, <2>1 DEF Evolves, WithId
    <2> QED BY <1>2, <1>3, <1>8, <2>1, <2>2
  <1> QED BY <1>9, <1>10, <1>11, <1>13, <1>14, <1>15, <1>16, <1>17 DEF RequestStep

\* The threads stay settled when no request moves.
LEMMA StillSettled ==
    ASSUME RecordInv, Evolves, UNCHANGED worker
    PROVE  Settled' /\ QuietQueue'
  BY EvolvesSettled DEF RecordInv, Settled, QuietQueue

\* What remains of the invariant once a step is known to evolve the records.
LEMMA RecordInvFrom ==
    ASSUME RecordInv, Inv', Evolves, Settled', QuietQueue', CallsAgree', SweepAgrees'
    PROVE  RecordInv'
  <1>1. FreshAbsent' /\ KnownStates'
    BY EvolvesStates DEF RecordInv, Inv, TypeInv
  <1> QED BY <1>1 DEF RecordInv

\* The queue loop has nothing to do.
LEMMA QueueStaysQuiet ==
    ASSUME QuietQueue, ~QueueEnabled
    PROVE  ~QueueStep
  BY DEF QuietQueue, QueueStep, QueueList, QueueKeep, QueueDrop, QueueRetry, QueueVisit, QueueIdle, QueueExit,
         AllocateStep, At, Filter, FilterRejects, Reserve, Saturated, NoCapacity, Admit, DenyCircuitOpen,
         DenyRateLimited, SaveReserved, SaveRefused, BackendMissing, MarkMissing, ProvisionOK, Commit,
         ProvisionErr, Abandon, RetryCapacity, RetryARC, RetryQueue

\* A new request looks for a backend.
LEMMA AllocateLooks ==
    ASSUME TypeInv, NEW t \in Requests, NEW p, NEW pin, Allocate(t, p, pin)
    PROVE  RequestStep(t)
  <1> DEFINE v == [NoWork("filter") EXCEPT !.pool = p, !.pin = pin]
  <1>1. /\ worker[t].pc = "idle" /\ Goto(t, v) /\ v.pc = "filter" /\ t \in Workers
        /\ UNCHANGED <<store, active, runners, fresh, tail, call, sweep>>
    BY DEF Allocate, At, NoWork, Workers
  <1> HIDE DEF v
  <1>2. Looks(t)
    BY <1>1, GotoMoves DEF Looks, Moves
  <1> QED BY <1>1, <1>2 DEF RequestStep

\* The steps of the broker when there is no queue and no claim.
LEMMA NextCases ==
    ASSUME Claims = {}, ~QueueEnabled, TypeInv, QuietQueue, Next
    PROVE  \/ \E t \in Requests : RequestStep(t)
           \/ \E c \in Cancels, i \in Id : Cancel(c, i)
           \/ \E c \in Completes, i \in Id, to \in CompletionStates : CompleteRead(c, i, to)
           \/ \E c \in Completes : CompleteMark(c)
           \/ SweepStep
           \/ \E a \in Threads : TailStep(a)
  BY QueueStaysQuiet, AllocateLooks, RequestShapes DEF Next

\* A step without a request evolves the records and keeps the invariant.
LEMMA CallbackKeeps ==
    ASSUME RecordInv, Inv', NEW c \in Completes
    PROVE  /\ \A i \in Id, to \in CompletionStates : CompleteRead(c, i, to) => RecordInv' /\ Evolves
           /\ CompleteMark(c) => RecordInv' /\ Evolves
  <1>1. c \in Callers /\ call \in [Callers -> Call] /\ tail \in [Threads -> Tail] /\ c \in Threads
    BY DEF Callers, Threads, RecordInv, Inv, TypeInv, GoodCalls
  <1>2. ASSUME NEW i \in Id, NEW to, CompleteRead(c, i, to) PROVE RecordInv' /\ Evolves
    <2>1. /\ tail[c] = NoTail /\ store[i].state # "absent"
          /\ call' = [call EXCEPT ![c] = [id |-> i, rec |-> store[i], to |-> to]]
          /\ UNCHANGED <<store, fresh, worker, tail, sweep>>
      BY <1>2 DEF CompleteRead, ReadForWrite
    <2>2. Evolves
      BY <2>1 DEF Evolves
    <2>3. Agrees(fresh, store, store[i], i)
      BY <2>1 DEF Agrees, RecordInv, FreshAbsent, KnownStates, IsAccounted, IsActive, AccountedStates, ActiveStates
    <2>4. call'[c].rec = store[i] /\ call'[c].id = i /\ \A d \in Completes \ {c} : call'[d] = call[d]
      BY <1>1, <2>1 DEF Callers
    <2>5. CallsAgree'
      BY <2>1, <2>2, <2>3, <2>4, CallsStayAgreed DEF CallsAgree
    <2> QED BY <2>1, <2>2, <2>5, StillSettled, SweepStaysAgreed, RecordInvFrom
  <1>3. ASSUME CompleteMark(c) PROVE RecordInv' /\ Evolves
    <2> DEFINE i == call[c].id
    <2>1. /\ call[c] # NoCall /\ store' = MarkState(store, i, call[c].to)
          /\ \E x : SetTail(c, x)
          /\ call' = [call EXCEPT ![c] = NoCall]
          /\ UNCHANGED <<fresh, worker, sweep>>
      BY <1>3 DEF CompleteMark
    <2>2. i \in Id /\ call[c].to \in TerminalStates
      BY <1>1, <2>1 DEF RecordInv, Inv, TypeInv, GoodCalls, GoodCall
    <2>3. Evolves
      BY <2>1, <2>2, MarkEvolves
    <2>4. call'[c] = NoCall /\ \A d \in Completes \ {c} : call'[d] = call[d] /\ tail'[d] = tail[d]
      BY <1>1, <2>1 DEF Callers, SetTail, Threads
    <2>5. CallsAgree'
      BY <2>3, <2>4, CallsStayAgreed DEF CallsAgree
    <2> QED BY <2>1, <2>3, <2>5, StillSettled, SweepStaysAgreed, RecordInvFrom
  <1> QED BY <1>2, <1>3

\* The threads that serve completions are not in the way of the others.
LEMMA OtherTails ==
    ASSUME RecordInv, NEW a \in Threads, NEW x, SetTail(a, x), a \notin Completes, Evolves, UNCHANGED call
    PROVE  CallsAgree'
  <1>1. \A c \in Completes : tail'[c] = tail[c] /\ call'[c] = call[c]
    BY DEF SetTail, Threads, RecordInv, Inv, TypeInv
  <1> QED BY <1>1, CallsStayAgreed DEF CallsAgree

\* The cancel calls and the tails keep the invariant.
LEMMA CancelKeeps ==
    ASSUME RecordInv, Inv'
    PROVE  /\ \A c \in Cancels, i \in Id : Cancel(c, i) => RecordInv' /\ Evolves
           /\ \A a \in Threads : TailStep(a) => RecordInv' /\ Evolves
  <1>1. ASSUME NEW c \in Cancels, NEW i \in Id, Cancel(c, i) PROVE RecordInv' /\ Evolves
    <2>1. /\ store' = MarkState(store, i, "canceled") /\ UNCHANGED <<fresh, worker, call, sweep>>
          /\ \E x : SetTail(c, x)
      BY <1>1 DEF Cancel
    <2>2. Evolves
      BY <2>1, MarkEvolves DEF TerminalStates
    <2>3. c \in Threads /\ c \notin Completes
      BY BrokerAssumption DEF Threads
    <2>4. CallsAgree'
      BY <2>1, <2>2, <2>3, OtherTails
    <2> QED BY <2>1, <2>2, <2>4, StillSettled, SweepStaysAgreed, RecordInvFrom
  <1>2. ASSUME NEW a \in Threads, TailStep(a) PROVE RecordInv' /\ Evolves
    <2>1. /\ UNCHANGED <<store, fresh, worker, call, sweep>>
          /\ tail[a].phase # "none"
          /\ tail' = [tail EXCEPT ![a].phase = "cleanup"] \/ SetTail(a, NoTail)
      BY <1>2 DEF TailStep, Release, Cleanup, CleanupFails
    <2>2. Evolves
      BY <2>1 DEF Evolves
    <2>3. tail[a] # NoTail
      BY <2>1 DEF NoTail
    <2>4. \A c \in Completes : c # a => tail'[c] = tail[c]
      BY <2>1 DEF SetTail, Threads, RecordInv, Inv, TypeInv
    <2>5. a \in Completes => call[a] = NoCall
      BY <2>3 DEF RecordInv, CallsAgree
    <2>6. CallsAgree'
      BY <2>1, <2>2, <2>4, <2>5, CallsStayAgreed DEF CallsAgree
    <2> QED BY <2>1, <2>2, <2>6, StillSettled, SweepStaysAgreed, RecordInvFrom
  <1> QED BY <1>1, <1>2

\* The reaper's snapshot only ever loses entries between two listings.
LEMMA VisitKeeps ==
    ASSUME RecordInv, NEW i \in Id, NEW from, Visit(i, from), Evolves
    PROVE  SweepAgrees'
  <1>1. sweep \in [running : BOOLEAN, todo : [Id -> Record]]
    BY DEF RecordInv, Inv, TypeInv
  <1>2. sweep' = [sweep EXCEPT !.todo[i] = NoRecord]
    BY DEF Visit
  <1>3. sweep'.todo[i] = NoRecord /\ \A j \in Id \ {i} : sweep'.todo[j] = sweep.todo[j]
    BY <1>1, <1>2
  <1> QED BY <1>3, EvolvesAgrees DEF SweepAgrees, RecordInv

\* The reaper keeps the invariant.
LEMMA SweepKeeps ==
    ASSUME RecordInv, Inv', SweepStep
    PROVE  RecordInv' /\ Evolves
  <1>1. Sweep \in Threads /\ Sweep \notin Completes
    BY BrokerAssumption DEF Threads
  <1>2. ASSUME SweepList PROVE RecordInv' /\ Evolves
    <2>1. /\ sweep'.todo = [i \in Id |-> IF IsActive(store[i]) \/ store[i].state = "quarantined"
                                         THEN store[i] ELSE NoRecord]
          /\ UNCHANGED <<store, fresh, worker, tail, call>>
      BY <1>2 DEF SweepList
    <2>2. Evolves
      BY <2>1 DEF Evolves
    <2>3. ASSUME NEW i \in Id, sweep'.todo[i] # NoRecord PROVE Agrees(fresh', store', sweep'.todo[i], i)
      <3>1. sweep'.todo[i] = store[i] /\ (IsActive(store[i]) \/ store[i].state = "quarantined")
        BY <2>1, <2>3
      <3>2. i \notin fresh
        BY <3>1 DEF RecordInv, FreshAbsent, IsActive, ActiveStates
      <3> QED BY <2>1, <3>1, <3>2 DEF Agrees, IsAccounted, IsActive, AccountedStates, ActiveStates
    <2>4. SweepAgrees'
      BY <2>3 DEF SweepAgrees
    <2>5. CallsAgree'
      BY <2>1, <2>2, CallsStayAgreed DEF CallsAgree
    <2> QED BY <2>1, <2>2, <2>4, <2>5, StillSettled, RecordInvFrom
  <1>3. ASSUME NEW i \in Id, NEW from, Visit(i, from), NEW to \in TerminalStates,
               store' = MarkState(store, i, to), NEW x, SetTail(Sweep, x), UNCHANGED <<fresh, worker, call>>
        PROVE  RecordInv' /\ Evolves
    <2>1. Evolves
      BY <1>3, MarkEvolves
    <2>2. CallsAgree'
      BY <1>1, <1>3, <2>1, OtherTails
    <2>3. SweepAgrees'
      BY <1>3, <2>1, VisitKeeps
    <2> QED BY <1>3, <2>1, <2>2, <2>3, StillSettled, RecordInvFrom
  <1>4. ASSUME NEW i \in Id, SweepUnregistered(i) \/ SweepJobTimeout(i) \/ SweepQuarantine(i)
        PROVE  RecordInv' /\ Evolves
    <2>1. /\ \E from : Visit(i, from)
          /\ \E to \in TerminalStates : store' = MarkState(store, i, to)
          /\ \E x : SetTail(Sweep, x)
          /\ UNCHANGED <<fresh, worker, call>>
      BY <1>4 DEF SweepUnregistered, SweepJobTimeout, SweepQuarantine, Reap, TerminalStates
    <2> QED BY <1>3, <2>1
  <1>5. ASSUME NEW i \in Id, SweepKeep(i) PROVE RecordInv' /\ Evolves
    <2>1. (\E from : Visit(i, from)) /\ UNCHANGED <<store, fresh, worker, tail, call>>
      BY <1>5 DEF SweepKeep
    <2>2. Evolves
      BY <2>1 DEF Evolves
    <2>3. CallsAgree' /\ SweepAgrees'
      BY <2>1, <2>2, CallsStayAgreed, VisitKeeps DEF CallsAgree
    <2> QED BY <2>1, <2>2, <2>3, StillSettled, RecordInvFrom
  <1>6. ASSUME NEW D, SweepPrune(D) PROVE RecordInv' /\ Evolves
    <2>1. /\ sweep.todo = NoTodo /\ D \subseteq Prunable(store) /\ store' = Delete(store, D)
          /\ sweep' = [sweep EXCEPT !.running = FALSE] /\ UNCHANGED <<fresh, worker, tail, call>>
      BY <1>6 DEF SweepPrune
    <2>2. \A i \in Id : store'[i] = store[i] \/ (store'[i].state = "absent" /\ IsTerminal(store[i]))
      BY <2>1 DEF Delete, NoRecord, Prunable
    <2>3. Evolves
      BY <2>1, <2>2 DEF Evolves, RecordInv, FreshAbsent, IsTerminal, TerminalStates
    <2>4. sweep'.todo = sweep.todo
      BY <2>1 DEF RecordInv, Inv, TypeInv
    <2>5. CallsAgree' /\ SweepAgrees'
      BY <2>1, <2>3, <2>4, CallsStayAgreed DEF CallsAgree, SweepAgrees, NoTodo
    <2> QED BY <2>1, <2>3, <2>5, StillSettled, RecordInvFrom
  <1> QED BY <1>2, <1>4, <1>5, <1>6 DEF SweepStep

\* A request keeps the invariant.
LEMMA RequestKeeps ==
    ASSUME RecordInv, Inv', NEW t \in Requests, RequestStep(t)
    PROVE  RecordInv' /\ Evolves
  <1>1. t \in Workers /\ t # Queue /\ t \notin Completes /\ Completes \subseteq Threads /\ Queue \in Workers
    BY BrokerAssumption DEF Workers, Threads
  <1>2. /\ Evolves /\ SettledAt(store', worker'[t])
        /\ \A u \in Workers \ {t} : worker'[u] = worker[u]
        /\ \A a \in Threads \ {t} : tail'[a] = tail[a]
    BY RequestEvolves DEF Inv
  <1>3. UNCHANGED <<call, sweep>>
    BY DEF RequestStep
  <1>4. Settled'
    BY <1>2, EvolvesSettled DEF Settled, RecordInv
  <1>5. QuietQueue'
    BY <1>1, <1>2 DEF QuietQueue, RecordInv
  <1>6. CallsAgree'
    BY <1>1, <1>2, <1>3, CallsStayAgreed DEF CallsAgree
  <1>7. SweepAgrees'
    BY <1>2, <1>3, SweepStaysAgreed
  <1> QED BY <1>2, <1>4, <1>5, <1>6, <1>7, RecordInvFrom

\* The invariant is inductive, and every step evolves the records.
LEMMA RecordNext ==
    ASSUME Claims = {}, ~QueueEnabled
    PROVE  RecordInv /\ [Next]_vars => RecordInv' /\ Evolves
  <1> SUFFICES ASSUME RecordInv, [Next]_vars PROVE RecordInv' /\ Evolves
    OBVIOUS
  <1>1. Inv'
    BY InvNext DEF RecordInv
  <1>2. CASE UNCHANGED vars
    <2>1. Evolves
      BY <1>2 DEF vars, Evolves
    <2> QED BY <1>1, <1>2, <2>1 DEF vars, RecordInv, QuietQueue, FreshAbsent, KnownStates, Settled, CallsAgree, SweepAgrees
  <1>3. CASE Next
    <2>1. TypeInv /\ QuietQueue
      BY DEF RecordInv, Inv
    <2> QED BY <1>1, <1>3, <2>1, NextCases, RequestKeeps, CancelKeeps, CallbackKeeps, SweepKeeps
  <1> QED BY <1>2, <1>3

\* Every reachable state satisfies it.
LEMMA RecordsAlways ==
    ASSUME Claims = {}, ~QueueEnabled
    PROVE  Spec => []RecordInv
  <1>1. Init => RecordInv
    <2> SUFFICES ASSUME Init PROVE RecordInv
      OBVIOUS
    <2>1. Inv
      <3>1. TypeInv
        BY TypeInit
      <3>2. None \notin fresh
        BY BrokerAssumption DEF Init
      <3> QED BY <3>1, <3>2 DEF Inv, Init, NoWork, NoTodo, NoRecord, OneOwner, OwnReservation, ReservedHasOwner, Deciding
    <2>2. QuietQueue /\ Settled
      BY DEF Init, NoWork, QuietQueue, Settled, SettledAt, Deciding, Workers
    <2>3. FreshAbsent /\ KnownStates /\ SweepAgrees
      BY DEF Init, NoTodo, NoRecord, FreshAbsent, KnownStates, SweepAgrees
    <2>4. CallsAgree
      BY DEF Init, CallsAgree, Callers
    <2> QED BY <2>1, <2>2, <2>3, <2>4 DEF RecordInv
  <1> QED BY <1>1, RecordNext, PTL DEF Spec

\* A finished allocation stays finished: without a queue and without claim
\* callbacks no step of any thread makes a terminal record pending, reserved or
\* ready again, however stale the record it read.
THEOREM FinishedStaysFinished ==
    ASSUME Claims = {}, ~QueueEnabled
    PROVE  Spec => NeverRevived
  <1>1. RecordInv /\ [Next]_vars =>
           [\A i \in Id : IsTerminal(store[i]) => IsTerminal(store'[i]) \/ store'[i].state = "absent"]_vars
    BY RecordNext, EvolvesStates DEF RecordInv, Inv, TypeInv
  <1> QED BY <1>1, RecordsAlways, PTL DEF Spec, NeverRevived

-----------------------------------------------------------------------------
(***************************************************************************)
(* The ledger of slots.  A slot of the scheduler is answered for by a      *)
(* record, by a thread between Reserve and SaveIfCapacity, or by a pending *)
(* release.  A thread that found no implementation of its backend releases *)
(* first and marks its record afterwards: its record no longer answers for *)
(* anything, which is what makes NoSlotLeak inductive.                     *)
(***************************************************************************)
Live(p, b) ==
    {i \in Occupants(store, p, b) : \A t \in Workers : worker[t].pc = "missing" => worker[t].id # i}

Balance(n, O, H, R) == n <= Cardinality(O) + Cardinality(H) + Cardinality(R)

Ledger ==
    \A p \in Pool, b \in Backend :
        Balance(active[<<p, b>>], Live(p, b), Holding(p, b), Releasing(p, b))

\* A set that keeps its members, loses at most one, or gains one.
LEMMA CardinalityMoves ==
    ASSUME NEW S, NEW T, IsFiniteSet(S), IsFiniteSet(T), NEW x
    PROVE  /\ Cardinality(S) \in Nat /\ Cardinality(T) \in Nat
           /\ S \subseteq T => Cardinality(S) <= Cardinality(T)
           /\ S \ {x} \subseteq T => Cardinality(S) <= Cardinality(T) + 1
           /\ S \cup {x} \subseteq T /\ x \notin S => Cardinality(S) + 1 <= Cardinality(T)
  <1>1. Cardinality(S) \in Nat /\ Cardinality(T) \in Nat
    BY FS_CardinalityType
  <1>2. ASSUME S \subseteq T PROVE Cardinality(S) <= Cardinality(T)
    BY <1>2, FS_Subset
  <1>3. ASSUME S \ {x} \subseteq T PROVE Cardinality(S) <= Cardinality(T) + 1
    <2>1. /\ IsFiniteSet(T \cup {x})
          /\ Cardinality(T \cup {x}) = IF x \in T THEN Cardinality(T) ELSE Cardinality(T) + 1
      BY FS_AddElement
    <2>2. Cardinality(S) <= Cardinality(T \cup {x})
      <3>1. S \subseteq T \cup {x}
        BY <1>3
      <3> QED BY <2>1, <3>1, FS_Subset
    <2> QED BY <1>1, <2>1, <2>2
  <1>4. ASSUME S \cup {x} \subseteq T, x \notin S PROVE Cardinality(S) + 1 <= Cardinality(T)
    <2>1. Cardinality(S \cup {x}) = Cardinality(S) + 1
      BY <1>4, FS_AddElement
    <2>2. Cardinality(S \cup {x}) <= Cardinality(T)
      BY <1>4, FS_Subset
    <2> QED BY <2>1, <2>2
  <1> QED BY <1>1, <1>2, <1>3, <1>4

\* A set that loses at most one member, and one that gains one.
LosesOne(S, T) == \E x : S \ {x} \subseteq T
GainsOne(S, T) == \E x : x \notin S /\ S \cup {x} \subseteq T

\* The sets of a balance before and after a step, all of them finite.
AllFinite(O, H, R, O2, H2, R2) ==
    /\ IsFiniteSet(O) /\ IsFiniteSet(H) /\ IsFiniteSet(R)
    /\ IsFiniteSet(O2) /\ IsFiniteSet(H2) /\ IsFiniteSet(R2)

\* A balance is kept when nobody who answers for a slot leaves.
LEMMA BalanceSame ==
    ASSUME NEW n \in Nat, NEW m \in Nat, NEW O, NEW H, NEW R, NEW O2, NEW H2, NEW R2,
           AllFinite(O, H, R, O2, H2, R2), Balance(n, O, H, R),
           m <= n, O \subseteq O2, H \subseteq H2, R \subseteq R2
    PROVE  Balance(m, O2, H2, R2)
  <1>1. Cardinality(O) \in Nat /\ Cardinality(O2) \in Nat /\ Cardinality(O) <= Cardinality(O2)
    BY CardinalityMoves DEF AllFinite, LosesOne, GainsOne
  <1>2. Cardinality(H) \in Nat /\ Cardinality(H2) \in Nat /\ Cardinality(H) <= Cardinality(H2)
    BY CardinalityMoves DEF AllFinite, LosesOne, GainsOne
  <1>3. Cardinality(R) \in Nat /\ Cardinality(R2) \in Nat /\ Cardinality(R) <= Cardinality(R2)
    BY CardinalityMoves DEF AllFinite, LosesOne, GainsOne
  <1> QED BY <1>1, <1>2, <1>3 DEF Balance

\* It is kept when a record leaves and a thread sets out to release its slot,
LEMMA BalanceLeave ==
    ASSUME NEW n \in Nat, NEW m \in Nat, NEW O, NEW H, NEW R, NEW O2, NEW H2, NEW R2,
           AllFinite(O, H, R, O2, H2, R2), Balance(n, O, H, R),
           m = n, LosesOne(O, O2), H \subseteq H2, GainsOne(R, R2)
    PROVE  Balance(m, O2, H2, R2)
  <1>1. Cardinality(O) \in Nat /\ Cardinality(O2) \in Nat /\ Cardinality(O) <= Cardinality(O2) + 1
    BY CardinalityMoves DEF AllFinite, LosesOne, GainsOne
  <1>2. Cardinality(H) \in Nat /\ Cardinality(H2) \in Nat /\ Cardinality(H) <= Cardinality(H2)
    BY CardinalityMoves DEF AllFinite, LosesOne, GainsOne
  <1>3. Cardinality(R) \in Nat /\ Cardinality(R2) \in Nat /\ Cardinality(R) + 1 <= Cardinality(R2)
    BY CardinalityMoves DEF AllFinite, LosesOne, GainsOne
  <1> QED BY <1>1, <1>2, <1>3 DEF Balance

\* when a thread that holds a slot sets out to release it,
LEMMA BalanceRefuse ==
    ASSUME NEW n \in Nat, NEW m \in Nat, NEW O, NEW H, NEW R, NEW O2, NEW H2, NEW R2,
           AllFinite(O, H, R, O2, H2, R2), Balance(n, O, H, R),
           m = n, O \subseteq O2, LosesOne(H, H2), GainsOne(R, R2)
    PROVE  Balance(m, O2, H2, R2)
  <1>1. Cardinality(O) \in Nat /\ Cardinality(O2) \in Nat /\ Cardinality(O) <= Cardinality(O2)
    BY CardinalityMoves DEF AllFinite, LosesOne, GainsOne
  <1>2. Cardinality(H) \in Nat /\ Cardinality(H2) \in Nat /\ Cardinality(H) <= Cardinality(H2) + 1
    BY CardinalityMoves DEF AllFinite, LosesOne, GainsOne
  <1>3. Cardinality(R) \in Nat /\ Cardinality(R2) \in Nat /\ Cardinality(R) + 1 <= Cardinality(R2)
    BY CardinalityMoves DEF AllFinite, LosesOne, GainsOne
  <1> QED BY <1>1, <1>2, <1>3 DEF Balance

\* when the slot a thread holds becomes that of a record,
LEMMA BalanceSave ==
    ASSUME NEW n \in Nat, NEW m \in Nat, NEW O, NEW H, NEW R, NEW O2, NEW H2, NEW R2,
           AllFinite(O, H, R, O2, H2, R2), Balance(n, O, H, R),
           m = n, GainsOne(O, O2), LosesOne(H, H2), R \subseteq R2
    PROVE  Balance(m, O2, H2, R2)
  <1>1. Cardinality(O) \in Nat /\ Cardinality(O2) \in Nat /\ Cardinality(O) + 1 <= Cardinality(O2)
    BY CardinalityMoves DEF AllFinite, LosesOne, GainsOne
  <1>2. Cardinality(H) \in Nat /\ Cardinality(H2) \in Nat /\ Cardinality(H) <= Cardinality(H2) + 1
    BY CardinalityMoves DEF AllFinite, LosesOne, GainsOne
  <1>3. Cardinality(R) \in Nat /\ Cardinality(R2) \in Nat /\ Cardinality(R) <= Cardinality(R2)
    BY CardinalityMoves DEF AllFinite, LosesOne, GainsOne
  <1> QED BY <1>1, <1>2, <1>3 DEF Balance

\* when a thread takes a slot,
LEMMA BalanceTake ==
    ASSUME NEW n \in Nat, NEW m \in Nat, NEW O, NEW H, NEW R, NEW O2, NEW H2, NEW R2,
           AllFinite(O, H, R, O2, H2, R2), Balance(n, O, H, R),
           m = n + 1, O \subseteq O2, GainsOne(H, H2), R \subseteq R2
    PROVE  Balance(m, O2, H2, R2)
  <1>1. Cardinality(O) \in Nat /\ Cardinality(O2) \in Nat /\ Cardinality(O) <= Cardinality(O2)
    BY CardinalityMoves DEF AllFinite, LosesOne, GainsOne
  <1>2. Cardinality(H) \in Nat /\ Cardinality(H2) \in Nat /\ Cardinality(H) + 1 <= Cardinality(H2)
    BY CardinalityMoves DEF AllFinite, LosesOne, GainsOne
  <1>3. Cardinality(R) \in Nat /\ Cardinality(R2) \in Nat /\ Cardinality(R) <= Cardinality(R2)
    BY CardinalityMoves DEF AllFinite, LosesOne, GainsOne
  <1> QED BY <1>1, <1>2, <1>3 DEF Balance

\* when a thread gives the slot it holds back,
LEMMA BalanceGive ==
    ASSUME NEW n \in Nat, NEW m \in Nat, NEW O, NEW H, NEW R, NEW O2, NEW H2, NEW R2,
           AllFinite(O, H, R, O2, H2, R2), Balance(n, O, H, R),
           m = 0 \/ m + 1 = n, O \subseteq O2, LosesOne(H, H2), R \subseteq R2
    PROVE  Balance(m, O2, H2, R2)
  <1>1. Cardinality(O) \in Nat /\ Cardinality(O2) \in Nat /\ Cardinality(O) <= Cardinality(O2)
    BY CardinalityMoves DEF AllFinite, LosesOne, GainsOne
  <1>2. Cardinality(H) \in Nat /\ Cardinality(H2) \in Nat /\ Cardinality(H) <= Cardinality(H2) + 1
    BY CardinalityMoves DEF AllFinite, LosesOne, GainsOne
  <1>3. Cardinality(R) \in Nat /\ Cardinality(R2) \in Nat /\ Cardinality(R) <= Cardinality(R2)
    BY CardinalityMoves DEF AllFinite, LosesOne, GainsOne
  <1> QED BY <1>1, <1>2, <1>3 DEF Balance

\* and when a pending release is carried out.
LEMMA BalanceRelease ==
    ASSUME NEW n \in Nat, NEW m \in Nat, NEW O, NEW H, NEW R, NEW O2, NEW H2, NEW R2,
           AllFinite(O, H, R, O2, H2, R2), Balance(n, O, H, R),
           m = 0 \/ m + 1 = n, O \subseteq O2, H \subseteq H2, LosesOne(R, R2)
    PROVE  Balance(m, O2, H2, R2)
  <1>1. Cardinality(O) \in Nat /\ Cardinality(O2) \in Nat /\ Cardinality(O) <= Cardinality(O2)
    BY CardinalityMoves DEF AllFinite, LosesOne, GainsOne
  <1>2. Cardinality(H) \in Nat /\ Cardinality(H2) \in Nat /\ Cardinality(H) <= Cardinality(H2)
    BY CardinalityMoves DEF AllFinite, LosesOne, GainsOne
  <1>3. Cardinality(R) \in Nat /\ Cardinality(R2) \in Nat /\ Cardinality(R) <= Cardinality(R2) + 1
    BY CardinalityMoves DEF AllFinite, LosesOne, GainsOne
  <1> QED BY <1>1, <1>2, <1>3 DEF Balance

\* Those who answer for a slot are finitely many.
LEMMA LedgerFinite ==
    ASSUME IsFiniteSet(Threads), NEW p, NEW b
    PROVE  AllFinite(Live(p, b), Holding(p, b), Releasing(p, b), Live(p, b)', Holding(p, b)', Releasing(p, b)')
  <1>1. Live(p, b) \subseteq Id /\ Live(p, b)' \subseteq Id
    BY DEF Live, Occupants
  <1>2. /\ Holding(p, b) \subseteq Threads /\ Holding(p, b)' \subseteq Threads
        /\ Releasing(p, b) \subseteq Threads /\ Releasing(p, b)' \subseteq Threads
    BY DEF Holding, Releasing, Threads
  <1> QED BY <1>1, <1>2, StoreAssumption, FS_Subset DEF AllFinite

\* The counters are numbers before and after a step.
LEMMA ActiveNumbers ==
    ASSUME TypeInv, TypeInv', NEW p \in Pool, NEW b \in Backend
    PROVE  active[<<p, b>>] \in Nat /\ active'[<<p, b>>] \in Nat
  BY DEF TypeInv

\* What ReleaseSlot does to each counter.
LEMMA ReleaseSlotMoves ==
    ASSUME TypeInv, NEW x, NEW y, ReleaseSlot(x, y), NEW p \in Pool, NEW b \in Backend
    PROVE  /\ p = x /\ b = y => active'[<<p, b>>] = 0 \/ active'[<<p, b>>] + 1 = active[<<p, b>>]
           /\ ~(p = x /\ b = y) => active'[<<p, b>>] = active[<<p, b>>]
  <1>1. active \in [Pool \X Backend -> Nat] /\ <<p, b>> \in Pool \X Backend /\ b # None
    BY StoreAssumption DEF TypeInv
  <1>2. active[<<p, b>>] \in Nat
    BY <1>1
  <1>3. CASE p = x /\ b = y
    <2>1. CASE active[<<p, b>>] > 0
      <3>1. active' = [active EXCEPT ![<<p, b>>] = active[<<p, b>>] - 1]
        BY <1>1, <1>3, <2>1 DEF ReleaseSlot
      <3>2. active'[<<p, b>>] = active[<<p, b>>] - 1
        BY <1>1, <3>1
      <3> QED BY <1>2, <1>3, <3>2
    <2>2. CASE ~(active[<<p, b>>] > 0)
      <3>1. active' = active
        BY <1>3, <2>2 DEF ReleaseSlot
      <3> QED BY <1>2, <1>3, <2>2, <3>1
    <2> QED BY <2>1, <2>2
  <1>4. CASE ~(p = x /\ b = y)
    <2>1. <<p, b>> # <<x, y>>
      BY <1>4
    <2>2. active' = active \/ active' = [active EXCEPT ![<<x, y>>] = active[<<x, y>>] - 1]
      BY DEF ReleaseSlot
    <2> QED BY <1>1, <1>4, <2>1, <2>2
  <1> QED BY <1>3, <1>4

\* A new release adds to those who answer for its slot.
LEMMA TailGains ==
    ASSUME TypeInv, NEW a \in Threads, tail[a] = NoTail, NEW i, NEW x, NEW y,
           SetTail(a, ReleaseTail(i, x, y)), NEW p, NEW b
    PROVE  /\ Releasing(p, b) \subseteq Releasing(p, b)'
           /\ a \notin Releasing(p, b)
           /\ p = x /\ b = y => a \in Releasing(p, b)'
  <1>1. tail'[a] = ReleaseTail(i, x, y) /\ \A c \in Threads \ {a} : tail'[c] = tail[c]
    BY DEF SetTail, TypeInv
  <1>2. a \notin Releasing(p, b)
    BY DEF Releasing, NoTail
  <1>3. Releasing(p, b) \subseteq Releasing(p, b)'
    BY <1>1, <1>2 DEF Releasing
  <1>4. p = x /\ b = y => a \in Releasing(p, b)'
    BY <1>1 DEF Releasing, ReleaseTail
  <1> QED BY <1>2, <1>3, <1>4

LedgerReady == IsFiniteSet(Threads) /\ RecordInv /\ TypeInv' /\ Ledger

\* A step that takes and gives back nothing.
LEMMA NothingLost ==
    ASSUME LedgerReady, UNCHANGED active,
           \A p \in Pool, b \in Backend : /\ Live(p, b) \subseteq Live(p, b)'
                                          /\ Holding(p, b) \subseteq Holding(p, b)'
                                          /\ Releasing(p, b) \subseteq Releasing(p, b)'
    PROVE  Ledger'
  <1> SUFFICES ASSUME NEW p \in Pool, NEW b \in Backend
               PROVE  Balance(active'[<<p, b>>], Live(p, b)', Holding(p, b)', Releasing(p, b)')
    BY DEF Ledger
  <1>1. active[<<p, b>>] \in Nat
    BY ActiveNumbers DEF LedgerReady, RecordInv, Inv
  <1>2. Balance(active[<<p, b>>], Live(p, b), Holding(p, b), Releasing(p, b))
    BY DEF LedgerReady, Ledger
  <1>3. active[<<p, b>>] <= active[<<p, b>>]
    BY <1>1
  <1> QED BY <1>1, <1>2, <1>3, LedgerFinite, BalanceSame DEF LedgerReady

\* A record leaves, and a thread sets out to release its slot.
LEMMA RecordLeaves ==
    ASSUME LedgerReady, UNCHANGED active, NEW a \in Threads, tail[a] = NoTail, NEW i, NEW x, NEW y,
           SetTail(a, ReleaseTail(i, x, y)),
           \A p \in Pool, b \in Backend : /\ Live(p, b) \ {i} \subseteq Live(p, b)'
                                          /\ i \in Live(p, b) => p = x /\ b = y
                                          /\ Holding(p, b) \subseteq Holding(p, b)'
    PROVE  Ledger'
  <1> SUFFICES ASSUME NEW p \in Pool, NEW b \in Backend
               PROVE  Balance(active'[<<p, b>>], Live(p, b)', Holding(p, b)', Releasing(p, b)')
    BY DEF Ledger
  <1>1. active[<<p, b>>] \in Nat /\ active[<<p, b>>] <= active[<<p, b>>]
    <2>1. active[<<p, b>>] \in Nat
      BY ActiveNumbers DEF LedgerReady, RecordInv, Inv
    <2> QED BY <2>1
  <1>2. Balance(active[<<p, b>>], Live(p, b), Holding(p, b), Releasing(p, b))
    BY DEF LedgerReady, Ledger
  <1>3. /\ Releasing(p, b) \subseteq Releasing(p, b)' /\ a \notin Releasing(p, b)
        /\ p = x /\ b = y => a \in Releasing(p, b)'
    BY TailGains DEF LedgerReady, RecordInv, Inv
  <1>4. CASE i \in Live(p, b)
    <2>1. GainsOne(Releasing(p, b), Releasing(p, b)') /\ LosesOne(Live(p, b), Live(p, b)')
      BY <1>3, <1>4 DEF GainsOne, LosesOne
    <2> QED BY <1>1, <1>2, <2>1, LedgerFinite, BalanceLeave DEF LedgerReady
  <1>5. CASE i \notin Live(p, b)
    <2>1. Live(p, b) \subseteq Live(p, b)'
      BY <1>5
    <2> QED BY <1>1, <1>2, <1>3, <2>1, LedgerFinite, BalanceSame DEF LedgerReady
  <1> QED BY <1>4, <1>5

\* Records other than one that is marked stay where they are.
LEMMA OthersStayLive ==
    ASSUME UNCHANGED worker, NEW i, \A j \in Id \ {i} : store'[j] = store[j], NEW p, NEW b
    PROVE  Live(p, b) \ {i} \subseteq Live(p, b)' /\ Holding(p, b) \subseteq Holding(p, b)'
  BY DEF Live, Occupants, Holding, IsAccounted

\* A request keeps the ledger.
LEMMA RequestLedger ==
    ASSUME LedgerReady, NEW t \in Requests, RequestStep(t)
    PROVE  Ledger'
  <1> DEFINE w == worker[t]
             v == worker'[t]
  <1>1. t \in Workers /\ t \in Threads /\ TypeInv /\ TypeInv' /\ OneOwner /\ OwnReservation /\ RecordInv
    BY DEF Workers, Threads, LedgerReady, RecordInv, Inv
  <1>2. \A u \in Workers \ {t} : worker'[u] = worker[u]
    BY <1>1, RequestEvolves
  <1>3. w.pc \in WithSlot => w.pool \in Pool /\ w.sel \in Backend
    BY <1>1 DEF TypeInv, GoodWorkers, GoodWorker, WithSlot
  <1>4. w.pc \in WithId => w.id \in Id /\ w.id \notin fresh
    BY <1>1 DEF TypeInv, GoodWorkers, GoodWorker, OneOwner
  <1>5. SettledAt(store, w)
    BY <1>1 DEF RecordInv, Settled
  <1>6. \A p \in Pool, b \in Backend :
           /\ Holding(p, b) \ {t} \subseteq Holding(p, b)'
           /\ w.pc \notin {"admit", "save"} => Holding(p, b) \subseteq Holding(p, b)' /\ t \notin Holding(p, b)
           /\ t \in Holding(p, b) => p = w.pool /\ b = w.sel
    BY <1>2 DEF Holding
  <1>7. ASSUME v.pc # "missing", NEW p, NEW b, NEW i \in Live(p, b), store'[i] = store[i] PROVE i \in Live(p, b)'
    BY <1>2, <1>7 DEF Live, Occupants, IsAccounted
  <1>8. UNCHANGED tail => \A p, b : Releasing(p, b) \subseteq Releasing(p, b)'
    BY DEF Releasing
  <1>9. \A p, b : Live(p, b) \subseteq Id
    BY DEF Live, Occupants
  <1>10. CASE Looks(t) \/ GetsRunner(t) \/ GetsError(t) \/ LosesReservation(t)
    <2>1. w.pc \notin {"admit", "save"} /\ v.pc # "missing" /\ UNCHANGED <<store, active, tail>>
      BY <1>10 DEF Looks, GetsRunner, GetsError, LosesReservation, Moves
    <2> QED BY <1>6, <1>7, <1>8, <2>1, NothingLost
  <1>11. CASE Passes(t)
    <2>1. /\ v.pc = "save" /\ v.pool = w.pool /\ v.sel = w.sel /\ UNCHANGED <<store, active, tail>>
      BY <1>11 DEF Passes, Moves, SameSlot
    <2>2. \A p \in Pool, b \in Backend : Holding(p, b) \subseteq Holding(p, b)'
      BY <1>2, <2>1 DEF Holding
    <2> QED BY <1>7, <1>8, <2>1, <2>2, NothingLost
  <1>12. CASE TakesSlot(t)
    <2> SUFFICES ASSUME NEW p \in Pool, NEW b \in Backend
                 PROVE  Balance(active'[<<p, b>>], Live(p, b)', Holding(p, b)', Releasing(p, b)')
      BY DEF Ledger
    <2>1. /\ w.pc = "reserve" /\ v.pc = "admit" /\ UNCHANGED <<store, tail>>
          /\ active' = [active EXCEPT ![<<v.pool, v.sel>>] = @ + 1]
      BY <1>12 DEF TakesSlot, Moves
    <2>2. v.pool \in Pool /\ v.sel \in Backend
      BY <1>1, <2>1 DEF TypeInv, GoodWorkers, GoodWorker, WithSlot
    <2>3. active[<<p, b>>] \in Nat /\ active'[<<p, b>>] \in Nat
      BY <1>1, ActiveNumbers
    <2>4. Balance(active[<<p, b>>], Live(p, b), Holding(p, b), Releasing(p, b))
      BY DEF LedgerReady, Ledger
    <2>5. /\ Live(p, b) \subseteq Live(p, b)' /\ Releasing(p, b) \subseteq Releasing(p, b)'
          /\ Holding(p, b) \subseteq Holding(p, b)' /\ t \notin Holding(p, b)
      BY <1>6, <1>7, <1>8, <2>1
    <2>6. active \in [Pool \X Backend -> Nat] /\ <<p, b>> \in Pool \X Backend /\ <<v.pool, v.sel>> \in Pool \X Backend
      BY <1>1, <2>2 DEF TypeInv
    <2>7. CASE p = v.pool /\ b = v.sel
      <3>1. active'[<<p, b>>] = active[<<p, b>>] + 1
        BY <2>1, <2>6, <2>7
      <3>2. t \in Holding(p, b)'
        BY <1>1, <2>1, <2>7 DEF Holding
      <3>3. GainsOne(Holding(p, b), Holding(p, b)')
        BY <2>5, <3>2 DEF GainsOne
      <3> QED BY <2>3, <2>4, <2>5, <3>1, <3>3, LedgerFinite, BalanceTake DEF LedgerReady
    <2>8. CASE ~(p = v.pool /\ b = v.sel)
      <3>1. <<p, b>> # <<v.pool, v.sel>>
        BY <2>8
      <3>2. active'[<<p, b>>] = active[<<p, b>>]
        BY <2>1, <2>6, <3>1
      <3>3. active'[<<p, b>>] <= active[<<p, b>>]
        BY <2>3, <3>2
      <3> QED BY <2>3, <2>4, <2>5, <3>3, LedgerFinite, BalanceSame DEF LedgerReady
    <2> QED BY <2>7, <2>8
  <1>13. CASE GivesBack(t)
    <2> SUFFICES ASSUME NEW p \in Pool, NEW b \in Backend
                 PROVE  Balance(active'[<<p, b>>], Live(p, b)', Holding(p, b)', Releasing(p, b)')
      BY DEF Ledger
    <2>1. v.pc # "missing" /\ ReleaseSlot(w.pool, w.sel) /\ UNCHANGED <<store, tail>>
      BY <1>13 DEF GivesBack, Moves
    <2>2. active[<<p, b>>] \in Nat /\ active'[<<p, b>>] \in Nat
      BY <1>1, ActiveNumbers
    <2>3. Balance(active[<<p, b>>], Live(p, b), Holding(p, b), Releasing(p, b))
      BY DEF LedgerReady, Ledger
    <2>4. Live(p, b) \subseteq Live(p, b)' /\ Releasing(p, b) \subseteq Releasing(p, b)'
      BY <1>7, <1>8, <2>1
    <2>5. CASE p = w.pool /\ b = w.sel
      <3>1. active'[<<p, b>>] = 0 \/ active'[<<p, b>>] + 1 = active[<<p, b>>]
        BY <1>1, <2>1, <2>5, ReleaseSlotMoves
      <3>2. LosesOne(Holding(p, b), Holding(p, b)')
        BY <1>6 DEF LosesOne
      <3> QED BY <2>2, <2>3, <2>4, <3>1, <3>2, LedgerFinite, BalanceGive DEF LedgerReady
    <2>6. CASE ~(p = w.pool /\ b = w.sel)
      <3>1. active'[<<p, b>>] = active[<<p, b>>]
        BY <1>1, <2>1, <2>6, ReleaseSlotMoves
      <3>2. active'[<<p, b>>] <= active[<<p, b>>] /\ Holding(p, b) \subseteq Holding(p, b)'
        BY <1>6, <2>2, <2>6, <3>1
      <3> QED BY <2>2, <2>3, <2>4, <3>2, LedgerFinite, BalanceSame DEF LedgerReady
    <2> QED BY <2>5, <2>6
  <1>14. CASE Reserves(t)
    <2> SUFFICES ASSUME NEW p \in Pool, NEW b \in Backend
                 PROVE  Balance(active'[<<p, b>>], Live(p, b)', Holding(p, b)', Releasing(p, b)')
      BY DEF Ledger
    <2>1. w.pc = "save" /\ v.pc = "provision" /\ UNCHANGED <<active, tail>>
      BY <1>14 DEF Reserves, Moves
    <2>2. PICK i \in fresh : /\ v.id = i /\ store'[i].state = "reserved"
                             /\ store'[i].pool = w.pool /\ store'[i].backend = w.sel
                             /\ \A j \in Id \ {i} : store'[j] = store[j]
      BY <1>14 DEF Reserves
    <2>3. i \in Id /\ store[i].state = "absent" /\ \A u \in Workers \ {t} : worker'[u].id # i
      BY <1>1, <1>2 DEF TypeInv, RecordInv, FreshAbsent, OneOwner
    <2>4. i \notin Live(p, b)
      BY <2>3 DEF Live, Occupants, IsAccounted, AccountedStates
    <2>5. Live(p, b) \subseteq Live(p, b)'
      BY <1>7, <1>9, <2>1, <2>2, <2>4
    <2>6. active[<<p, b>>] \in Nat /\ active'[<<p, b>>] = active[<<p, b>>]
      BY <1>1, <2>1, ActiveNumbers
    <2>7. Balance(active[<<p, b>>], Live(p, b), Holding(p, b), Releasing(p, b))
      BY DEF LedgerReady, Ledger
    <2>8. CASE p = w.pool /\ b = w.sel
      <3>1. i \in Live(p, b)'
        BY <2>1, <2>2, <2>3, <2>8 DEF Live, Occupants, IsAccounted, AccountedStates
      <3>2. GainsOne(Live(p, b), Live(p, b)') /\ LosesOne(Holding(p, b), Holding(p, b)')
        BY <1>6, <2>4, <2>5, <3>1 DEF GainsOne, LosesOne
      <3> QED BY <1>8, <2>1, <2>6, <2>7, <3>2, LedgerFinite, BalanceSave DEF LedgerReady
    <2>9. CASE ~(p = w.pool /\ b = w.sel)
      <3>1. Holding(p, b) \subseteq Holding(p, b)' /\ active'[<<p, b>>] <= active[<<p, b>>]
        BY <1>6, <2>6, <2>9
      <3> QED BY <1>8, <2>1, <2>5, <2>6, <2>7, <3>1, LedgerFinite, BalanceSame DEF LedgerReady
    <2> QED BY <2>8, <2>9
  <1>15. CASE IsRefused(t)
    <2> SUFFICES ASSUME NEW p \in Pool, NEW b \in Backend
                 PROVE  Balance(active'[<<p, b>>], Live(p, b)', Holding(p, b)', Releasing(p, b)')
      BY DEF Ledger
    <2>1. /\ v.pc # "missing" /\ tail[t] = NoTail /\ SetTail(t, ReleaseTail(w.id, w.pool, w.sel))
          /\ UNCHANGED <<store, active>>
      BY <1>15 DEF IsRefused, Moves
    <2>2. active[<<p, b>>] \in Nat /\ active'[<<p, b>>] = active[<<p, b>>]
      BY <1>1, <2>1, ActiveNumbers
    <2>3. Balance(active[<<p, b>>], Live(p, b), Holding(p, b), Releasing(p, b))
      BY DEF LedgerReady, Ledger
    <2>4. Live(p, b) \subseteq Live(p, b)'
      BY <1>7, <2>1
    <2>5. /\ Releasing(p, b) \subseteq Releasing(p, b)' /\ t \notin Releasing(p, b)
          /\ p = w.pool /\ b = w.sel => t \in Releasing(p, b)'
      BY <1>1, <2>1, TailGains
    <2>6. CASE p = w.pool /\ b = w.sel
      <3>1. GainsOne(Releasing(p, b), Releasing(p, b)') /\ LosesOne(Holding(p, b), Holding(p, b)')
        BY <1>6, <2>5, <2>6 DEF GainsOne, LosesOne
      <3> QED BY <2>2, <2>3, <2>4, <3>1, LedgerFinite, BalanceRefuse DEF LedgerReady
    <2>7. CASE ~(p = w.pool /\ b = w.sel)
      <3>1. Holding(p, b) \subseteq Holding(p, b)' /\ active'[<<p, b>>] <= active[<<p, b>>]
        BY <1>6, <2>2, <2>7
      <3> QED BY <2>2, <2>3, <2>4, <2>5, <3>1, LedgerFinite, BalanceSame DEF LedgerReady
    <2> QED BY <2>6, <2>7
  <1>16. ASSUME w.pc \in Deciding, NEW p, NEW b, w.id \in Live(p, b)
         PROVE  store[w.id].state = "reserved" /\ p = w.pool /\ b = w.sel
    <2>1. IsAccounted(store[w.id]) /\ store[w.id].pool = p /\ store[w.id].backend = b /\ w.id \in Id
      BY <1>16 DEF Live, Occupants
    <2>2. store[w.id].state = "reserved"
      BY <1>1, <1>5, <1>16, <2>1 DEF SettledAt, IsAccounted, AccountedStates, RecordInv, KnownStates
    <2> QED BY <1>1, <1>16, <2>1, <2>2 DEF OwnReservation
  <1>17. CASE FindsNoBackend(t)
    <2>1. /\ w.pc = "provision" /\ v.id = w.id /\ UNCHANGED <<store, active>>
          /\ tail[t] = NoTail /\ SetTail(t, ReleaseTail(w.id, w.pool, w.sel))
      BY <1>17 DEF FindsNoBackend, Moves, SameId
    <2>2. \A p \in Pool, b \in Backend : Live(p, b) \ {w.id} \subseteq Live(p, b)'
      BY <1>2, <2>1 DEF Live, Occupants, IsAccounted
    <2>3. \A p \in Pool, b \in Backend : w.id \in Live(p, b) => p = w.pool /\ b = w.sel
      BY <1>16, <2>1 DEF Deciding
    <2> QED BY <1>1, <1>6, <2>1, <2>2, <2>3, RecordLeaves
  <1>18. CASE Abandons(t)
    <2>1. /\ w.pc = "abandon" /\ v.pc # "missing" /\ MarksFailed(t) /\ UNCHANGED active
          /\ tail[t] = NoTail /\ SetTail(t, ReleaseTail(w.id, w.pool, w.sel))
      BY <1>18 DEF Abandons, Moves
    <2>2. \A p \in Pool, b \in Backend : Live(p, b) \ {w.id} \subseteq Live(p, b)'
      BY <1>7, <1>9, <2>1 DEF MarksFailed
    <2>3. \A p \in Pool, b \in Backend : w.id \in Live(p, b) => p = w.pool /\ b = w.sel
      BY <1>16, <2>1 DEF Deciding
    <2> QED BY <1>1, <1>6, <2>1, <2>2, <2>3, RecordLeaves
  <1>19. CASE MarksMissing(t)
    <2>1. w.pc = "missing" /\ v.pc # "missing" /\ MarksFailed(t) /\ UNCHANGED <<active, tail>>
      BY <1>19 DEF MarksMissing, Moves
    <2>2. \A p, b : w.id \notin Live(p, b)
      BY <1>1, <2>1 DEF Live
    <2>3. \A p \in Pool, b \in Backend : Live(p, b) \subseteq Live(p, b)'
      BY <1>7, <1>9, <2>1, <2>2 DEF MarksFailed
    <2> QED BY <1>6, <1>8, <2>1, <2>3, NothingLost
  <1>20. CASE Commits(t)
    <2>1. /\ w.pc = "commit" /\ v.pc = "done" /\ store[w.id].state = "reserved" /\ UNCHANGED <<active, tail>>
          /\ \A j \in Id \ {w.id} : store'[j] = store[j]
          /\ store'[w.id].state = "ready" /\ store'[w.id].pool = w.pool /\ store'[w.id].backend = w.sel
      BY <1>20 DEF Commits, Moves
    <2>2. ASSUME NEW p \in Pool, NEW b \in Backend, w.id \in Live(p, b) PROVE w.id \in Live(p, b)'
      <3>1. p = w.pool /\ b = w.sel
        BY <1>16, <2>1, <2>2 DEF Deciding
      <3> QED BY <1>2, <2>1, <2>2, <3>1 DEF Live, Occupants, IsAccounted, AccountedStates
    <2>3. \A p \in Pool, b \in Backend : Live(p, b) \subseteq Live(p, b)'
      BY <1>7, <1>9, <2>1, <2>2
    <2> QED BY <1>6, <1>8, <2>1, <2>3, NothingLost
  <1>21. CASE LosesCommit(t)
    <2>1. /\ w.pc = "commit" /\ v.pc # "missing" /\ UNCHANGED <<store, active>>
          /\ tail[t] = NoTail /\ SetTail(t, CleanupTail(w.id, w.pool, w.sel))
      BY <1>21 DEF LosesCommit, Moves
    <2>2. \A p \in Pool, b \in Backend : Releasing(p, b) \subseteq Releasing(p, b)'
      <3>1. \A a \in Threads \ {t} : tail'[a] = tail[a]
        BY <1>1, RequestEvolves
      <3> QED BY <2>1, <3>1 DEF Releasing, NoTail
    <2> QED BY <1>6, <1>7, <2>1, <2>2, NothingLost
  <1>22. CASE Retries(t)
    <2>1. /\ w.pc = "retry" /\ v.pc # "missing" /\ UNCHANGED <<active, tail>>
          /\ \A j \in Id \ {w.id} : store'[j] = store[j]
      BY <1>22 DEF Retries, Moves
    <2>2. \A p, b : w.id \notin Live(p, b)
      BY <1>1, <1>5, <2>1 DEF Live, Occupants, SettledAt, IsAccounted, AccountedStates, ActiveStates, RecordInv, KnownStates
    <2>3. \A p \in Pool, b \in Backend : Live(p, b) \subseteq Live(p, b)'
      BY <1>7, <1>9, <2>1, <2>2
    <2> QED BY <1>6, <1>8, <2>1, <2>3, NothingLost
  <1> QED BY <1>10, <1>11, <1>12, <1>13, <1>14, <1>15, <1>17, <1>18, <1>19, <1>20, <1>21, <1>22 DEF RequestStep

-----------------------------------------------------------------------------
(***************************************************************************)
(* What the callbacks and the reaper do: they end a record and take its    *)
(* slot and runner over, or leave both alone.                              *)
(***************************************************************************)

\* Record i ends, and thread a sets out to release its slot and to tear its
\* runner down.  When the record does not count, somebody else has done so.
Ends(a, i) ==
    /\ tail[a] = NoTail
    /\ \A c \in Threads \ {a} : tail'[c] = tail[c]
    /\ IsAccounted(store[i]) => tail'[a] = ReleaseTail(i, store[i].pool, store[i].backend)
    /\ \A j \in Id \ {i} : store'[j] = store[j]
    /\ UNCHANGED <<active, runners, fresh, worker>>

Steady ==
    /\ \A i \in Id : IsAccounted(store[i]) => store'[i] = store[i]
    /\ UNCHANGED <<active, runners, fresh, worker, tail>>

\* The tails after one of them was set.
LEMMA SetTailMoves ==
    ASSUME TypeInv, NEW a \in Threads, NEW x, SetTail(a, x)
    PROVE  tail'[a] = x /\ \A c \in Threads \ {a} : tail'[c] = tail[c]
  BY DEF TypeInv, SetTail

\* The record in the hands of a completion or of the reaper may be stale, but
\* it names the slot and the runner of a record that still counts.
LEMMA OtherShapes ==
    ASSUME RecordInv
    PROVE  /\ \A c \in Cancels, i \in Id : Cancel(c, i) => \E a \in Threads, j \in Id : Ends(a, j)
           /\ \A c, i, to : CompleteRead(c, i, to) => Steady
           /\ \A c \in Completes : CompleteMark(c) => \E a \in Threads, j \in Id : Ends(a, j)
           /\ SweepStep => Steady \/ \E a \in Threads, j \in Id : Ends(a, j)
  <1>1. TypeInv /\ \A i \in Id : store[i] \in Record
    BY DEF RecordInv, Inv, TypeInv, GoodStore
  <1>2. \A i, to : \A j \in Id \ {i} : MarkState(store, i, to)[j] = store[j]
    BY <1>1 DEF MarkState, TypeInv, GoodStore
  <1>3. ASSUME NEW c \in Cancels, NEW i \in Id, Cancel(c, i) PROVE \E a \in Threads, j \in Id : Ends(a, j)
    <2>1. c \in Threads
      BY DEF Threads
    <2>2. Ends(c, i)
      BY <1>1, <1>2, <1>3, <2>1, SetTailMoves DEF Cancel, Ends
    <2> QED BY <2>1, <2>2
  <1>4. \A c, i, to : CompleteRead(c, i, to) => Steady
    BY DEF CompleteRead, ReadForWrite, Steady
  <1>5. ASSUME NEW c \in Completes, CompleteMark(c) PROVE \E a \in Threads, j \in Id : Ends(a, j)
    <2> DEFINE i == call[c].id
               old == call[c].rec
               x == IF store[i].state # "absent" /\ IsActive(old) THEN ReleaseTail(i, old.pool, old.backend) ELSE NoTail
    <2>1. /\ call[c] # NoCall /\ store' = MarkState(store, i, call[c].to) /\ SetTail(c, x)
          /\ UNCHANGED <<active, runners, fresh, worker>>
      BY <1>5 DEF CompleteMark
    <2>2. c \in Threads /\ i \in Id /\ tail[c] = NoTail /\ Agrees(fresh, store, old, i)
      BY <2>1 DEF RecordInv, CallsAgree, Inv, TypeInv, GoodCalls, GoodCall, Callers, Threads
    <2>3. IsAccounted(store[i]) => x = ReleaseTail(i, store[i].pool, store[i].backend)
      BY <2>2 DEF Agrees, IsAccounted, AccountedStates
    <2> HIDE DEF x, old, i
    <2>4. Ends(c, i)
      BY <1>1, <1>2, <2>1, <2>2, <2>3, SetTailMoves DEF Ends
    <2> QED BY <2>2, <2>4
  <1>6. ASSUME SweepStep PROVE Steady \/ \E a \in Threads, j \in Id : Ends(a, j)
    <2>1. Sweep \in Threads
      BY DEF Threads
    <2>2. SweepList => Steady
      BY DEF SweepList, Steady
    <2>3. \A i \in Id : SweepKeep(i) => Steady
      BY DEF SweepKeep, Steady
    <2>4. ASSUME NEW D, SweepPrune(D) PROVE Steady
      <3>1. \A i \in Id : IsAccounted(store[i]) => store'[i] = store[i]
        BY <2>4 DEF SweepPrune, Delete, Prunable, IsTerminal, IsAccounted, TerminalStates, AccountedStates
      <3> QED BY <2>4, <3>1 DEF SweepPrune, Steady
    <2>5. ASSUME NEW i \in Id, NEW from, Visit(i, from), NEW x, SetTail(Sweep, x), NEW to,
                 store' = MarkState(store, i, to), UNCHANGED <<active, runners, fresh, worker>>,
                 IsAccounted(store[i]) => x = ReleaseTail(i, store[i].pool, store[i].backend)
          PROVE  Ends(Sweep, i)
      BY <1>1, <1>2, <2>1, <2>5, SetTailMoves DEF Ends, Visit
    <2>6. ASSUME NEW i \in Id, sweep.todo[i].state # "absent" PROVE Agrees(fresh, store, sweep.todo[i], i)
      BY <2>6 DEF RecordInv, SweepAgrees, NoRecord
    <2>7. ASSUME NEW i \in Id, NEW to, Visit(i, ActiveStates), Reap(i, to) PROVE Ends(Sweep, i)
      <3> DEFINE x == IF store[i].state # "absent"
                      THEN ReleaseTail(i, sweep.todo[i].pool, sweep.todo[i].backend) ELSE NoTail
      <3>1. SetTail(Sweep, x) /\ store' = MarkState(store, i, to) /\ UNCHANGED <<active, runners, fresh, worker>>
        BY <2>7 DEF Reap
      <3>2. Agrees(fresh, store, sweep.todo[i], i)
        BY <2>6, <2>7 DEF Visit, ActiveStates
      <3>3. IsAccounted(store[i]) => x = ReleaseTail(i, store[i].pool, store[i].backend)
        BY <3>2 DEF Agrees, IsAccounted, AccountedStates
      <3> HIDE DEF x
      <3> QED BY <2>5, <2>7, <3>1, <3>3
    <2>8. ASSUME NEW i \in Id, SweepQuarantine(i) PROVE Ends(Sweep, i)
      <3>1. /\ Visit(i, {"quarantined"}) /\ store' = MarkState(store, i, "expired")
            /\ (\E x : SetTail(Sweep, x)) /\ UNCHANGED <<active, runners, fresh, worker>>
        BY <2>8 DEF SweepQuarantine
      <3>2. Agrees(fresh, store, sweep.todo[i], i) /\ ~IsActive(sweep.todo[i])
        BY <2>6, <3>1 DEF Visit, IsActive, ActiveStates
      <3>3. ~IsAccounted(store[i])
        BY <3>2 DEF Agrees
      <3> QED BY <2>5, <3>1, <3>3
    <2>9. \A i \in Id : SweepUnregistered(i) \/ SweepJobTimeout(i) => Ends(Sweep, i)
      BY <2>7 DEF SweepUnregistered, SweepJobTimeout
    <2> QED BY <1>6, <2>1, <2>2, <2>3, <2>4, <2>8, <2>9 DEF SweepStep
  <1> QED BY <1>3, <1>4, <1>5, <1>6

\* The callbacks, the reaper and the releases keep the ledger.
LEMMA OtherLedger ==
    ASSUME LedgerReady
    PROVE  /\ \A a \in Threads, i \in Id : Ends(a, i) => Ledger'
           /\ Steady => Ledger'
           /\ \A a \in Threads : TailStep(a) => Ledger'
  <1>1. TypeInv /\ TypeInv'
    BY DEF LedgerReady, RecordInv, Inv
  <1>2. ASSUME NEW a \in Threads, NEW i \in Id, Ends(a, i) PROVE Ledger'
    <2>1. \A p \in Pool, b \in Backend :
             Live(p, b) \ {i} \subseteq Live(p, b)' /\ Holding(p, b) \subseteq Holding(p, b)'
      BY <1>2, OthersStayLive DEF Ends
    <2>2. \A p, b : i \in Live(p, b) => IsAccounted(store[i]) /\ p = store[i].pool /\ b = store[i].backend
      BY DEF Live, Occupants
    <2>3. CASE IsAccounted(store[i])
      <3>1. SetTail(a, ReleaseTail(i, store[i].pool, store[i].backend))
        BY <1>1, <1>2, <2>3 DEF Ends, SetTail, TypeInv
      <3> QED BY <1>2, <2>1, <2>2, <3>1, RecordLeaves DEF Ends
    <2>4. CASE ~IsAccounted(store[i])
      <3>1. \A p \in Pool, b \in Backend : Live(p, b) \subseteq Live(p, b)'
        BY <2>1, <2>2, <2>4
      <3>2. \A p \in Pool, b \in Backend : Releasing(p, b) \subseteq Releasing(p, b)'
        BY <1>2 DEF Ends, Releasing, NoTail
      <3> QED BY <1>2, <2>1, <3>1, <3>2, NothingLost DEF Ends
    <2> QED BY <2>3, <2>4
  <1>3. ASSUME Steady PROVE Ledger'
    <2>1. \A p \in Pool, b \in Backend : /\ Live(p, b) \subseteq Live(p, b)'
                                         /\ Holding(p, b) \subseteq Holding(p, b)'
                                         /\ Releasing(p, b) \subseteq Releasing(p, b)'
      BY <1>3 DEF Steady, Live, Occupants, Holding, Releasing, IsAccounted
    <2> QED BY <1>3, <2>1, NothingLost DEF Steady
  <1>4. ASSUME NEW a \in Threads, Release(a) PROVE Ledger'
    <2> SUFFICES ASSUME NEW p \in Pool, NEW b \in Backend
                 PROVE  Balance(active'[<<p, b>>], Live(p, b)', Holding(p, b)', Releasing(p, b)')
      BY DEF Ledger
    <2>1. /\ ReleaseSlot(tail[a].pool, tail[a].backend) /\ UNCHANGED <<store, worker>>
          /\ tail' = [tail EXCEPT ![a].phase = "cleanup"]
      BY <1>4 DEF Release
    <2>2. Live(p, b) \subseteq Live(p, b)' /\ Holding(p, b) \subseteq Holding(p, b)'
      BY <2>1 DEF Live, Occupants, Holding, IsAccounted
    <2>3. \A c \in Threads \ {a} : tail'[c] = tail[c]
      BY <1>1, <2>1 DEF TypeInv
    <2>4. Releasing(p, b) \ {a} \subseteq Releasing(p, b)'
      BY <2>3 DEF Releasing
    <2>5. active[<<p, b>>] \in Nat /\ active'[<<p, b>>] \in Nat
      BY <1>1, ActiveNumbers
    <2>6. Balance(active[<<p, b>>], Live(p, b), Holding(p, b), Releasing(p, b))
      BY DEF LedgerReady, Ledger
    <2>7. CASE p = tail[a].pool /\ b = tail[a].backend
      <3>1. active'[<<p, b>>] = 0 \/ active'[<<p, b>>] + 1 = active[<<p, b>>]
        BY <1>1, <2>1, <2>7, ReleaseSlotMoves
      <3>2. LosesOne(Releasing(p, b), Releasing(p, b)')
        BY <2>4 DEF LosesOne
      <3> QED BY <2>2, <2>5, <2>6, <3>1, <3>2, LedgerFinite, BalanceRelease DEF LedgerReady
    <2>8. CASE ~(p = tail[a].pool /\ b = tail[a].backend)
      <3>1. active'[<<p, b>>] = active[<<p, b>>]
        BY <1>1, <2>1, <2>8, ReleaseSlotMoves
      <3>2. Releasing(p, b) \subseteq Releasing(p, b)' /\ active'[<<p, b>>] <= active[<<p, b>>]
        BY <2>4, <2>5, <2>8, <3>1 DEF Releasing
      <3> QED BY <2>2, <2>5, <2>6, <3>2, LedgerFinite, BalanceSame DEF LedgerReady
    <2> QED BY <2>7, <2>8
  <1>5. ASSUME NEW a \in Threads, Cleanup(a) \/ CleanupFails(a) PROVE Ledger'
    <2>1. tail[a].phase = "cleanup" /\ SetTail(a, NoTail) /\ UNCHANGED <<store, active, worker>>
      BY <1>5 DEF Cleanup, CleanupFails
    <2>2. \A p \in Pool, b \in Backend : /\ Live(p, b) \subseteq Live(p, b)'
                                         /\ Holding(p, b) \subseteq Holding(p, b)'
      BY <2>1 DEF Live, Occupants, Holding, IsAccounted
    <2>3. \A c \in Threads \ {a} : tail'[c] = tail[c]
      BY <1>1, <2>1, SetTailMoves
    <2>4. \A p \in Pool, b \in Backend : Releasing(p, b) \subseteq Releasing(p, b)'
      BY <2>1, <2>3 DEF Releasing
    <2> QED BY <2>1, <2>2, <2>4, NothingLost
  <1> QED BY <1>2, <1>3, <1>4, <1>5 DEF TailStep

\* Every step of the broker keeps the ledger.
LEMMA LedgerNext ==
    ASSUME Claims = {}, ~QueueEnabled, IsFiniteSet(Threads)
    PROVE  RecordInv /\ Ledger /\ [Next]_vars => Ledger'
  <1> SUFFICES ASSUME RecordInv, Ledger, [Next]_vars PROVE Ledger'
    OBVIOUS
  <1>1. LedgerReady /\ TypeInv /\ QuietQueue
    BY TypeNext DEF LedgerReady, RecordInv, Inv
  <1>2. CASE UNCHANGED vars
    BY <1>2 DEF vars, Ledger, Live, Occupants, Holding, Releasing, IsAccounted
  <1>3. CASE Next
    BY <1>1, <1>3, NextCases, RequestLedger, OtherShapes, OtherLedger
  <1> QED BY <1>2, <1>3

\* No slot of the scheduler is lost: without a queue and without claim
\* callbacks, and with finitely many threads, every slot that is taken is
\* answered for by a reserved or ready record, by a thread on its way to
\* SaveIfCapacity or by a pending release, however provisions fail and cancel,
\* completion and reaper meet on one allocation.
THEOREM NoSlotIsLost ==
    ASSUME Claims = {}, ~QueueEnabled, IsFiniteSet(Threads)
    PROVE  Spec => []NoSlotLeak
  <1>1. Init => Ledger
    <2> SUFFICES ASSUME Init, NEW p \in Pool, NEW b \in Backend
                 PROVE  Balance(active[<<p, b>>], Live(p, b), Holding(p, b), Releasing(p, b))
      BY DEF Ledger
    <2>1. active[<<p, b>>] = 0
      BY DEF Init
    <2>2. AllFinite(Live(p, b), Holding(p, b), Releasing(p, b), Live(p, b)', Holding(p, b)', Releasing(p, b)')
      BY LedgerFinite
    <2>3. /\ Cardinality(Live(p, b)) \in Nat /\ Cardinality(Holding(p, b)) \in Nat
          /\ Cardinality(Releasing(p, b)) \in Nat
      BY <2>2, FS_CardinalityType DEF AllFinite
    <2> QED BY <2>1, <2>3 DEF Balance
  <1>2. TypeInv /\ Ledger => NoSlotLeak
    <2> SUFFICES ASSUME TypeInv, Ledger, NEW p \in Pool, NEW b \in Backend
                 PROVE  Balance(active[<<p, b>>], Occupants(store, p, b), Holding(p, b), Releasing(p, b))
      BY DEF NoSlotLeak, Balance
    <2>1. active[<<p, b>>] \in Nat
      BY DEF TypeInv
    <2>2. /\ Live(p, b) \subseteq Occupants(store, p, b) /\ Occupants(store, p, b) \subseteq Id
          /\ Holding(p, b) \subseteq Holding(p, b) /\ Releasing(p, b) \subseteq Releasing(p, b)
          /\ active[<<p, b>>] <= active[<<p, b>>]
      BY <2>1 DEF Live, Occupants
    <2>3. AllFinite(Live(p, b), Holding(p, b), Releasing(p, b), Occupants(store, p, b), Holding(p, b), Releasing(p, b))
      BY <2>2, LedgerFinite, StoreAssumption, FS_Subset DEF AllFinite
    <2>4. Balance(active[<<p, b>>], Live(p, b), Holding(p, b), Releasing(p, b))
      BY DEF Ledger
    <2> QED BY <2>1, <2>2, <2>3, <2>4, BalanceSame
  <1>3. RecordInv => TypeInv
    BY DEF RecordInv, Inv
  <1> QED BY <1>1, <1>2, <1>3, LedgerNext, RecordsAlways, PTL DEF Spec

-----------------------------------------------------------------------------
(***************************************************************************)
(* The runners.  NoRunnerLeak is not inductive by itself: that a failed or *)
(* abandoned reservation leaves no runner behind rests on no runner having *)
(* been started under its id, and that a cleanup reaches the runner rests  *)
(* on its backend having an implementation.                                *)
(***************************************************************************)
NoRunnerYet == {"provision", "missing", "abandon", "retry"}

RunnersKnown ==
    /\ \A x \in runners : x[1] \notin fresh /\ x[2] \in Registered
    /\ \A t \in Workers : worker[t].pc \in NoRunnerYet =>
          \A b \in Backend : <<worker[t].id, b>> \notin runners

\* Who answers for a runner.
ByRecord(x) == IsAccounted(store[x[1]]) /\ store[x[1]].backend = x[2]
ByCommit(x) == \E t \in Workers : worker[t].pc = "commit" /\ worker[t].id = x[1] /\ worker[t].sel = x[2]
ByTail(x) == \E a \in Threads : tail[a].phase # "none" /\ tail[a].id = x[1] /\ tail[a].backend = x[2]

RunnerInv == RunnersKnown /\ NoRunnerLeak

\* The invariant after a step, one runner at a time.
LEMMA RunnersAnswered ==
    ASSUME RunnersKnown', \A x \in runners' : ByRecord(x)' \/ ByCommit(x)' \/ ByTail(x)'
    PROVE  RunnerInv'
  BY DEF RunnerInv, NoRunnerLeak, ByRecord, ByCommit, ByTail

\* A request loses no runner.
LEMMA RequestRunners ==
    ASSUME RecordInv, TypeInv', RunnerInv, NEW t \in Requests, RequestStep(t)
    PROVE  RunnerInv'
  <1> DEFINE w == worker[t]
             v == worker'[t]
  <1>1. t \in Workers /\ t \in Threads /\ TypeInv /\ OneOwner /\ OwnReservation
    BY DEF Workers, Threads, RecordInv, Inv
  <1>2. /\ \A u \in Workers \ {t} : worker'[u] = worker[u]
        /\ \A a \in Threads \ {t} : tail'[a] = tail[a]
        /\ fresh' \subseteq fresh
    BY RequestEvolves DEF Evolves
  <1>3. runners \subseteq Id \X Backend
    BY <1>1 DEF TypeInv
  <1>4. w.pc \in WithId => w.id \in Id /\ w.sel \in Backend /\ w.id \notin fresh
    BY <1>1 DEF TypeInv, GoodWorkers, GoodWorker, WithId, WithSlot, OneOwner
  <1>5. \A u \in Workers : worker[u].pc \in WithId => worker[u].id \in Id
    BY <1>1 DEF TypeInv, GoodWorkers, GoodWorker
  <1>6. w.pc \in NoRunnerYet => \A x \in runners : x[1] # w.id
    <2> SUFFICES ASSUME w.pc \in NoRunnerYet, NEW x \in runners, x[1] = w.id PROVE FALSE
      OBVIOUS
    <2>1. x = <<x[1], x[2]>> /\ x[2] \in Backend
      BY <1>3
    <2> QED BY <1>1, <2>1 DEF RunnerInv, RunnersKnown
  <1>7. \A x \in runners : x[1] \in Id /\ x[1] \notin fresh
    BY <1>3 DEF RunnerInv, RunnersKnown
  \* Those who answer for the runners that are there already.
  <1>8. ASSUME NEW x \in runners, store'[x[1]] = store[x[1]], w.pc # "commit",
               tail[t] = NoTail \/ UNCHANGED tail
        PROVE  ByRecord(x)' \/ ByCommit(x)' \/ ByTail(x)'
    <2>1. CASE ByRecord(x)
      BY <1>8, <2>1 DEF ByRecord, IsAccounted
    <2>2. CASE ByCommit(x)
      BY <1>2, <1>8, <2>2 DEF ByCommit
    <2>3. CASE ByTail(x)
      BY <1>2, <1>8, <2>3 DEF ByTail, NoTail
    <2> QED BY <2>1, <2>2, <2>3 DEF RunnerInv, NoRunnerLeak, ByRecord, ByCommit, ByTail
  \* The threads without a runner.
  <1>9. ASSUME runners' = runners \/ runners' = runners \cup {<<w.id, w.sel>>},
               v.pc \in NoRunnerYet =>
                  runners' = runners /\ (v.id \in fresh \/ (v.id = w.id /\ w.pc \in NoRunnerYet)),
               runners' # runners => w.pc \in WithId /\ w.sel \in Registered
        PROVE  RunnersKnown'
    <2>1. ASSUME NEW x \in runners' PROVE x[1] \notin fresh' /\ x[2] \in Registered
      <3>1. CASE x \in runners
        BY <1>2, <3>1 DEF RunnerInv, RunnersKnown
      <3>2. CASE x \notin runners
        <4>1. x = <<w.id, w.sel>> /\ runners' # runners
          BY <1>9, <2>1, <3>2
        <4> QED BY <1>2, <1>4, <1>9, <4>1
      <3> QED BY <3>1, <3>2
    <2>2. ASSUME NEW u \in Workers, worker'[u].pc \in NoRunnerYet, NEW b \in Backend
          PROVE  <<worker'[u].id, b>> \notin runners'
      <3>1. CASE u = t
        <4>1. runners' = runners /\ (v.id \in fresh \/ (v.id = w.id /\ w.pc \in NoRunnerYet))
          BY <1>9, <2>2, <3>1
        <4> QED BY <1>6, <1>7, <3>1, <4>1
      <3>2. CASE u # t
        <4>1. worker'[u] = worker[u] /\ <<worker[u].id, b>> \notin runners
          BY <1>2, <2>2, <3>2 DEF RunnerInv, RunnersKnown
        <4>2. worker[u].id \in Id
          BY <1>5, <2>2, <4>1 DEF NoRunnerYet, WithId
        <4>3. worker[u].id # w.id
          BY <1>1, <3>2, <4>2, BrokerAssumption DEF OneOwner
        <4> QED BY <1>9, <4>1, <4>3
      <3> QED BY <3>1, <3>2
    <2> QED BY <2>1, <2>2 DEF RunnersKnown
  <1>10. CASE \/ Looks(t) \/ TakesSlot(t) \/ Passes(t) \/ GivesBack(t) \/ IsRefused(t)
              \/ FindsNoBackend(t) \/ GetsError(t) \/ LosesReservation(t)
    <2>1. /\ UNCHANGED <<store, runners>> /\ w.pc # "commit" /\ (tail[t] = NoTail \/ UNCHANGED tail)
          /\ v.pc \in NoRunnerYet => v.id = w.id /\ w.pc \in NoRunnerYet
      BY <1>10 DEF Looks, TakesSlot, Passes, GivesBack, IsRefused, FindsNoBackend, GetsError, LosesReservation,
                   Moves, SameId, NoRunnerYet
    <2> QED BY <1>8, <1>9, <2>1, RunnersAnswered
  <1>11. CASE Reserves(t)
    <2>1. w.pc = "save" /\ UNCHANGED <<runners, tail>>
      BY <1>11 DEF Reserves, Moves
    <2>2. PICK i \in fresh : v.id = i /\ \A j \in Id \ {i} : store'[j] = store[j]
      BY <1>11 DEF Reserves
    <2>3. \A x \in runners : store'[x[1]] = store[x[1]]
      BY <1>7, <2>2
    <2> QED BY <1>8, <1>9, <2>1, <2>2, <2>3, RunnersAnswered
  <1>12. CASE MarksMissing(t) \/ Abandons(t) \/ Retries(t)
    <2>1. /\ w.pc \in NoRunnerYet /\ w.pc # "commit" /\ UNCHANGED runners /\ (tail[t] = NoTail \/ UNCHANGED tail)
          /\ \A j \in Id \ {w.id} : store'[j] = store[j]
          /\ v.pc \in NoRunnerYet => v.id = w.id
      BY <1>12 DEF MarksMissing, Abandons, Retries, MarksFailed, Moves, SameId, NoRunnerYet
    <2>2. \A x \in runners : store'[x[1]] = store[x[1]]
      BY <1>6, <1>7, <2>1
    <2> QED BY <1>8, <1>9, <2>1, <2>2, RunnersAnswered
  <1>13. CASE GetsRunner(t)
    <2>1. /\ w.pc = "provision" /\ v.pc = "commit" /\ v.id = w.id /\ v.sel = w.sel /\ w.sel \in Registered
          /\ runners' = runners \cup {<<w.id, w.sel>>} /\ UNCHANGED <<store, tail>>
      BY <1>13 DEF GetsRunner, Moves, SameSlot, SameId
    <2>2. RunnersKnown'
      BY <1>9, <2>1 DEF NoRunnerYet, WithId
    <2>3. ByCommit(<<w.id, w.sel>>)'
      BY <1>1, <2>1 DEF ByCommit
    <2>4. \A x \in runners : ByRecord(x)' \/ ByCommit(x)' \/ ByTail(x)'
      BY <1>8, <2>1
    <2> QED BY <2>1, <2>2, <2>3, <2>4, RunnersAnswered
  \* The runner of a commit goes to the record or to the thread's own tail.
  <1>14. CASE Commits(t)
    <2>1. /\ w.pc = "commit" /\ v.pc = "done" /\ store[w.id].state = "reserved" /\ UNCHANGED <<runners, tail>>
          /\ \A j \in Id \ {w.id} : store'[j] = store[j]
          /\ store'[w.id].state = "ready" /\ store'[w.id].backend = w.sel
      BY <1>14 DEF Commits, Moves
    <2>2. store[w.id].backend = w.sel
      BY <1>1, <2>1 DEF OwnReservation, Deciding
    <2>3. RunnersKnown'
      BY <1>9, <2>1 DEF NoRunnerYet
    <2>4. ASSUME NEW x \in runners PROVE ByRecord(x)' \/ ByCommit(x)' \/ ByTail(x)'
      <3>1. CASE ByRecord(x)
        BY <1>7, <2>1, <2>2, <3>1 DEF ByRecord, IsAccounted, AccountedStates
      <3>2. CASE ByCommit(x)
        <4>1. PICK u \in Workers : worker[u].pc = "commit" /\ worker[u].id = x[1] /\ worker[u].sel = x[2]
          BY <3>2 DEF ByCommit
        <4>2. CASE u = t
          BY <2>1, <4>1, <4>2 DEF ByRecord, IsAccounted, AccountedStates
        <4>3. CASE u # t
          BY <1>2, <4>1, <4>3 DEF ByCommit
        <4> QED BY <4>2, <4>3
      <3>3. CASE ByTail(x)
        BY <2>1, <3>3 DEF ByTail
      <3> QED BY <3>1, <3>2, <3>3 DEF RunnerInv, NoRunnerLeak, ByRecord, ByCommit, ByTail
    <2> QED BY <2>1, <2>3, <2>4, RunnersAnswered
  <1>15. CASE LosesCommit(t)
    <2>1. /\ w.pc = "commit" /\ v.pc = "done" /\ UNCHANGED <<store, runners>> /\ tail[t] = NoTail
          /\ tail'[t] = CleanupTail(w.id, w.pool, w.sel)
      BY <1>1, <1>15 DEF LosesCommit, Moves, SetTail, TypeInv
    <2>2. RunnersKnown'
      BY <1>9, <2>1 DEF NoRunnerYet
    <2>3. ASSUME NEW x \in runners PROVE ByRecord(x)' \/ ByCommit(x)' \/ ByTail(x)'
      <3>1. CASE ByRecord(x)
        BY <2>1, <3>1 DEF ByRecord, IsAccounted
      <3>2. CASE ByCommit(x)
        <4>1. PICK u \in Workers : worker[u].pc = "commit" /\ worker[u].id = x[1] /\ worker[u].sel = x[2]
          BY <3>2 DEF ByCommit
        <4>2. CASE u = t
          BY <1>1, <2>1, <4>1, <4>2 DEF ByTail, CleanupTail
        <4>3. CASE u # t
          BY <1>2, <4>1, <4>3 DEF ByCommit
        <4> QED BY <4>2, <4>3
      <3>3. CASE ByTail(x)
        BY <1>2, <2>1, <3>3 DEF ByTail, NoTail
      <3> QED BY <3>1, <3>2, <3>3 DEF RunnerInv, NoRunnerLeak, ByRecord, ByCommit, ByTail
    <2> QED BY <2>1, <2>2, <2>3, RunnersAnswered
  <1> QED BY <1>10, <1>11, <1>12, <1>13, <1>14, <1>15 DEF RequestStep

\* Neither does a callback, the reaper or a release whose cleanup succeeds.
LEMMA OtherRunners ==
    ASSUME RecordInv, RunnerInv, ~CleanupMayFail
    PROVE  /\ \A a \in Threads, i \in Id : Ends(a, i) => RunnerInv'
           /\ Steady => RunnerInv'
           /\ \A a \in Threads : TailStep(a) => RunnerInv'
  <1>1. /\ TypeInv /\ runners \subseteq Id \X Backend /\ \A x \in runners : x[1] \in Id
        /\ \A x \in runners : ByRecord(x) \/ ByCommit(x) \/ ByTail(x)
    BY DEF RecordInv, Inv, TypeInv, RunnerInv, NoRunnerLeak, ByRecord, ByCommit, ByTail
  <1>2. ASSUME runners' \subseteq runners, UNCHANGED <<fresh, worker>> PROVE RunnersKnown'
    BY <1>2 DEF RunnerInv, RunnersKnown
  <1>3. UNCHANGED worker => \A x : ByCommit(x) => ByCommit(x)'
    BY DEF ByCommit
  <1>4. ASSUME NEW a \in Threads, NEW i \in Id, Ends(a, i) PROVE RunnerInv'
    <2>1. /\ tail[a] = NoTail /\ (\A c \in Threads \ {a} : tail'[c] = tail[c])
          /\ IsAccounted(store[i]) => tail'[a] = ReleaseTail(i, store[i].pool, store[i].backend)
          /\ \A j \in Id \ {i} : store'[j] = store[j]
          /\ UNCHANGED <<runners, fresh, worker>>
      BY <1>4 DEF Ends
    <2>2. ASSUME NEW x \in runners PROVE ByRecord(x)' \/ ByCommit(x)' \/ ByTail(x)'
      <3>1. CASE ByRecord(x)
        <4>1. CASE x[1] = i
          BY <2>1, <3>1, <4>1 DEF ByRecord, ByTail, ReleaseTail
        <4>2. CASE x[1] # i
          BY <1>1, <2>1, <3>1, <4>2 DEF ByRecord, IsAccounted
        <4> QED BY <4>1, <4>2
      <3>2. CASE ByCommit(x)
        BY <1>3, <2>1, <3>2
      <3>3. CASE ByTail(x)
        BY <2>1, <3>3 DEF ByTail, NoTail
      <3> QED BY <1>1, <3>1, <3>2, <3>3
    <2> QED BY <1>2, <2>1, <2>2, RunnersAnswered
  <1>5. ASSUME Steady PROVE RunnerInv'
    <2>1. /\ UNCHANGED <<runners, fresh, worker, tail>>
          /\ \A i \in Id : IsAccounted(store[i]) => store'[i] = store[i]
      BY <1>5 DEF Steady
    <2>2. ASSUME NEW x \in runners PROVE ByRecord(x)' \/ ByCommit(x)' \/ ByTail(x)'
      <3>1. ByRecord(x) => ByRecord(x)'
        BY <1>1, <2>1 DEF ByRecord, IsAccounted
      <3>2. ByTail(x) => ByTail(x)'
        BY <2>1 DEF ByTail
      <3> QED BY <1>1, <1>3, <2>1, <3>1, <3>2
    <2> QED BY <1>2, <2>1, <2>2, RunnersAnswered
  <1>6. ASSUME NEW a \in Threads, Release(a) PROVE RunnerInv'
    <2>1. /\ tail' = [tail EXCEPT ![a].phase = "cleanup"] /\ UNCHANGED <<store, runners, fresh, worker>>
      BY <1>6 DEF Release
    <2>2. /\ \A c \in Threads \ {a} : tail'[c] = tail[c]
          /\ tail'[a].phase = "cleanup" /\ tail'[a].id = tail[a].id /\ tail'[a].backend = tail[a].backend
      BY <1>1, <2>1 DEF TypeInv, Tail
    <2>3. ASSUME NEW x \in runners PROVE ByRecord(x)' \/ ByCommit(x)' \/ ByTail(x)'
      <3>1. ByRecord(x) => ByRecord(x)'
        BY <2>1 DEF ByRecord, IsAccounted
      <3>2. ByTail(x) => ByTail(x)'
        BY <2>2 DEF ByTail
      <3> QED BY <1>1, <1>3, <2>1, <3>1, <3>2
    <2> QED BY <1>2, <2>1, <2>3, RunnersAnswered
  <1>7. ASSUME NEW a \in Threads, Cleanup(a) PROVE RunnerInv'
    <2>1. /\ tail[a].backend \in Registered => runners' = runners \ {<<tail[a].id, tail[a].backend>>}
          /\ runners' \subseteq runners /\ SetTail(a, NoTail) /\ UNCHANGED <<store, fresh, worker>>
      BY <1>7 DEF Cleanup
    <2>2. \A c \in Threads \ {a} : tail'[c] = tail[c]
      BY <1>1, <2>1, SetTailMoves
    <2>3. ASSUME NEW x \in runners' PROVE ByRecord(x)' \/ ByCommit(x)' \/ ByTail(x)'
      <3>1. x \in runners /\ x = <<x[1], x[2]>> /\ x[2] \in Registered
        BY <1>1, <2>1 DEF RunnerInv, RunnersKnown
      <3>2. ByRecord(x) => ByRecord(x)'
        BY <2>1 DEF ByRecord, IsAccounted
      <3>3. ~(tail[a].id = x[1] /\ tail[a].backend = x[2])
        BY <2>1, <2>3, <3>1
      <3>4. ByTail(x) => ByTail(x)'
        BY <2>2, <3>3 DEF ByTail
      <3> QED BY <1>1, <1>3, <2>1, <3>1, <3>2, <3>4
    <2> QED BY <1>2, <2>1, <2>3, RunnersAnswered
  <1>8. \A a \in Threads : ~CleanupFails(a)
    BY DEF CleanupFails
  <1> QED BY <1>4, <1>5, <1>6, <1>7, <1>8 DEF TailStep

\* Every step of the broker keeps the runners answered for.
LEMMA RunnersNext ==
    ASSUME Claims = {}, ~QueueEnabled, ~CleanupMayFail
    PROVE  RecordInv /\ RunnerInv /\ [Next]_vars => RunnerInv'
  <1> SUFFICES ASSUME RecordInv, RunnerInv, [Next]_vars PROVE RunnerInv'
    OBVIOUS
  <1>1. TypeInv /\ TypeInv' /\ QuietQueue
    BY TypeNext DEF RecordInv, Inv
  <1>2. CASE UNCHANGED vars
    BY <1>2 DEF vars, RunnerInv, RunnersKnown, NoRunnerLeak, IsAccounted
  <1>3. CASE Next
    BY <1>1, <1>3, NextCases, RequestRunners, OtherShapes, OtherRunners
  <1> QED BY <1>2, <1>3

\* No runner is forgotten at a provider: without a queue and without claim
\* callbacks, and when the cleanups of the providers succeed, every runner
\* that exists belongs to a reserved or ready record on its backend, or a
\* thread is about to commit it or to tear it down.
THEOREM NoRunnerIsLost ==
    ASSUME Claims = {}, ~QueueEnabled, ~CleanupMayFail
    PROVE  Spec => []NoRunnerLeak
  <1>1. Init => RunnerInv
    BY DEF Init, RunnerInv, RunnersKnown, NoRunnerLeak
  <1>2. RunnerInv => NoRunnerLeak
    BY DEF RunnerInv
  <1> QED BY <1>1, <1>2, RunnersNext, RecordsAlways, PTL DEF Spec

=============================================================================
