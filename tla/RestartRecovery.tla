--------------------------- MODULE RestartRecovery ---------------------------
(***************************************************************************)
(* What the broker rebuilds when it starts, and the loops that keep its     *)
(* records and the provider's runners together afterwards: rehydration,     *)
(* incomplete reservations, live runners the store forgot, capacity-gap     *)
(* holds, the warm pool, the finished-runner and the orphan pass, the       *)
(* reaper, draining.  (src/internal/api/service.go, warm.go,                *)
(* service_finished_runners.go and the pods of                              *)
(* src/internal/backend/kubernetes/backend.go.)                             *)
(*                                                                         *)
(* One process and one backend.  Complete, Cancel, Claim and the reaper     *)
(* are single steps here: their races are the subject of BrokerLifecycle.   *)
(***************************************************************************)
EXTENDS FileStore

CONSTANTS
    None,
    WarmTarget      \* warm runners the pool keeps

ASSUME RecoveryAssumption ==
    /\ IsFiniteSet(Ids) /\ HoldIds = 0 .. (Cardinality(Ids) - 1)
    /\ Ids \cap HoldIds = {} /\ None \notin Ids /\ WarmTarget \in Nat
    /\ \A w \in Worlds : /\ w.maxes \subseteq Nat \ {0} /\ w.pods \in BOOLEAN
                         /\ w.restarts \in Nat /\ w.badWrites \in Nat

VARIABLES
    phase,      \* the startup phase, "up" or "drain"
    todo,       \* the list the startup phase walks through
    slots,      \* runners counted by the in-memory scheduler
    max,        \* maxRunners of this process's configuration
    age,        \* per record: 0 fresh, 1 past the orphan grace, 2 past the
                \* registration timeout, 3 past ExpiresAt (and the grace period)
    prov,       \* per allocation, its runner at the provider
    thr,        \* the request in flight and the refill of the warm pool
    snap,       \* the live runners an orphan pass has listed
    restarts    \* restarts so far

vars == <<world, storeVars, phase, todo, slots, max, age, prov, thr, snap, restarts>>

Startup == {"rehydrate", "terminalize", "rebuild", "gaps"}
Threads == {"request", "warm"}
Idle == [pc |-> "idle", id |-> None, warm |-> None]
NoPass == {None}

Running == phase \in {"up", "drain"}
Local == world.store \in {"memory", "file"}     \* IsProcessLocal
Live == {i \in Ids : prov[i] = "live"}
Held(k) == \E t \in Threads : k \in {thr[t].id, thr[t].warm}

TypeOK ==
    /\ world \in Worlds
    /\ rec \in [Keys -> Records] /\ disk \in [Keys -> Records]
    /\ phase \in Startup \cup {"up", "drain"}
    /\ todo \subseteq Keys
    /\ slots \in 0 .. max
    /\ age \in [Keys -> 0 .. 3]
    /\ prov \in [Ids -> {"none", "live", "done"}]
    /\ \A t \in Threads : thr[t].pc \in {"idle", "reserved", "saved", "launched", "claimed",
                                         "dropped", "handover"}
    /\ snap \subseteq Ids \/ snap = NoPass

Init ==
    /\ StoreInit
    /\ phase = "rehydrate" /\ todo = {}
    /\ slots = 0 /\ max \in world.maxes
    /\ age = [k \in Keys |-> 0]
    /\ prov = [i \in Ids |-> "none"]
    /\ thr = [t \in Threads |-> Idle]
    /\ snap = NoPass
    /\ restarts = 0

-----------------------------------------------------------------------------
(* The provider.                                                            *)

\* Cleanup removes the runner, exited or not, or fails.
Cleanup(k) ==
    IF k \notin Ids THEN UNCHANGED prov
    ELSE prov' \in {[prov EXCEPT ![k] = "none"]}
                   \cup (IF world.cleanupFails THEN {prov} ELSE {})

\* A pod that exits stays until it is deleted; a dispatched runner is gone.
RunnerExits(i) ==
    /\ prov[i] = "live"
    /\ prov' = [prov EXCEPT ![i] = IF world.pods THEN "done" ELSE "none"]
    /\ UNCHANGED <<world, storeVars, phase, todo, slots, max, age, thr, snap, restarts>>

\* The pod is deleted, terminating or on a node that is not ready.
PodVanishes(i) ==
    /\ "vanish" \in world.events
    /\ world.pods /\ prov[i] # "none"
    /\ prov' = [prov EXCEPT ![i] = "none"]
    /\ UNCHANGED <<world, storeVars, phase, todo, slots, max, age, thr, snap, restarts>>

\* The next limit of the record: only an allocation in use has the first two.
NextAge(k) ==
    IF k \in Ids /\ rec[k].state \in Active /\ (age[k] = 0 \/ (age[k] = 1 /\ ~rec[k].reg))
    THEN age[k] + 1 ELSE 3

\* Time.  A request and an orphan pass both take less than the orphan grace
\* (three minutes), so no record reaches it, or a later limit, during one.
Ages(k) ==
    /\ Exists(k) /\ rec[k].state # "ended" /\ age[k] < 3
    /\ ~Held(k) /\ snap = NoPass
    /\ k \in Ids \/ world.holdsExpire
    /\ age' = [age EXCEPT ![k] = NextAge(k)]
    /\ UNCHANGED <<world, storeVars, phase, todo, slots, max, prov, thr, snap, restarts>>

\* The registration timeout; a hold and a warm runner have no creation time.
Unregistered(k) ==
    k \in Ids /\ rec[k].state \in Active /\ ~rec[k].reg /\ age[k] >= 2

-----------------------------------------------------------------------------
(* Startup: one phase after the other, each over a list made at its start.  *)

\* The process stops wherever it is and a new one starts, perhaps with another
\* maxRunners.
Restart ==
    /\ restarts < world.restarts
    /\ restarts' = restarts + 1
    /\ Load
    /\ phase' = "rehydrate"
    /\ todo' = AccountedIn(disk)
    /\ slots' = 0 /\ max' \in world.maxes
    /\ thr' = [t \in Threads |-> Idle]
    /\ snap' = NoPass
    /\ UNCHANGED <<world, age, prov>>

\* expireUnrehydratableAllocation: the record ends, its runner is left alone.
expireUnrehydratable(k) == MarkState(k, "ended") /\ UNCHANGED slots

\* rehydrateSchedulerState takes a slot for every accounted record that is
\* neither due nor over the limit.
rehydrateSchedulerState(k) ==
    /\ phase = "rehydrate" /\ k \in todo
    /\ todo' = todo \ {k}
    /\ IF age[k] = 3 \/ Unregistered(k) \/ slots >= max
       THEN expireUnrehydratable(k)
       ELSE slots' = slots + 1 /\ UNCHANGED storeVars
    /\ UNCHANGED <<world, phase, max, age, prov, thr, snap, restarts>>

\* Defect: an incomplete reservation is ended, its slot is not released.
TerminalizeKeepsSlot(k) ==
    /\ phase = "terminalize" /\ k \in todo
    /\ todo' = todo \ {k}
    /\ Save(k, [rec[k] EXCEPT !.label = TRUE, !.state = "ended"])
    /\ Cleanup(k)
    /\ UNCHANGED <<world, phase, slots, max, age, thr, snap, restarts>>

\* terminalizeIncompleteReserved: a reservation whose launch the old process
\* did not finish gets its label and is quarantined or expired, its slot
\* released and its runner cleaned up.  Either of its two writes may fail.
terminalizeIncompleteReserved(k) ==
    /\ phase = "terminalize" /\ k \in todo
    /\ todo' = todo \ {k}
    /\ LET labelled == [rec[k] EXCEPT !.label = TRUE]
           over == [labelled EXCEPT !.state = IF world.quarantine THEN "quarantined" ELSE "ended"]
       IN  \/ /\ Save(k, over)
              /\ slots' = slots - 1
              /\ age' = [age EXCEPT ![k] = 0]
              /\ Cleanup(k)
           \/ /\ SaveFails(k, labelled)
              /\ UNCHANGED <<slots, age, prov>>
           \/ /\ PersistFails(Saved(k, labelled), Saved(k, labelled), Saved(k, over))
              /\ UNCHANGED <<slots, age, prov>>
    /\ UNCHANGED <<world, phase, max, thr, snap, restarts>>

\* Defect: a rebuilt record is saved without a slot.
RebuildTakesNoSlot(i) ==
    /\ phase = "rebuild" /\ i \in todo
    /\ todo' = todo \ {i}
    /\ Save(i, [state |-> "ready", label |-> TRUE, reg |-> TRUE])
    /\ UNCHANGED <<world, phase, slots, max, age, prov, thr, snap, restarts>>

\* rebuildLiveRunner: a live pod the store does not know gets a ready record
\* and a slot, if there is room.  A record that cannot be written gives its
\* slot back, and with it goes the pod.
rebuildLiveRunner(i) ==
    /\ phase = "rebuild" /\ i \in todo
    /\ todo' = todo \ {i}
    /\ LET r == [state |-> "ready", label |-> TRUE, reg |-> TRUE] IN
         \/ /\ slots < max
            /\ Save(i, r)
            /\ slots' = slots + 1
            /\ age' = [age EXCEPT ![i] = IF @ = 3 THEN 2 ELSE @]
            /\ UNCHANGED prov
         \/ /\ slots < max
            /\ SaveFails(i, r)
            /\ Cleanup(i)
            /\ UNCHANGED <<slots, age>>
         \/ /\ slots >= max
            /\ UNCHANGED <<storeVars, slots, age, prov>>
    /\ UNCHANGED <<world, phase, max, thr, snap, restarts>>

\* createRestartOrphanHolds: hold number n.  One that exists is only made
\* reserved again; a new one takes a slot, or is a mark without one.
createRestartOrphanHold(n) ==
    /\ phase = "gaps" /\ n \in todo
    /\ todo' = todo \ {n}
    /\ LET hold == [rec[n] EXCEPT !.state = "reserved"] IN
         \/ /\ Exists(n)
            /\ Save(n, hold) \/ SaveFails(n, hold)
            /\ UNCHANGED slots
         \/ /\ ~Exists(n) /\ slots < max
            /\ \/ Save(n, hold) /\ slots' = slots + 1
               \/ SaveFails(n, hold) /\ UNCHANGED slots
         \/ /\ ~Exists(n) /\ slots >= max
            /\ IF world.quarantine THEN Save(n, [hold EXCEPT !.state = "quarantined"])
               ELSE UNCHANGED storeVars
            /\ UNCHANGED slots
    /\ age' = [age EXCEPT ![n] = 0]
    /\ UNCHANGED <<world, phase, max, prov, thr, snap, restarts>>

\* reconcileProviderCapacityGaps: runners the provider counts beyond the
\* records countLocalAccounted finds.
capacityGap ==
    LET used == Cardinality(Live)
        known == Cardinality(AccountedIn(rec))
    IN  IF world.capacity /\ used > known THEN 0 .. (used - known - 1) ELSE {}

incompleteReserved ==
    {i \in Ids : rec[i].state = "reserved" /\ ~rec[i].label}

\* The next phase lists what it will walk through.  A shared store ends the
\* startup after the incomplete reservations.
NextPhase ==
    /\ phase \in Startup /\ todo = {}
    /\ \/ /\ phase = "rehydrate"
          /\ phase' = "terminalize" /\ todo' = incompleteReserved
       \/ /\ phase = "terminalize" /\ Local
          /\ phase' = "rebuild" /\ todo' = IF world.pods THEN {i \in Live : ~Exists(i)} ELSE {}
       \/ /\ phase = "terminalize" /\ ~Local
          /\ phase' = "up" /\ todo' = {}
       \/ /\ phase = "rebuild"
          /\ phase' = "gaps" /\ todo' = capacityGap
       \/ /\ phase = "gaps"
          /\ phase' = "up" /\ todo' = {}
    /\ UNCHANGED <<world, storeVars, slots, max, age, prov, thr, snap, restarts>>

StartupStep ==
    \/ \E k \in Keys : rehydrateSchedulerState(k) \/ terminalizeIncompleteReserved(k)
    \/ \E i \in Ids : rebuildLiveRunner(i)
    \/ \E n \in HoldIds : createRestartOrphanHold(n)
    \/ NextPhase

-----------------------------------------------------------------------------
(* Requests and the warm pool.                                              *)

Step(t, pc) == thr' = [thr EXCEPT ![t].pc = pc]
Finish(t) == thr' = [thr EXCEPT ![t] = Idle]

\* newID is random: an id is new when no trace of it is left anywhere.
FreshId(i) == ~Exists(i) /\ disk[i] = NoRecord /\ prov[i] = "none" /\ ~Held(i)

WarmOnes == {i \in Ids : rec[i].state = "warm"}

\* reserve, for a request or for the refill of the warm pool.  A draining
\* broker starts neither.
Reserve(t, i) ==
    /\ phase = "up"
    /\ thr[t] = Idle /\ FreshId(i) /\ slots < max
    /\ t = "warm" => ~world.pods /\ Cardinality(WarmOnes) < WarmTarget
    /\ slots' = slots + 1
    /\ thr' = [thr EXCEPT ![t] = [pc |-> "reserved", id |-> i, warm |-> None]]
    /\ age' = [age EXCEPT ![i] = 0]
    /\ UNCHANGED <<world, storeVars, phase, todo, max, prov, snap, restarts>>

\* saveReservedAllocation.  The scheduler counts at least the records, so the
\* store of a single process does not refuse what the scheduler admits.
SaveReserved ==
    /\ thr["request"].pc = "reserved"
    /\ SaveIfCapacity(thr["request"].id, [NoRecord EXCEPT !.state = "reserved"], max)
    /\ Step("request", "saved")
    /\ UNCHANGED <<world, phase, todo, slots, max, age, prov, snap, restarts>>

\* consumeWarmAllocation claims a warm runner that is not expired; expired ones
\* are recycled before.  The claim sets ExpiresAt to now; the reaper's grace
\* period is taken to outlast the hand-over.
ConsumeWarm(w) ==
    /\ thr["request"].pc = "saved"
    /\ w \in WarmOnes /\ \A v \in WarmOnes : age[v] < 3
    /\ MarkState(w, "ready")
    /\ thr' = [thr EXCEPT !["request"] = [pc |-> "claimed", id |-> @.id, warm |-> w]]
    /\ age' = [age EXCEPT ![w] = 0]
    /\ UNCHANGED <<world, phase, todo, slots, max, prov, snap, restarts>>

\* The warm runner keeps its own slot: the cold reservation is released ...
DropCold ==
    /\ thr["request"].pc = "claimed"
    /\ slots' = slots - 1
    /\ Step("request", "dropped")
    /\ UNCHANGED <<world, storeVars, phase, todo, max, age, prov, snap, restarts>>

\* ... its record deleted ...
DeleteCold ==
    /\ thr["request"].pc = "dropped"
    /\ Delete(thr["request"].id)
    /\ Step("request", "handover")
    /\ UNCHANGED <<world, phase, todo, slots, max, age, prov, snap, restarts>>

\* ... and the warm record saved as the answer of the request.
HandOver ==
    /\ thr["request"].pc = "handover"
    /\ LET w == thr["request"].warm IN
         /\ Save(w, [state |-> "ready", label |-> TRUE, reg |-> TRUE])
         /\ age' = [age EXCEPT ![w] = 0]
    /\ Finish("request")
    /\ UNCHANGED <<world, phase, todo, slots, max, prov, snap, restarts>>

\* Provision, for a request that found no warm runner or for the warm pool.
\* The warm pool has not saved a record yet.
Provision(t) ==
    /\ thr[t].pc = IF t = "request" THEN "saved" ELSE "reserved"
    /\ t = "request" => WarmOnes = {}
    /\ prov' = [prov EXCEPT ![thr[t].id] = "live"]
    /\ Step(t, "launched")
    /\ UNCHANGED <<world, storeVars, phase, todo, slots, max, age, snap, restarts>>

\* A failed launch releases the reservation (abandonReservedAllocation).
ProvisionFails(t) ==
    /\ thr[t].pc = IF t = "request" THEN "saved" ELSE "reserved"
    /\ t = "request" => WarmOnes = {}
    /\ IF t = "request" THEN MarkState(thr[t].id, "ended") ELSE UNCHANGED storeVars
    /\ slots' = slots - 1
    /\ Finish(t)
    /\ UNCHANGED <<world, phase, todo, max, age, prov, snap, restarts>>

\* The reservation becomes ready if it is still there, else the runner goes.
Commit ==
    /\ thr["request"].pc = "launched"
    /\ LET i == thr["request"].id IN
         \/ /\ SaveIfState(i, [rec[i] EXCEPT !.state = "ready", !.label = TRUE], "reserved")
            /\ UNCHANGED prov
         \/ /\ rec[i].state # "reserved"
            /\ Cleanup(i)
            /\ UNCHANGED storeVars
    /\ Finish("request")
    /\ UNCHANGED <<world, phase, todo, slots, max, age, snap, restarts>>

\* createWarmAllocation saves the record last.
SaveWarm ==
    /\ thr["warm"].pc = "launched"
    /\ Save(thr["warm"].id, [state |-> "warm", label |-> TRUE, reg |-> FALSE])
    /\ Finish("warm")
    /\ UNCHANGED <<world, phase, todo, slots, max, age, prov, snap, restarts>>

ThreadStep ==
    \/ SaveReserved \/ DropCold \/ DeleteCold \/ HandOver \/ Commit \/ SaveWarm
    \/ \E w \in Ids : ConsumeWarm(w)
    \/ \E t \in Threads : Provision(t) \/ ProvisionFails(t)

\* End record k in state s: its slot is released and its runner cleaned up.
Release(k, s) ==
    /\ MarkState(k, s)
    /\ slots' = slots - 1
    /\ age' = [age EXCEPT ![k] = 0]
    /\ Cleanup(k)

\* recycleWarmAllocation: expired, beyond the pool's size, or the pool is off.
recycleWarmAllocation(w) ==
    /\ Running
    /\ w \in WarmOnes
    /\ Release(w, "ended")
    /\ UNCHANGED <<world, phase, todo, max, thr, snap, restarts>>

-----------------------------------------------------------------------------
(* The loops.                                                               *)

\* The client or GitHub ends a ready allocation.
Complete(i) ==
    /\ Running
    /\ rec[i].state = "ready" /\ ~Held(i)
    /\ Release(i, "ended")
    /\ UNCHANGED <<world, phase, todo, max, thr, snap, restarts>>

\* SweepExpired; a reservation held by a request is younger than its limits.
SweepExpired(k) ==
    /\ Running
    /\ rec[k].state \in Active
    /\ \/ Unregistered(k) /\ Release(k, "ended")
       \/ /\ ~Unregistered(k) /\ age[k] = 3
          /\ Release(k, IF world.quarantine THEN "quarantined" ELSE "ended")
    /\ UNCHANGED <<world, phase, todo, max, thr, snap, restarts>>

\* The end of a quarantine tries the cleanup once more.
QuarantineEnds(k) ==
    /\ Running
    /\ rec[k].state = "quarantined" /\ age[k] = 3
    /\ MarkState(k, "ended")
    /\ Cleanup(k)
    /\ age' = [age EXCEPT ![k] = 0]
    /\ UNCHANGED <<world, phase, todo, slots, max, thr, snap, restarts>>

pruneFinished(k) ==
    /\ Running
    /\ PruneTerminal(k)
    /\ UNCHANGED <<world, phase, todo, slots, max, age, prov, thr, snap, restarts>>

\* Defect: a finished runner releases the slot of an ended record again.
ReleaseFinishedTwice(i) ==
    /\ Running
    /\ prov[i] = "done"
    /\ Exists(i)
    /\ Release(i, "ended")
    /\ UNCHANGED <<world, phase, todo, max, thr, snap, restarts>>

\* Defect: only runners with an active record are looked at.
ReleaseFinishedKnown(i) ==
    /\ Running
    /\ prov[i] = "done"
    /\ rec[i].state \in Active
    /\ Release(i, "ended")
    /\ UNCHANGED <<world, phase, todo, max, thr, snap, restarts>>

\* releaseFinishedRunner: the allocation of an exited pod is completed; a pod
\* whose allocation is unknown or has ended is only cleaned up.
releaseFinishedRunner(i) ==
    /\ Running
    /\ prov[i] = "done"
    /\ IF rec[i].state \in Active THEN Release(i, "ended")
       ELSE Cleanup(i) /\ UNCHANGED <<storeVars, slots, age>>
    /\ UNCHANGED <<world, phase, todo, max, thr, snap, restarts>>

\* ReconcileOrphanedAllocations lists the live runners, and registers those
\* whose container runs ...
OrphanSnapshot ==
    /\ Running
    /\ "orphan" \in world.events
    /\ world.pods /\ snap = NoPass
    /\ snap' = Live
    /\ \E run \in {{}, Live} :
         Persist([k \in Keys |-> IF k \in run /\ rec[k].state \in Active
                                 THEN [rec[k] EXCEPT !.reg = TRUE] ELSE rec[k]])
    /\ UNCHANGED <<world, phase, todo, slots, max, age, prov, thr, restarts>>

\* Defect: no grace for a pod that the list was too early for.
OrphansWithoutGrace == {i \in Ids \ snap : rec[i].state = "ready"}

\* Defect: an allocation whose runner registered is taken for alive.
OrphansUnregistered ==
    {i \in Ids \ snap : rec[i].state = "ready" /\ age[i] >= 1 /\ ~rec[i].reg}

\* ... then completes, as failed, every ready allocation past the grace that
\* has none.
Orphans == {i \in Ids \ snap : rec[i].state = "ready" /\ age[i] >= 1}

OrphanRelease(i) ==
    /\ Running
    /\ snap # NoPass /\ i \in Orphans
    /\ Release(i, "ended")
    /\ UNCHANGED <<world, phase, todo, max, thr, snap, restarts>>

OrphanPassEnds ==
    /\ Running
    /\ snap # NoPass /\ Orphans = {}
    /\ snap' = NoPass
    /\ UNCHANGED <<world, storeVars, phase, todo, slots, max, age, prov, thr, restarts>>

\* SIGTERM: no new launches; what is in flight goes on until the process ends.
BeginDrain ==
    /\ "drain" \in world.events
    /\ phase = "up" /\ restarts < world.restarts
    /\ phase' = "drain"
    /\ UNCHANGED <<world, storeVars, todo, slots, max, age, prov, thr, snap, restarts>>

LoopStep ==
    \/ \E k \in Keys : SweepExpired(k) \/ QuarantineEnds(k) \/ pruneFinished(k)
    \/ \E i \in Ids : \/ releaseFinishedRunner(i) \/ OrphanRelease(i)
                       \/ recycleWarmAllocation(i) \/ Complete(i)
    \/ OrphanSnapshot \/ OrphanPassEnds

Next ==
    \/ StartupStep \/ ThreadStep \/ LoopStep
    \/ \E t \in Threads, i \in Ids : Reserve(t, i)
    \/ \E i \in Ids : RunnerExits(i) \/ PodVanishes(i)
    \/ \E k \in Keys : Ages(k)
    \/ BeginDrain \/ Restart

\* A started process goes through its startup, requests come to their end,
\* the loops tick, time passes, and a cleanup that is tried again and again
\* does not fail every time.
Fairness ==
    /\ WF_vars(StartupStep)
    /\ WF_vars(ThreadStep)
    /\ WF_vars(OrphanSnapshot) /\ WF_vars(OrphanPassEnds)
    /\ \A i \in Ids :
         /\ WF_vars(OrphanRelease(i))
         /\ SF_vars(Ages(i) /\ age[i] = 0)
         /\ SF_vars(releaseFinishedRunner(i) /\ prov'[i] = "none")

Spec == Init /\ [][Next]_vars
FairSpec == Spec /\ Fairness

-----------------------------------------------------------------------------
(* Properties.                                                              *)

\* Slots reserved whose record is not in the store, or no longer.
Unsaved ==
    Cardinality({t \in Threads : \/ thr[t].pc = "reserved"
                                 \/ t = "warm" /\ thr[t].pc = "launched"})
\* The cold reservation of a hand-over is released before its record goes.
Released == IF thr["request"].pc = "dropped" THEN 1 ELSE 0

\* Whatever a restart found and in whatever step the last process died, the
\* scheduler counts exactly the accounted records and the reservations that
\* are on their way into the store: no slot is lost, none handed out twice.
\* (Up to the second restart of a file store that has holds which end: one that
\* has ended is made reserved again without a slot, service.go:646-657.)
SlotsMatch ==
    LET counted == AccountedIn(rec) \ (IF phase = "rehydrate" THEN todo ELSE {})
    IN  slots + Released = Cardinality(counted) + Unsaved

\* A process-local broker that can ask its provider starts to admit requests
\* with as many slots taken as the provider has live runners, or with none
\* left, although its store may have forgotten them.  (createRestartOrphanHolds:
\* the broker "does not immediately over-admit".)  When the file store already
\* has a hold of an earlier restart, that hold is refreshed and no slot taken
\* for a new gap: there the code does not keep this promise.
StartupCoversProvider ==
    [][/\ phase = "gaps" /\ phase' = "up" /\ world.capacity
       /\ badWrites = world.badWrites
       /\ world.store = "memory" \/ restarts <= 1
       => slots = max \/ slots >= Cardinality(Live)]_vars

\* The orphan pass never ends an allocation whose pod is alive: the grace
\* covers the race between its list and a new pod.
OrphanPassSparesLiveRunners ==
    [][\A i \in Ids : (snap # NoPass /\ snap' = snap /\ rec[i].state = "ready"
                       /\ rec'[i].state = "ended" /\ i \in Orphans) => prov[i] # "live"]_vars

\* The pod of a runner that exited goes in the end, also when its allocation is
\* unknown after a restart or its first cleanup failed.
FinishedRunnersAreReleased == \A i \in Ids : prov[i] = "done" ~> prov[i] # "done"

\* A ready allocation whose pod is gone does not keep its slot until its job
\* timeout: the orphan pass ends it.
GonePodFreesItsSlot ==
    \A i \in Ids : (/\ world.pods /\ "orphan" \in world.events
                   /\ rec[i].state = "ready" /\ prov[i] = "none") ~> rec[i].state # "ready"

=============================================================================
