----------------------------- MODULE BackendGate -----------------------------
(***************************************************************************)
(* How an allocation request passes the gates of a fair-share pool:         *)
(* admission and budget filters, scheduler reservation, permit, capacity    *)
(* check of the store, provisioning, and what each outcome reports back.    *)
(* (allocateNow of src/internal/api/service.go with the scheduler of        *)
(* FairShare and the trackers of BackendAdmission.)                         *)
(*                                                                         *)
(* Requests run concurrently; a step is one call on a tracker, the store or *)
(* the provider.  A request that fails may be sent again.                   *)
(***************************************************************************)
EXTENDS FairShare, BackendAdmission

CONSTANTS
    MaxUsage,  \* bound: reservations in a usage window, and drift of a tenant count
    Requests
    \* A world is a record [ring, max, cross, weight, soft, quota, after,
    \* window, quality, breaker, probe, rate, budget, req, faults]: the pool
    \* configuration, the request of every member of DOMAIN req as
    \* [pool, tenant, class, pin], and the faults that may happen.

ASSUME GateAssumption ==
    /\ Keys = Pools \X Backends
    /\ IsFiniteSet(Requests) /\ IsFiniteSet(Classes)
    /\ MaxUsage \in Nat /\ None \notin Backends
    /\ \A w \in Worlds :
         /\ w.ring \in Seq(Backends)
         /\ {w.max, w.cross, w.rate, w.budget} \subseteq [Backends -> Nat]
         /\ w.weight \in [Classes -> Nat \ {0}]
         /\ w.soft \in [Classes -> Nat] /\ w.quota \in [Tenants -> Nat]
         /\ DOMAIN w.req \subseteq Requests
         /\ \A r \in DOMAIN w.req :
              w.req[r] \in [pool : Pools, tenant : Tenants, class : Classes,
                           pin : Backends \cup {None}]

VARIABLES
    thr,       \* per request: where allocateNow is, its pool snapshot, its
               \* pin and the backend it selected
    rec,       \* the store's record of the request
    launched   \* history: runners made ready in the current budget window

vars == <<world, fairVars, admissionVars, thr, rec, launched>>

At(pc, S, pin, be) == [pc |-> pc, S |-> S, pin |-> pin, be |-> be]
Idle == At("idle", {}, None, None)
Live == DOMAIN world.req
Pool(r) == world.req[r].pool
Tenant(r) == world.req[r].tenant
Class(r) == world.req[r].class
Key(r) == <<Pool(r), thr[r].be>>
Accounted(r) == rec[r] \in {"reserved", "ready"}

PCs == {"idle", "reserve", "admit", "save", "provision", "commit", "record", "live"}

TypeOK ==
    /\ world \in Worlds
    /\ active \in [Pools -> [Backends -> 0 .. Cardinality(Requests)]]
    /\ tenantActive \in [Pools -> [Backends -> [Tenants -> 0 .. MaxUsage + Cardinality(Requests)]]]
    /\ \A k \in Keys : /\ circuit[k].state \in {"closed", "open", "half-open"}
                       /\ circuit[k].inFlight \in 0 .. HalfOpenMaxRequests
                       /\ circuit[k].state = "closed" => circuit[k].inFlight = 0
                       /\ circuit[k].successes \in 0 .. RecoverySuccessThreshold - 1
                       /\ Len(circuit[k].failures) <= FailureThreshold
    /\ \A r \in Requests : /\ thr[r].pc \in PCs
                           /\ rec[r] \in {"none", "reserved", "ready", "canceled"}
                           /\ thr[r].pc \in {"record", "live"} <=> rec[r] = "ready"

Init ==
    /\ world \in Worlds
    /\ FairInit
    /\ AdmissionInit
    /\ thr = [r \in Requests |-> Idle]
    /\ rec = [r \in Requests |-> "none"]
    /\ launched = [k \in Keys |-> 0]

Goto(r, pc) == thr' = [thr EXCEPT ![r].pc = pc]
Leave(r) == thr' = [thr EXCEPT ![r] = Idle]

\* Selection goes on without the backend just tried; a pin is not kept.
TryOthers(r) ==
    LET rest == thr[r].S \ {thr[r].be}
    IN  thr' = [thr EXCEPT ![r] = IF rest = {} THEN Idle
                                  ELSE At("reserve", rest, None, None)]

-----------------------------------------------------------------------------
(* Filters                                                                 *)

HasBreaker(b) == b \in world.breaker
CircuitOpen(p, b) == HasBreaker(b) /\ ~circuitAllows(<<p, b>>, FALSE)
RateLimited(p, b) == ~CircuitOpen(p, b) /\ ~rateAllows(<<p, b>>, world.rate[b])
Admissible(p) == {b \in Range(world.ring) : ~CircuitOpen(p, b) /\ ~RateLimited(p, b)}
InBudget(p) == {b \in Backends : budgetAllows(<<p, b>>, world.budget[b])}

\* A pinned request whose backend is rate-limited goes on unpinned; one whose
\* backend is circuit-open or over budget fails.
FilteredPin(r) ==
    IF world.req[r].pin # None /\ RateLimited(Pool(r), world.req[r].pin) THEN None
    ELSE world.req[r].pin

Filtered(r) == Admissible(Pool(r)) \cap InBudget(Pool(r))

PassesFilters(r) == IF FilteredPin(r) = None THEN Filtered(r) # {}
                    ELSE FilteredPin(r) \in Filtered(r)

\* Looking at a rate limit restarts a window that is over.
Filter(r) ==
    /\ thr[r].pc = "idle" /\ rec[r] = "none"
    /\ Len(tenantLog[Pool(r)]) < MaxUsage
    /\ \A b \in Backends : tenantActive[Pool(r)][b][Tenant(r)] < MaxUsage
    /\ limit' = [k \in Keys |->
            IF k[1] = Pool(r) /\ world.rate[k[2]] > 0 /\ ~CircuitOpen(k[1], k[2])
            THEN Window(k) ELSE limit[k]]
    /\ IF PassesFilters(r)
       THEN thr' = [thr EXCEPT ![r] = At("reserve", Filtered(r), FilteredPin(r), None)]
       ELSE UNCHANGED thr
    /\ UNCHANGED <<world, fairVars, circuit, budget, rec, launched>>

-----------------------------------------------------------------------------
(* Reservation                                                             *)

Selected(r, b) == thr' = [thr EXCEPT ![r] = At("admit", thr[r].S, thr[r].pin, b)]

Reserve(r) ==
    /\ thr[r].pc = "reserve"
    /\ \E b \in thr[r].S :
        /\ Selected(r, b)
        /\ \/ /\ thr[r].pin = b
              /\ ReservePinned(Pool(r), b, Tenant(r), Class(r))
           \/ /\ thr[r].pin = None /\ ~world.quality
              /\ ReserveBest(Pool(r), thr[r].S, b, Tenant(r), Class(r))
           \/ \* quality ranking: the best-ranked backend that takes it
              /\ thr[r].pin = None /\ world.quality
              /\ ReservePinned(Pool(r), b, Tenant(r), Class(r))
    /\ UNCHANGED <<world, admissionVars, rec, launched>>

ReserveFails(r) ==
    /\ thr[r].pc = "reserve"
    /\ \/ ReserveOverQuota(Pool(r), Tenant(r))
       \/ ReserveNoCapacity(Pool(r), IF thr[r].pin = None THEN thr[r].S ELSE {thr[r].pin},
                            Tenant(r), Class(r))
    /\ Leave(r)
    /\ UNCHANGED <<world, admissionVars, rec, launched>>

-----------------------------------------------------------------------------
(* Permit: allow(..., consume = true)                                      *)

Permitted(r) == HasBreaker(thr[r].be) => circuitAllows(Key(r), TRUE)
ConsumeCircuit(r) ==
    circuit' = IF HasBreaker(thr[r].be)
               THEN [circuit EXCEPT ![Key(r)] = AfterCircuitConsumed(@)] ELSE circuit

Admit(r) ==
    /\ thr[r].pc = "admit"
    /\ Permitted(r) /\ rateAllows(Key(r), world.rate[thr[r].be])
    /\ ConsumeCircuit(r)
    /\ limit' = IF world.rate[thr[r].be] > 0
                THEN [limit EXCEPT ![Key(r)] = [Window(Key(r)) EXCEPT !.used = @ + 1]] ELSE limit
    /\ Goto(r, "save")
    /\ UNCHANGED <<world, fairVars, budget, rec, launched>>

\* The refused reservation is released without the request's tenant.
DenyCircuitOpen(r) ==
    /\ thr[r].pc = "admit"
    /\ ~Permitted(r)
    /\ Release(Pool(r), thr[r].be, DefaultTenant)
    /\ Leave(r)
    /\ UNCHANGED <<world, admissionVars, rec, launched>>

\* The circuit was consulted, and its permit taken, before the rate limit.
DenyRateLimited(r) ==
    /\ thr[r].pc = "admit"
    /\ Permitted(r) /\ ~rateAllows(Key(r), world.rate[thr[r].be])
    /\ ConsumeCircuit(r)
    /\ limit' = [limit EXCEPT ![Key(r)] = Window(Key(r))]
    /\ Release(Pool(r), thr[r].be, DefaultTenant)
    /\ TryOthers(r)
    /\ UNCHANGED <<world, budget, rec, launched>>

-----------------------------------------------------------------------------
(* saveReservedAllocation: SaveIfCapacity counts the store's records.      *)

Records(P(_)) == Cardinality({q \in Live : Accounted(q) /\ P(q)})

\* Defect: the store is asked with the pool's hard limit only.
CapacityIgnoresQuota(r) ==
    world.max[thr[r].be] = 0
      \/ Records(LAMBDA q : Pool(q) = Pool(r) /\ thr[q].be = thr[r].be) < world.max[thr[r].be]

capacityAllowed(r) ==
    LET b == thr[r].be
        max == EffectiveMaxRunners(b, Class(r))
    IN  /\ max = 0 \/ Records(LAMBDA q : Pool(q) = Pool(r) /\ thr[q].be = b) < max
        /\ world.cross[b] = 0 \/ Records(LAMBDA q : thr[q].be = b) < world.cross[b]
        /\ world.quota[Tenant(r)] = 0
             \/ Records(LAMBDA q : Pool(q) = Pool(r) /\ Tenant(q) = Tenant(r)) < world.quota[Tenant(r)]

SaveReserved(r) ==
    /\ thr[r].pc = "save"
    /\ capacityAllowed(r)
    /\ rec' = [rec EXCEPT ![r] = "reserved"]
    /\ Goto(r, "provision")
    /\ UNCHANGED <<world, fairVars, admissionVars, launched>>

SaveRefused(r) ==
    /\ thr[r].pc = "save"
    /\ ~capacityAllowed(r)
    /\ Release(Pool(r), thr[r].be, Tenant(r))
    /\ Leave(r)
    /\ UNCHANGED <<world, admissionVars, rec, launched>>

-----------------------------------------------------------------------------
(* Provisioning and what it reports                                        *)

ReportFailure(r) ==
    circuit' = IF HasBreaker(thr[r].be)
               THEN [circuit EXCEPT ![Key(r)] = AfterFailure(@)] ELSE circuit

Provision(r) ==
    /\ thr[r].pc = "provision"
    /\ Goto(r, "commit")
    /\ UNCHANGED <<world, fairVars, admissionVars, rec, launched>>

\* Defect: an abandoned launch keeps its slot.
ProvisionFailsKeepsSlot(r) ==
    /\ thr[r].pc = "provision"
    /\ \/ "trip" \in world.faults /\ ReportFailure(r)
       \/ world.faults \cap {"unclassified", "capacity"} # {} /\ UNCHANGED circuit
    /\ rec' = [rec EXCEPT ![r] = "none"]
    /\ Leave(r)
    /\ UNCHANGED <<world, fairVars, limit, budget, launched>>

\* A failure class that trips is reported; a capacity rejection and an
\* unclassified error are not.  A canceled record was released by the cancel.
ProvisionFails(r) ==
    /\ thr[r].pc = "provision"
    /\ \E kind \in world.faults \cap {"trip", "unclassified", "capacity"} :
        /\ IF kind = "trip" THEN ReportFailure(r) ELSE UNCHANGED circuit
        /\ IF rec[r] = "reserved" THEN Release(Pool(r), thr[r].be, Tenant(r))
                                  ELSE UNCHANGED fairVars
        /\ IF kind = "capacity" /\ rec[r] = "reserved" /\ thr[r].pin = None
           THEN TryOthers(r) ELSE Leave(r)
    /\ rec' = [rec EXCEPT ![r] = "none"]
    /\ UNCHANGED <<world, limit, budget, launched>>

Cancel(r) ==
    /\ "cancel" \in world.faults
    /\ rec[r] = "reserved"
    /\ rec' = [rec EXCEPT ![r] = "canceled"]
    /\ Release(Pool(r), thr[r].be, Tenant(r))
    /\ UNCHANGED <<world, admissionVars, thr, launched>>

\* Defect: the success of a launch is not reported to the breaker.
CommitReportsNothing(r) ==
    /\ thr[r].pc = "commit" /\ rec[r] = "reserved"
    /\ rec' = [rec EXCEPT ![r] = "ready"]
    /\ launched' = [launched EXCEPT ![Key(r)] = IF world.budget[thr[r].be] > 0 THEN @ + 1 ELSE 0]
    /\ Goto(r, "record")
    /\ UNCHANGED <<world, fairVars, admissionVars>>

Commit(r) ==
    /\ thr[r].pc = "commit" /\ rec[r] = "reserved"
    /\ rec' = [rec EXCEPT ![r] = "ready"]
    /\ circuit' = IF HasBreaker(thr[r].be)
                  THEN [circuit EXCEPT ![Key(r)] = AfterSuccess(@)] ELSE circuit
    /\ launched' = [launched EXCEPT ![Key(r)] = IF world.budget[thr[r].be] > 0 THEN @ + 1 ELSE 0]
    /\ Goto(r, "record")
    /\ UNCHANGED <<world, fairVars, limit, budget>>

\* finalizeCanceledDuringProvision: cleanup only, nothing is reported.
CommitCanceled(r) ==
    /\ thr[r].pc = "commit" /\ rec[r] = "canceled"
    /\ rec' = [rec EXCEPT ![r] = "none"]
    /\ Leave(r)
    /\ UNCHANGED <<world, fairVars, admissionVars, launched>>

\* Defect: a launch is not charged to the budget.
RecordBudgetFree(r) ==
    /\ thr[r].pc = "record"
    /\ Goto(r, "live")
    /\ UNCHANGED <<world, fairVars, admissionVars, rec, launched>>

recordBudgetUsage(r) ==
    /\ thr[r].pc = "record"
    /\ budget' = [budget EXCEPT ![Key(r)] = IF world.budget[thr[r].be] > 0 THEN @ + 1 ELSE 0]
    /\ Goto(r, "live")
    /\ UNCHANGED <<world, fairVars, circuit, limit, rec, launched>>

\* Complete, or the reaper: an expiry and a failure_class are failures too.
Finish(r) ==
    /\ thr[r].pc = "live"
    /\ rec' = [rec EXCEPT ![r] = "none"]
    /\ Release(Pool(r), thr[r].be, Tenant(r))
    /\ \/ UNCHANGED circuit
       \/ "trip" \in world.faults /\ ReportFailure(r)
    /\ Leave(r)
    /\ UNCHANGED <<world, limit, budget, launched>>

-----------------------------------------------------------------------------
(* Background                                                              *)

\* ReconcileBackendHealth
Probe(k) ==
    /\ k[2] \in world.breaker \cap world.probe
    /\ probeDue(k)
    /\ \/ circuit' = [circuit EXCEPT ![k] = AfterProbeSuccess(@)]
       \/ "trip" \in world.faults /\ circuit' = [circuit EXCEPT ![k] = AfterProbeFailure(@)]
    /\ UNCHANGED <<world, fairVars, limit, budget, thr, rec, launched>>

\* The process restarts: requests in flight are gone, reserved records are
\* terminalized, ready ones are counted again under the hard limits; circuits
\* and limits come back from the document of a durable store.
Restart ==
    /\ "restart" \in world.faults
    /\ rec' = [r \in Requests |-> IF rec[r] = "ready" THEN "ready" ELSE "none"]
    /\ thr' = [r \in Requests |-> IF rec[r] = "ready" THEN At("live", {}, None, thr[r].be)
                                  ELSE Idle]
    /\ active' = [p \in Pools |-> [b \in Backends |->
            Cardinality({r \in Live : rec[r] = "ready" /\ Pool(r) = p /\ thr[r].be = b})]]
    /\ tenantActive' = [p \in Pools |-> [b \in Backends |-> [t \in Tenants |->
            Cardinality({r \in Live : rec[r] = "ready" /\ Pool(r) = p /\ thr[r].be = b /\ Tenant(r) = t})]]]
    /\ cursor' = [p \in Pools |-> 0]
    /\ starve' = [p \in Pools |-> [c \in Classes |-> None]]
    /\ tenantLog' = [p \in Pools |-> <<>>]
    /\ UNCHANGED <<world, admissionVars, launched>>

NewDay ==
    /\ \E b \in Backends : world.budget[b] > 0
    /\ budget' = [k \in Keys |-> 0]
    /\ launched' = [k \in Keys |-> 0]
    /\ UNCHANGED <<world, fairVars, circuit, limit, thr, rec>>

Tick ==
    /\ FairTick
    /\ AdmissionTick
    /\ UNCHANGED <<world, thr, rec, launched>>

Step(r) ==
    \/ Reserve(r) \/ ReserveFails(r)
    \/ Admit(r) \/ DenyCircuitOpen(r) \/ DenyRateLimited(r)
    \/ SaveReserved(r) \/ SaveRefused(r)
    \/ Provision(r) \/ ProvisionFails(r)
    \/ Commit(r) \/ CommitCanceled(r) \/ recordBudgetUsage(r)

Next ==
    \/ \E r \in Live : Filter(r) \/ Step(r) \/ Cancel(r) \/ Finish(r)
    \/ \E k \in Keys : Probe(k)
    \/ Restart \/ NewDay \/ Tick

Spec == Init /\ [][Next]_vars

\* A request runs to its end, the clock ticks, and the health loop probes.
FairSpec ==
    /\ Spec
    /\ \A r \in Requests : WF_vars(r \in Live /\ Step(r))
    /\ \A k \in Keys : WF_vars(Probe(k))
    /\ WF_vars(Tick)

-----------------------------------------------------------------------------
(* Properties                                                              *)

Holds(r, p, b) ==
    /\ Pool(r) = p /\ thr[r].be = b
    /\ thr[r].pc \in {"admit", "save"} \/ Accounted(r)

\* The scheduler's count of a backend is the number of requests that hold a
\* slot there, whatever order refusals, failed launches, cancels, completions
\* and restarts come in: no path keeps a slot and none gives it back twice
\* (the release calls of allocateNow, Cancel and Complete).
HeldMatchesActive ==
    \A p \in Pools, b \in Backends :
        active[p][b] = Cardinality({r \in Live : Holds(r, p, b)})

\* What the lanes above c leave of a backend.
LaneRoom(b, c) ==
    LET above == MapThenSumSet(LAMBDA k : world.soft[k],
                               {k \in Classes : world.weight[k] > world.weight[c]})
    IN  IF above > world.max[b] THEN 0 ELSE world.max[b] - above

\* The runners of a lane and of the lanes below it never eat into what is
\* reserved for the lanes above.  (A lane with no room of its own gets past
\* its reserve when it starves, because SaveIfCapacity reads 0 as no limit;
\* such lanes are left out when the starvation timer is on.)
LaneKept ==
    \A p \in Pools, b \in Backends, c \in Classes :
        LET below == {k \in Classes : world.weight[k] <= world.weight[c]}
        IN  world.after = 0 \/ (\A k \in below : LaneRoom(b, k) > 0)
            => Records(LAMBDA q : Pool(q) = p /\ thr[q].be = b /\ Class(q) \in below)
                 <= LaneRoom(b, c)

\* The stored runners respect maxRunners, the cross-pool limit and the tenant
\* quotas, also when the scheduler's tenant counts have drifted: the store
\* checks them again (saveReservedAllocation, capacityAllowed).
LimitsHeld ==
    \A b \in Backends :
        /\ world.cross[b] > 0 => Records(LAMBDA q : thr[q].be = b) <= world.cross[b]
        /\ \A p \in Pools :
            /\ Records(LAMBDA q : Pool(q) = p /\ thr[q].be = b) <= world.max[b]
            /\ \A t \in Tenants : world.quota[t] > 0 =>
                Records(LAMBDA q : Pool(q) = p /\ Tenant(q) = t) <= world.quota[t]

\* The budget is checked before a launch and charged after it, so it can be
\* overshot, but by no more than the launches already under way when it ran
\* out (filterBackendsByBudget, recordBudgetUsage).  A restart between launch and
\* charge forgets the charge; the worlds with a budget have none.
BudgetOvershoot ==
    \A k \in Keys : world.budget[k[2]] > 0 =>
        launched[k] < world.budget[k[2]] + Cardinality(Live)

\* A half-open permit is given back: while every launch reports its outcome,
\* a circuit does not keep permits that nobody is using (circuitDecision,
\* recordSuccess, recordFailure).  Without this the circuit admits nothing
\* ever again: no probe is sent to a half-open circuit.
PermitsReturn == \A k \in Keys : circuit[k].inFlight > 0 ~> circuit[k].inFlight = 0
=============================================================================
