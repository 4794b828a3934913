------------------------------ MODULE FairShare ------------------------------
(***************************************************************************)
(* The priority fair-share scheduler of                                     *)
(* src/internal/scheduler/priority_fair_share.go: concurrency slots per     *)
(* pool and backend, tenant quotas, soft reserves for higher lanes, and the *)
(* starvation timer that lets a lane past them.                             *)
(*                                                                         *)
(* The state is what priorityFairShareState keeps under its mutex; every    *)
(* operator here is one critical section of it.  Times are ages in ticks,   *)
(* saturated where the code no longer tells them apart.                     *)
(***************************************************************************)
EXTENDS Naturals, Sequences, FiniteSets, FiniteSetsExt

CONSTANTS
    Pools, Backends, Tenants, Classes,
    DefaultTenant,   \* the bucket of allocations without a tenant
    None,
    Worlds           \* configurations and fault budgets; see BackendGate

ASSUME TenantAssumption == DefaultTenant \in Tenants

VARIABLES
    world,           \* the configuration of this behaviour
    active,          \* reservations per pool and backend
    tenantActive,    \* the same per tenant
    cursor,          \* where the next search of the candidate ring starts
    starve,          \* soft-reserve denial streak per pool and class
    tenantLog        \* ages of the reservations inside the usage window

fairVars == <<active, tenantActive, cursor, starve, tenantLog>>

FairInit ==
    /\ active = [p \in Pools |-> [b \in Backends |-> 0]]
    /\ tenantActive = [p \in Pools |-> [b \in Backends |-> [t \in Tenants |-> 0]]]
    /\ cursor = [p \in Pools |-> 0]
    /\ starve = [p \in Pools |-> [c \in Classes |-> None]]
    /\ tenantLog = [p \in Pools |-> <<>>]

-----------------------------------------------------------------------------
(* Soft reserves                                                           *)

\* Defect: nothing is held back for the higher lanes.
NoSoftReserveHeld(c) == 0

SoftReserveHeld(c) ==
    MapThenSumSet(LAMBDA k : world.soft[k],
                  {k \in Classes : world.weight[k] > world.weight[c]})

\* 0 when the higher lanes hold everything (and SaveIfCapacity reads 0 as
\* "no limit").
EffectiveMaxRunners(b, c) ==
    IF world.max[b] > SoftReserveHeld(c) THEN world.max[b] - SoftReserveHeld(c) ELSE 0

activeBackend(b) == MapThenSumSet(LAMBDA p : active[p][b], Pools)
CrossPoolRoom(b) == world.cross[b] = 0 \/ activeBackend(b) < world.cross[b]

backendAvailableForPriority(p, b, c, starving) ==
    /\ CrossPoolRoom(b)
    /\ active[p][b] < IF starving THEN world.max[b] ELSE EffectiveMaxRunners(b, c)

backendDeniedBySoftReserve(p, b, c) ==
    /\ CrossPoolRoom(b)
    /\ active[p][b] < world.max[b]
    /\ active[p][b] >= EffectiveMaxRunners(b, c)

-----------------------------------------------------------------------------
(* Starvation: [start, last] are the ages of the first and of the latest    *)
(* soft-reserve denial of the streak; a longer silence than IdleGap ends it.*)

IdleGap == 2 * world.after
Streak(p, c) == starve[p][c] # None /\ starve[p][c].last <= IdleGap

isStarving(p, c) == world.after > 0 /\ Streak(p, c) /\ starve[p][c].start >= world.after

AfterDenied(p, c) ==
    IF world.after = 0 THEN None
    ELSE [start |-> IF Streak(p, c) THEN starve[p][c].start ELSE 0, last |-> 0]

\* isStarving and recordStarvation both drop a streak that went idle.
AfterLooked(p, c) == IF Streak(p, c) THEN starve[p][c] ELSE None

-----------------------------------------------------------------------------
(* Selection                                                               *)

quotaExceeded(p, t) ==
    /\ world.quota[t] > 0
    /\ MapThenSumSet(LAMBDA b : tenantActive[p][b][t], Backends) >= world.quota[t]

\* Entries older than the window are pruned before they are counted.
InWindow(log) == SelectSeq(log, LAMBDA e : e.age <= world.window)

tenantUsage(p, b, t) ==
    IF world.window = 0 THEN tenantActive[p][b][t]
    ELSE Len(SelectSeq(InWindow(tenantLog[p]), LAMBDA e : e.backend = b /\ e.tenant = t))

\* The class boost is the same for every candidate of a request.
priorityFairShareScore(p, b, t, c) ==
    active[p][b] * 1000 + (tenantUsage(p, b, t) * 1000) \div world.weight[c]

fairShareCandidateBackends(S) == SelectSeq(world.ring, LAMBDA b : b \in S)

\* Ring positions, counted from the cursor, that can take the request.
OpenOffsets(p, S, c) ==
    LET ring == fairShareCandidateBackends(S)
    IN  {o \in 0 .. Len(ring) - 1 :
            backendAvailableForPriority(p, ring[((cursor[p] + o) % Len(ring)) + 1], c, isStarving(p, c))}

\* The best score, and of equal ones the first: there is exactly one.
BestOffset(p, S, t, c) ==
    LET ring == fairShareCandidateBackends(S)
        score(o) == priorityFairShareScore(p, ring[((cursor[p] + o) % Len(ring)) + 1], t, c)
    IN  {o \in OpenOffsets(p, S, c) :
            \A q \in OpenOffsets(p, S, c) : score(o) < score(q) \/ (score(o) = score(q) /\ o <= q)}

-----------------------------------------------------------------------------
(* The critical sections.  S is the pool snapshot the request carries, pin  *)
(* the requested backend or None.                                           *)

NoteReservation(p, b, t) ==
    tenantLog' = [q \in Pools |->
        IF q = p /\ world.window > 0
        THEN Append(InWindow(tenantLog[q]), [tenant |-> t, backend |-> b, age |-> 0])
        ELSE InWindow(tenantLog[q])]

Take(p, b, t, c) ==
    /\ active' = [active EXCEPT ![p][b] = @ + 1]
    /\ tenantActive' = [tenantActive EXCEPT ![p][b][t] = @ + 1]
    /\ NoteReservation(p, b, t)
    /\ starve' = [starve EXCEPT ![p][c] = None]

ReservePinned(p, b, t, c) ==
    /\ ~quotaExceeded(p, t)
    /\ backendAvailableForPriority(p, b, c, isStarving(p, c))
    /\ Take(p, b, t, c)
    /\ UNCHANGED cursor

ReserveBest(p, S, b, t, c) ==
    LET ring == fairShareCandidateBackends(S)
        at(o) == (cursor[p] + o) % Len(ring)
    IN  /\ ~quotaExceeded(p, t)
        /\ Take(p, b, t, c)
        /\ \E o \in BestOffset(p, S, t, c) :
             /\ b = ring[at(o) + 1]
             /\ cursor' = [cursor EXCEPT ![p] = (at(o) + 1) % Len(ring)]

\* ErrQuotaExceeded comes before the timer is looked at.
ReserveOverQuota(p, t) ==
    /\ quotaExceeded(p, t)
    /\ tenantLog' = [q \in Pools |-> InWindow(tenantLog[q])]
    /\ UNCHANGED <<active, tenantActive, cursor, starve>>

\* ErrNoCapacity: the streak grows only if a soft reserve is the reason.
ReserveNoCapacity(p, S, t, c) ==
    /\ ~quotaExceeded(p, t)
    /\ \A b \in S : ~backendAvailableForPriority(p, b, c, isStarving(p, c))
    /\ starve' = [starve EXCEPT ![p][c] =
            IF \E b \in S : backendDeniedBySoftReserve(p, b, c)
            THEN AfterDenied(p, c) ELSE AfterLooked(p, c)]
    /\ tenantLog' = [q \in Pools |-> InWindow(tenantLog[q])]
    /\ UNCHANGED <<active, tenantActive, cursor>>

Release(p, b, t) ==
    /\ active' = [active EXCEPT ![p][b] = IF @ > 0 THEN @ - 1 ELSE 0]
    /\ tenantActive' = [tenantActive EXCEPT ![p][b][t] = IF @ > 0 THEN @ - 1 ELSE 0]
    /\ tenantLog' = [q \in Pools |-> InWindow(tenantLog[q])]
    /\ UNCHANGED <<cursor, starve>>

\* One tick of the clock; ages saturate past the last value that matters.
FairTick ==
    /\ starve' = [p \in Pools |-> [c \in Classes |->
            IF starve[p][c] = None THEN None
            ELSE [start |-> Min({starve[p][c].start + 1, world.after}),
                  last  |-> Min({starve[p][c].last + 1, IdleGap + 1})]]]
    /\ tenantLog' = [p \in Pools |->
            [i \in DOMAIN tenantLog[p] |->
                [tenantLog[p][i] EXCEPT !.age = Min({@ + 1, world.window + 1})]]]
    /\ UNCHANGED <<active, tenantActive, cursor>>
=============================================================================
