--------------------------- MODULE AllocationStore ---------------------------
(***************************************************************************)
(* The allocation records of the broker and the atomic operations its      *)
(* state store offers on them (internal/store).  The store is a function   *)
(* from allocation ids to records; an id that has no record is mapped to   *)
(* NoRecord.  Every operator below is one critical section of the in-memory *)
(* store, written as the value the store has afterwards.                   *)
(*                                                                         *)
(* A record keeps what the control flow of the broker reads: the state,    *)
(* the pool, the selected backend, the number of queue attempts, whether a *)
(* runner registered or a job claimed the allocation, and the backend the  *)
(* stored request pins.  Timestamps, labels, metadata and messages are     *)
(* left out.                                                               *)
(***************************************************************************)
EXTENDS Naturals, FiniteSets

CONSTANTS
    Id,           \* allocation ids
    Pool,         \* pool names
    Backend,      \* backend names
    None,         \* the empty pool or backend name
    MaxAttempts   \* broker.queue.maxAttempts, normalized (3 when unset)

ASSUME StoreAssumption ==
    /\ IsFiniteSet(Id)
    /\ None \notin Pool \cup Backend /\ None \notin Pool \X Backend
    /\ MaxAttempts \in Nat \ {0}

(***************************************************************************)
(* States of an allocation.                                                *)
(***************************************************************************)
TerminalStates == {"completed", "failed", "canceled", "expired", "quarantined"}

\* States a runner may be working in: what the reaper looks at and what a
\* completion callback releases.
ActiveStates == {"reserved", "ready"}

\* States that count against maxRunners and the cross-pool limits.
AccountedStates == {"reserved", "ready", "warm"}

States == {"absent", "pending", "warm"} \cup ActiveStates \cup TerminalStates

Record == [state    : States,
           pool     : Pool \cup {None},
           backend  : Backend \cup {None},
           attempts : 0 .. MaxAttempts,
           reg      : BOOLEAN,
           claim    : BOOLEAN,
           pin      : Backend \cup {None}]

NoRecord == [state |-> "absent", pool |-> None, backend |-> None, attempts |-> 0,
             reg |-> FALSE, claim |-> FALSE, pin |-> None]

IsTerminal(r) == r.state \in TerminalStates
IsActive(r) == r.state \in ActiveStates
IsAccounted(r) == r.state \in AccountedStates

(***************************************************************************)
(* Occupancy: the ids that count against a limit.                          *)
(***************************************************************************)
Occupants(s, p, b) ==
    {i \in Id : IsAccounted(s[i]) /\ s[i].pool = p /\ s[i].backend = b}

BackendOccupants(s, b) ==
    {i \in Id : IsAccounted(s[i]) /\ s[i].backend = b}

\* Defect: one record more than the limit is let in.
CapacityAllowedOneMore(s, i, p, b, maxRunners, backendLimit) ==
    /\ maxRunners > 0 => Cardinality(Occupants(s, p, b) \ {i}) <= maxRunners
    /\ backendLimit > 0 => Cardinality(BackendOccupants(s, b) \ {i}) <= backendLimit

\* The check of SaveIfCapacity: a limit of zero is no limit, and a record
\* that is being rewritten does not count against itself.
CapacityAllowed(s, i, p, b, maxRunners, backendLimit) ==
    /\ maxRunners > 0 => Cardinality(Occupants(s, p, b) \ {i}) < maxRunners
    /\ backendLimit > 0 => Cardinality(BackendOccupants(s, b) \ {i}) < backendLimit

(***************************************************************************)
(* Operations.                                                             *)
(***************************************************************************)
Save(s, i, r) == [s EXCEPT ![i] = r]

Delete(s, ids) == [i \in Id |-> IF i \in ids THEN NoRecord ELSE s[i]]

\* MarkState changes whatever record is there, and nothing when there is none.
MarkState(s, i, to) ==
    IF s[i].state = "absent" THEN s ELSE [s EXCEPT ![i].state = to]

\* The ids PruneTerminal may drop; which of them are past the retention
\* window is the clock's choice.
Prunable(s) == {i \in Id : IsTerminal(s[i])}
=============================================================================
