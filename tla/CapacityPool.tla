---------------------------- MODULE CapacityPool ----------------------------
(***************************************************************************)
(* What the broker promises about capacity, and nothing else: an           *)
(* allocation holds at most one slot, a slot is granted only while there   *)
(* is room for it under both limits, and any slot may be given back at any *)
(* time.  Threads, the scheduler's counters, the queue and the providers   *)
(* do not appear; BrokerLifecycle implements this specification with the   *)
(* accounted records of its store as slot.                                 *)
(***************************************************************************)
EXTENDS Naturals, FiniteSets

CONSTANTS
    Id, Pool, Backend,
    None,         \* no slot
    MaxRunners,   \* MaxRunners[p][b]: slots of pool p on backend b
    BrokerLimit   \* BrokerLimit[b]: slots of all pools on b; 0 is no limit

VARIABLE slot     \* slot[i]: the pool and the backend of i's slot, or None

PoolInit == slot = [i \in Id |-> None]

\* The others that hold a slot of pool p on backend b, or of any pool on b.
Others(i, p, b) == {j \in Id \ {i} : slot[j] = <<p, b>>}
OthersOnBackend(i, b) == {j \in Id \ {i} : \E p \in Pool : slot[j] = <<p, b>>}

Grant(i, p, b) ==
    /\ Cardinality(Others(i, p, b)) < MaxRunners[p][b]
    /\ BrokerLimit[b] > 0 => Cardinality(OthersOnBackend(i, b)) < BrokerLimit[b]
    /\ slot' = [slot EXCEPT ![i] = <<p, b>>]

GiveBack(i) == slot' = [slot EXCEPT ![i] = None]

PoolNext ==
    \E i \in Id : GiveBack(i) \/ \E p \in Pool, b \in Backend : Grant(i, p, b)

PoolSpec == PoolInit /\ [][PoolNext]_slot
=============================================================================
