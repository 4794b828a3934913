------------------------------ MODULE FileStore ------------------------------
(***************************************************************************)
(* The allocation records of one broker process and what is left of them   *)
(* when the process stops.  (src/internal/store/file.go; the memory store  *)
(* leaves nothing, the PostgreSQL store everything.)                        *)
(*                                                                         *)
(* The file store keeps all records in memory and writes the whole map to   *)
(* a temporary file that it renames over the old one: a crash leaves the    *)
(* old or the new map.  A write that fails puts the old record back into    *)
(* memory; when it failed after the rename the file holds the new map.      *)
(***************************************************************************)
EXTENDS Naturals, FiniteSets

CONSTANTS
    Ids,        \* allocation ids
    HoldIds,    \* numbers of the synthetic restart-orphan holds
    Worlds      \* deployments: [store, pods, capacity, quarantine, cleanupFails,
                \*  holdsExpire, maxes, restarts, badWrites, events], where
                \*  events are the things that happen in it: "drain", a
                \*  SIGTERM; "vanish", lost pods; "orphan", orphan passes

VARIABLES
    world,      \* the deployment, chosen once
    rec,        \* the records in memory
    disk,       \* the records a new process would load
    badWrites   \* writes that may still fail

storeVars == <<rec, disk, badWrites>>

Keys == Ids \cup HoldIds
Accounted == {"reserved", "ready", "warm"}      \* isSchedulerAccountedState
Active == {"reserved", "ready"}                 \* isActiveAllocationState
RecordStates == Accounted \cup {"quarantined", "ended", "none"}

\* label: RunnerLabel is set; reg: RegisteredAt is set.
Records == [state : RecordStates, label : BOOLEAN, reg : BOOLEAN]
NoRecord == [state |-> "none", label |-> FALSE, reg |-> FALSE]
Empty == [k \in Keys |-> NoRecord]

AccountedIn(m) == {k \in Keys : m[k].state \in Accounted}
Exists(k) == rec[k].state # "none"

StoreInit ==
    /\ world \in Worlds
    /\ rec = Empty /\ disk = Empty
    /\ badWrites = world.badWrites

\* persistLocked and writeFileAtomic; the memory store writes nothing.
Persist(m) ==
    /\ rec' = m
    /\ disk' = IF world.store = "memory" THEN Empty ELSE m
    /\ UNCHANGED badWrites

\* The write of map m over a file with map d fails, before or after the
\* rename, and memory goes back to map m0.
PersistFails(m0, d, m) ==
    /\ world.store = "file" /\ badWrites > 0
    /\ badWrites' = badWrites - 1
    /\ rec' = m0
    /\ disk' \in {d, m}

Saved(k, r) == [rec EXCEPT ![k] = r]
Marked(k, s) == [rec EXCEPT ![k].state = s]

Save(k, r) == Persist(Saved(k, r))
SaveFails(k, r) == PersistFails(rec, disk, Saved(k, r))

MarkState(k, s) == Exists(k) /\ Persist(Marked(k, s))

\* SaveIfState and SaveIfCapacity check and write under one lock.
SaveIfState(k, r, from) == rec[k].state = from /\ Persist(Saved(k, r))
SaveIfCapacity(k, r, n) ==
    /\ Cardinality(AccountedIn(rec) \ {k}) < n
    /\ Persist(Saved(k, r))

\* Delete, and PruneTerminal for a record past its retention.
Delete(k) == Persist(Saved(k, NoRecord))
PruneTerminal(k) ==
    rec[k].state \in {"ended", "quarantined"} /\ Persist(Saved(k, NoRecord))

\* NewFile and load: what a new process of the broker starts with.
Load == rec' = disk /\ UNCHANGED <<disk, badWrites>>

=============================================================================
