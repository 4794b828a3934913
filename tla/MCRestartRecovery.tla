-------------------------- MODULE MCRestartRecovery --------------------------
(* Instances of RestartRecovery. *)
EXTENDS RestartRecovery

MCHoldIds == 0 .. (Cardinality(Ids) - 1)

W(store, pods, capacity, quarantine, fails, expire, maxes, n, bad, events) ==
    [store |-> store, pods |-> pods, capacity |-> capacity, quarantine |-> quarantine,
     cleanupFails |-> fails, holdsExpire |-> expire, maxes |-> maxes, restarts |-> n,
     badWrites |-> bad, events |-> events]

RecoveryWorlds ==
    { \* the store forgets everything, twice; maxRunners may change
      W("memory", TRUE, TRUE, TRUE, TRUE, TRUE, {1, 2}, 2, 0, {}),
      \* pods get lost
      W("memory", TRUE, TRUE, FALSE, FALSE, TRUE, {2}, 1, 0, {"vanish", "orphan", "drain"}),
      \* the store keeps its records, but a write may fail
      W("file", TRUE, TRUE, FALSE, TRUE, FALSE, {1, 2}, 1, 0, {}),
      W("file", TRUE, TRUE, TRUE, FALSE, TRUE, {1}, 1, 1, {}),
      \* holds of one restart meet the gap of the next
      W("file", TRUE, TRUE, FALSE, TRUE, FALSE, {1}, 2, 1, {}),
      \* warm pools
      W("shared", FALSE, FALSE, TRUE, TRUE, TRUE, {2}, 1, 0, {"drain"}),
      W("memory", FALSE, TRUE, FALSE, TRUE, TRUE, {2}, 1, 0, {}) }
=============================================================================
