-------------------------- MODULE MCWorkflowIntake --------------------------
(***************************************************************************)
(* Small deployments of WorkflowIntake: one process with its own store, and *)
(* two replicas that share a PostgreSQL store.                              *)
(***************************************************************************)
EXTENDS WorkflowIntake

CONSTANTS r1, r2, j1, j2, w1

AllOf(j) == {j} \X Acts
Base == [replicas |-> {r1}, jobs |-> {j1, j2}, drivers |-> {"jit"}, postgres |-> FALSE,
         loops |-> {"queue"}, events |-> AllOf(j1), losses |-> 0, redeliveries |-> 0,
         crashes |-> 0, draws |-> 2]

\* One process: GitHub may give the runner of j1 to j2.
Swap == [Base EXCEPT !.events = AllOf(j1) \cup {<<j2, "queued">>, <<j2, "in_progress">>},
                     !.loops = {"queue", "reap"}]
\* The same with persistent workers, whose names are used again.
Vm == [Base EXCEPT !.drivers = {"vm"}, !.loops = {"queue", "reap"},
                   !.events = AllOf(j1) \cup {<<j2, "queued">>, <<j2, "in_progress">>}]
\* The ARC adapter, and an event that is delivered twice.
Arc == [Base EXCEPT !.drivers = {"arc"}, !.jobs = {j1}, !.redeliveries = 1]
\* Events that are lost, found again by the poll, and records that are removed.
Lossy == [Base EXCEPT !.jobs = {j1}, !.losses = 1, !.draws = 3,
                      !.loops = {"poll", "reap", "prune"}]
\* Two replicas over one store, one of which may stop.
Shared == [Base EXCEPT !.replicas = {r1, r2}, !.jobs = {j1}, !.postgres = TRUE,
                       !.loops = {}, !.crashes = 1]
\* Two replicas that poll while the queued event is on its way.
Polling == [Shared EXCEPT !.loops = {"poll"}, !.events = {<<j1, "queued">>}, !.losses = 1]

\* The same worlds cut down for liveness.
LossyLive == [Lossy EXCEPT !.loops = {"poll", "reap"}, !.events = {<<j1, "queued">>}]
SharedLive == [Shared EXCEPT !.events = {<<j1, "queued">>, <<j1, "completed">>}]

McAllocs == 1 .. 3
McWorlds == {Swap, Vm, Arc, Lossy, Shared, Polling}
McLiveWorlds == {LossyLive, SharedLive}
=============================================================================
