-------------------------- MODULE MCReconcileScan ---------------------------
(* Two repositories with runs of different ages. *)
EXTENDS ReconcileScan

Quiet == [sizes |-> {2}, runs |-> << <<"hour">>, <<"older">> >>, accepts |-> {1, 2}, pages |-> 1,
          limits |-> 0, resets |-> 1]
\* GitHub refuses for a while, the list changes, one repository is not served.
Rough == [Quiet EXCEPT !.runs = << <<"week">>, <<>> >>, !.sizes = {0, 2}, !.accepts = {1}, !.pages = 2, !.limits = 1, !.resets = 0]
McWorlds == {Quiet, Rough}
=============================================================================
