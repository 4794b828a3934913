--------------------------- MODULE MCRoutingPolicy ---------------------------
(* Two backends, under each policy and failure mode.                       *)
EXTENDS RoutingPolicy, TLC

CONSTANTS b1, b2, s1, s2, r1, r2

Both(x, y) == (b1 :> x) @@ (b2 :> y)
Rule(a, C, S) == [action |-> a, covers |-> C, sources |-> S]

Plain == [max |-> Both(2, 1), provider |-> Both(1, 2), live |-> FALSE, capMode |-> "pass-through",
          tiers |-> FALSE, tierMode |-> "pass-through", fallback |-> {}, rules |-> {},
          pin |-> (r1 :> None) @@ (r2 :> None), faults |-> 2]

Penalties == [Plain EXCEPT !.max = Both(1, 1)]
CapOpen   == [Plain EXCEPT !.live = TRUE, !.faults = 1]
CapTwice  == [CapOpen EXCEPT !.pin = (r1 :> None), !.faults = 2]
CapBlock  == [CapOpen EXCEPT !.capMode = "block", !.pin = (r1 :> None) @@ (r2 :> b1), !.faults = 1]

\* b1 has a rule of its own; a provider rule covers both backends.
OneEach == {Rule("disable", {b1}, {s1}), Rule("deprioritize", {b2}, {s2})}
Shared  == {Rule("disable", {b1, b2}, {s1}), Rule("observe-only", {b2}, {s1, s2})}
TierOpen     == [Plain EXCEPT !.tiers = TRUE, !.rules = OneEach, !.pin = (r1 :> None), !.faults = 1]
TierShared   == [TierOpen EXCEPT !.rules = Shared]
TierBlock    == [TierOpen EXCEPT !.tierMode = "block", !.pin = (r1 :> None) @@ (r2 :> b2), !.faults = 1]
TierFallback == [TierOpen EXCEPT !.tierMode = "fallback", !.fallback = {b2}]
OneSource    == {Rule("disable", {b1}, {s1}), Rule("deprioritize", {b2}, {s1})}
Everything   == [TierOpen EXCEPT !.live = TRUE, !.rules = OneSource]

RoutingWorlds == {Penalties, CapOpen, CapTwice, CapBlock, TierOpen, TierShared, TierBlock,
                  TierFallback, Everything}
=============================================================================
