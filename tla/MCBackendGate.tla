---------------------------- MODULE MCBackendGate ----------------------------
(* Instances of BackendGate: one world per gate, small enough to combine.  *)
EXTENDS BackendGate, TLC

CONSTANTS p1, p2, b1, b2, t0, t1, low, high, r1, r2, r3

MCKeys == Pools \X Backends

Both(x, y) == (b1 :> x) @@ (b2 :> y)
Lanes(x, y) == (low :> x) @@ (high :> y)
Quotas(x, y) == (t0 :> x) @@ (t1 :> y)
Req(p, t, c, pin) == [pool |-> p, tenant |-> t, class |-> c, pin |-> pin]

\* One backend, one slot per request, no gate switched on.
Plain == [ring |-> <<b1>>, max |-> Both(2, 0), cross |-> Both(0, 0),
          weight |-> Lanes(1, 4), soft |-> Lanes(0, 0), quota |-> Quotas(0, 0),
          after |-> 0, window |-> 0, quality |-> FALSE,
          breaker |-> {}, probe |-> {}, rate |-> Both(0, 0), budget |-> Both(0, 0),
          req |-> (r1 :> Req(p1, t0, low, None)) @@ (r2 :> Req(p1, t0, low, None)),
          faults |-> {}]

ThreeLow == (r1 :> Req(p1, t0, low, None)) @@ (r2 :> Req(p1, t0, low, None))
              @@ (r3 :> Req(p1, t0, high, None))

ReservedLane == [Plain EXCEPT !.soft = Lanes(0, 1), !.req = ThreeLow,
                              !.faults = {"capacity", "cancel", "restart"}]
StarvingLane == [ReservedLane EXCEPT !.after = 1, !.faults = {"unclassified"}]
FullReserve  == [ReservedLane EXCEPT !.max = Both(1, 0), !.faults = {}]
StarvedPast  == [FullReserve EXCEPT !.after = 1]

TwoTenants == (r1 :> Req(p1, t0, low, None)) @@ (r2 :> Req(p1, t1, low, None))
                @@ (r3 :> Req(p1, t0, low, None))
TenantQuota == [Plain EXCEPT !.rate = Both(1, 0), !.quota = Quotas(1, 0), !.req = TwoTenants]

Breaker == [Plain EXCEPT !.breaker = {b1}, !.probe = {b1}, !.faults = {"trip"}]
Unprobed == [Breaker EXCEPT !.probe = {}]
PinnedRate == [Plain EXCEPT !.ring = <<b1, b2>>, !.max = Both(2, 1), !.rate = Both(1, 0),
                            !.req = (r1 :> Req(p1, t0, low, b1)) @@ (r2 :> Req(p1, t0, low, b1)),
                            !.faults = {"capacity"}]

DailyBudget == [Plain EXCEPT !.budget = Both(1, 0), !.faults = {"cancel"}]
Ranked == [Plain EXCEPT !.ring = <<b1, b2>>, !.max = Both(1, 1), !.quality = TRUE]
Windowed == [Plain EXCEPT !.ring = <<b1, b2, b2>>, !.max = Both(1, 2), !.window = 1]
CrossPool == [Plain EXCEPT !.cross = Both(1, 0),
                           !.req = (r1 :> Req(p1, t0, low, None)) @@ (r2 :> Req(p2, t0, low, None))]

GateWorlds == {ReservedLane, StarvingLane, FullReserve, StarvedPast, TenantQuota, Breaker,
               Unprobed, PinnedRate, DailyBudget, Ranked, Windowed, CrossPool}

\* An unprobed backend some of whose launches end without a report.
StuckWorlds == {[Unprobed EXCEPT !.faults = {"trip", "unclassified"}]}
=============================================================================
