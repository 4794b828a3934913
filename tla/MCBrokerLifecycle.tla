-------------------------- MODULE MCBrokerLifecycle --------------------------
(***************************************************************************)
(* Instances of BrokerLifecycle for TLC.                                   *)
(***************************************************************************)
EXTENDS BrokerLifecycle, TLC

\* Two pools that share one backend and each have one slot on it; together
\* they may use one (broker.backendLimits).  The pools name different
\* schedulers, so no scheduler sees the other pool's slot.
TwoPools == {"p1", "p2"}
OneBackend == {"lambda"}

SharedConfigured == [p \in TwoPools |-> OneBackend]
SharedMax == [p \in TwoPools |-> [b \in OneBackend |-> 1]]
SharedCross == [p \in TwoPools |-> [b \in OneBackend |-> 0]]
SharedBroker == [b \in OneBackend |-> 1]
SharedStatic == [p \in TwoPools |-> {}]
SharedScheduler == [p \in TwoPools |-> p]

\* One pool with one slot on each of ARC, a cloud backend and a backend that
\* has no implementation.  ARC hands out a static runner label.
OnePool == {"p1"}
ThreeBackends == {"arc", "lambda", "custom"}
ARCAndCloud == {"arc", "lambda"}
FallbackConfigured == [p \in OnePool |-> ThreeBackends]
FallbackMax == [p \in OnePool |-> [b \in ThreeBackends |-> 1]]
FallbackCross == [p \in OnePool |-> [b \in ThreeBackends |-> 0]]
FallbackBroker == [b \in ThreeBackends |-> 0]
FallbackStatic == [p \in OnePool |-> {"arc"}]
FallbackScheduler == [p \in OnePool |-> "round-robin"]

\* A pool that prefers ARC and a pool without ARC that prefers its local
\* backend; both spill to one cloud slot that they share, and they share a
\* scheduler too.
SpillBackends == {"arc", "local", "lambda"}
SpillConfigured == [p \in TwoPools |-> IF p = "p1" THEN {"arc", "lambda"} ELSE {"local", "lambda"}]
SpillMax == [p \in TwoPools |-> [b \in SpillBackends |-> IF b \in SpillConfigured[p] THEN 1 ELSE 0]]
SpillCross == [p \in TwoPools |-> [b \in SpillBackends |-> 0]]
SpillBroker == [b \in SpillBackends |-> IF b = "lambda" THEN 1 ELSE 0]
SpillStatic == [p \in TwoPools |-> {}]
SpillScheduler == [p \in TwoPools |-> "round-robin"]

\* One pool with one slot on one backend.
SingleConfigured == [p \in OnePool |-> OneBackend]
SingleMax == [p \in OnePool |-> [b \in OneBackend |-> 1]]
SingleCross == [p \in OnePool |-> [b \in OneBackend |-> 0]]
SingleBroker == [b \in OneBackend |-> 0]
SingleStatic == [p \in OnePool |-> {}]
SingleScheduler == [p \in OnePool |-> "round-robin"]

Ids2 == 1 .. 2
Ids3 == 1 .. 3
Ids4 == 1 .. 4

Interchangeable == Permutations(Requests) \cup Permutations(Cancels) \cup Permutations(Completes)
=============================================================================
