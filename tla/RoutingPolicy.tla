---------------------------- MODULE RoutingPolicy ----------------------------
(***************************************************************************)
(* How cached knowledge about the providers steers a request between the    *)
(* backends of a pool: registration penalties                               *)
(* (src/internal/api/workflow_job_retry.go), tier decisions                 *)
(* (src/internal/tier) and live capacity (src/internal/capacity), and the   *)
(* filters of src/internal/api/service.go that read them one after another. *)
(*                                                                         *)
(* Background loops refresh the caches from providers that change, fail to  *)
(* answer, or are not asked for too long; requests are filtered, reserve a  *)
(* slot, are launched or rejected, and are sent again until a runner of     *)
(* theirs has finished.  A step is one call on a cache or on a provider.    *)
(***************************************************************************)
EXTENDS Naturals, FiniteSets, FiniteSetsExt, TLC

CONSTANTS
    Backends, Requests, Sources, None,
    ExpiryThreshold,  \* registrationExpiryThreshold
    Worlds
    \* A world is a record [max, provider, live, capMode, tiers, tierMode,
    \* fallback, rules, pin, faults]: configured and provider limits per
    \* backend, the switches of the two policies, the tier rules as records
    \* [action, covers, sources], the pin of every request, and how many
    \* disturbances may happen.

\* A cached reading of a backend: the status of the last answer, an error, its age.
Snapshots == [status : [down : BOOLEAN, max : Nat, free : Nat], err : BOOLEAN, stale : BOOLEAN]

ASSUME RoutingAssumption ==
    /\ ExpiryThreshold \in Nat \ {0}
    /\ IsFiniteSet(Requests) /\ None \notin Backends \cup Snapshots
    /\ \A w \in Worlds :
         /\ DOMAIN w.pin \subseteq Requests
         /\ {w.max, w.provider} \subseteq [Backends -> Nat]
         /\ w.tierMode \in {"block", "fallback", "pass-through"}

VARIABLES
    world,
    node,       \* provider: is the node up, and runners of others on it
    level,      \* what a usage source would report
    snap,       \* capacity.Manager: the cached reading of a backend, or None
    decision,   \* tier.Manager: the cached decision of a backend, or None
    penalty,    \* registrationPenalties: expiries in a row, and the cooldown
    thr,        \* per request: where it is, its candidates with their limits,
                \* and the backend it selected
    faults,     \* disturbances left
    known       \* history: the last reading said the node is down, and the
                \* polls that failed since (at most two are told apart)

caches == <<snap, decision, penalty>>
truth == <<node, level, faults>>
vars == <<world, node, level, snap, decision, penalty, thr, faults, known>>

Idle == [pc |-> "waiting", S |-> {}, cap |-> [b \in Backends |-> 0], be |-> None]
Live == DOMAIN world.pin
Pin(r) == world.pin[r]
Configured == {b \in Backends : world.max[b] > 0}

\* Slots the scheduler has given out, and runners that exist.
Active(b) == Cardinality({r \in Live : thr[r].be = b /\ thr[r].pc \in {"provision", "live", "running"}})
Runners(b) == Cardinality({r \in Live : thr[r].be = b /\ thr[r].pc \in {"live", "running"}})

Watched == UNION {rule.sources : rule \in world.rules}
Levels == {"healthy", "approaching", "exceeded", "down"}
NoStatus == [down |-> FALSE, max |-> 0, free |-> 0]
NoPenalty == [n |-> 0, cooling |-> FALSE]

Init ==
    /\ world \in Worlds
    /\ node \in [Backends -> [up : BOOLEAN, others : {0}]]
    /\ level \in {f \in [Sources -> Levels] : \A s \in Sources \ Watched : f[s] = "healthy"}
    /\ snap = [b \in Backends |-> None]
    /\ decision = [b \in Backends |-> None]
    /\ penalty = [b \in Backends |-> NoPenalty]
    /\ thr = [r \in Requests |-> Idle]
    /\ faults = world.faults
    /\ known = [b \in Backends |-> [down |-> FALSE, fails |-> 0]]

Disturb == faults > 0 /\ faults' = faults - 1

-----------------------------------------------------------------------------
(* Live capacity: capacity.Refresh, MarkStale and EffectiveMaxRunners      *)

FreeSlots(b) ==
    LET used == node[b].others + Runners(b)
    IN  IF used < world.provider[b] THEN world.provider[b] - used ELSE 0

\* A backend pinned to a node that is not ready reports no free slot.
Capacity(b) == [down |-> ~node[b].up, max |-> world.provider[b],
                free |-> IF node[b].up THEN FreeSlots(b) ELSE 0]

RefreshCapacity(b) ==
    /\ world.live
    /\ snap' = [snap EXCEPT ![b] = [status |-> Capacity(b), err |-> FALSE, stale |-> FALSE]]
    /\ known' = [known EXCEPT ![b] = [down |-> ~node[b].up, fails |-> 0]]
    /\ UNCHANGED <<world, truth, decision, penalty, thr>>

Noted(b) == known' = [known EXCEPT ![b].fails = IF @ < 2 THEN @ + 1 ELSE @]

\* Defect: a failed poll forgets the last reading.
RefreshCapacityForgets(b) ==
    /\ world.live /\ Disturb
    /\ snap' = [snap EXCEPT ![b] = [status |-> NoStatus, err |-> TRUE, stale |-> FALSE]]
    /\ Noted(b)
    /\ UNCHANGED <<world, node, level, decision, penalty, thr>>

\* A failed poll keeps the status of a reading that was not itself an error.
RefreshCapacityFails(b) ==
    /\ world.live /\ Disturb
    /\ snap' = [snap EXCEPT ![b] =
            [status |-> IF @ # None /\ ~@.err THEN @.status ELSE NoStatus,
             err |-> TRUE, stale |-> FALSE]]
    /\ Noted(b)
    /\ UNCHANGED <<world, node, level, decision, penalty, thr>>

CapacityMarkStale(b) ==
    /\ snap[b] # None /\ ~snap[b].stale /\ Disturb
    /\ snap' = [snap EXCEPT ![b].stale = TRUE]
    /\ UNCHANGED <<world, node, level, decision, penalty, thr, known>>

Unreliable(s) == s.stale \/ s.err \/ s.status.max = 0
Ceiling(b) == Min({world.max[b], snap[b].status.max})

\* The backend is to be skipped: it is disabled, its node is known to be down, it
\* is full, or the reading says so or cannot be relied on.
Skipped(b) ==
    LET s == snap[b]
    IN  \/ Active(b) >= world.max[b]
        \/ /\ s # None
           /\ \/ s.status.down
              \/ Unreliable(s) /\ world.capMode = "block"
              \/ ~Unreliable(s) /\ (Active(b) >= Ceiling(b) \/ s.status.free = 0)

\* 0 when the backend is to be skipped.
EffectiveMaxRunners(b) ==
    IF Skipped(b) THEN 0
    ELSE IF snap[b] = None \/ Unreliable(snap[b]) THEN world.max[b]
    ELSE Active(b) + Min({snap[b].status.free, Ceiling(b) - Active(b)})

backendHasFreeSchedulerCapacity(b) ==
    IF world.live THEN EffectiveMaxRunners(b) > 0 ELSE Active(b) < world.max[b]

-----------------------------------------------------------------------------
(* Tiers: ConfigRefresher.Refresh, Evaluate and the decision cache         *)

StateRank == [healthy |-> 1, unknown |-> 2, approaching |-> 3, exceeded |-> 4]
ActionRank == ("observe-only" :> 1) @@ ("deprioritize" :> 2) @@ ("disable" :> 3)

\* One source that does not answer makes the rule unknown; otherwise the
\* most restrictive source decides.  Limits, projections and credit are
\* behind the level a source reports.
Evaluate(rule) ==
    IF rule.sources = {} \/ \E s \in rule.sources : level[s] = "down" THEN "unknown"
    ELSE LET worst == CHOOSE s \in rule.sources :
                          \A t \in rule.sources : StateRank[level[s]] >= StateRank[level[t]]
         IN  level[worst]

decisionMoreRestrictive(d, e) ==
    \/ StateRank[d.state] > StateRank[e.state]
    \/ StateRank[d.state] = StateRank[e.state] /\ ActionRank[d.action] > ActionRank[e.action]

\* Provider rules and backend rules that cover b, merged.
Merged(b) ==
    LET found == {[state |-> Evaluate(rule), action |-> rule.action, stale |-> FALSE] :
                      rule \in {q \in world.rules : b \in q.covers}}
    IN  IF found = {} THEN decision[b]
        ELSE CHOOSE d \in found : \A e \in found : ~decisionMoreRestrictive(e, d)

RefreshTiers ==
    /\ world.tiers
    /\ decision' = [b \in Backends |-> Merged(b)]
    /\ UNCHANGED <<world, truth, snap, penalty, thr, known>>

TierMarkStale(b) ==
    /\ decision[b] # None /\ ~decision[b].stale /\ Disturb
    /\ decision' = [decision EXCEPT ![b].stale = TRUE]
    /\ UNCHANGED <<world, node, level, snap, penalty, thr, known>>

Decision(b) == IF decision[b] = None
               THEN [state |-> "unknown", action |-> "disable", stale |-> FALSE] ELSE decision[b]
Uncertain(d) == d.stale \/ d.state = "unknown"

tierDecisionAllowsBackendNormally(d) ==
    \/ d.action = "observe-only"
    \/ IF Uncertain(d) THEN world.tierMode = "pass-through" ELSE d.state = "healthy"

tierDecisionIsDeprioritized(d) ==
    ~d.stale /\ d.state = "approaching" /\ d.action = "deprioritize"

pinnedBackendAllowedByTier(b) ==
    LET d == Decision(b)
    IN  \/ d.action = "observe-only"
        \/ IF Uncertain(d) THEN world.tierMode = "pass-through"
           ELSE d.state = "healthy" \/ (d.state = "approaching" /\ d.action # "disable")

-----------------------------------------------------------------------------
(* The filters.  Each returns the candidates that remain; {} is a refusal. *)

\* Defect: a backend that was penalized once stays so.
PenalizedForGood(b) == penalty[b].n >= ExpiryThreshold

registrationPenalized(b) == penalty[b].cooling

filterRegistrationPenalized(r) ==
    LET kept == {b \in Configured : ~registrationPenalized(b)}
    IN  IF Pin(r) # None \/ kept = {} THEN Configured ELSE kept

TierEligible(S) == {b \in S : tierDecisionAllowsBackendNormally(Decision(b))
                              /\ backendHasFreeSchedulerCapacity(b)}
TierDeprioritized(S) == {b \in S : ~tierDecisionAllowsBackendNormally(Decision(b))
                                   /\ tierDecisionIsDeprioritized(Decision(b))
                                   /\ backendHasFreeSchedulerCapacity(b)}
TierBlocked(S) == {b \in S : ~tierDecisionAllowsBackendNormally(Decision(b))
                             /\ ~tierDecisionIsDeprioritized(Decision(b))}
Exhausted(d) == ~Uncertain(d) /\ d.action = "disable" /\ d.state = "exceeded"

\* Every candidate is blocked.
AllBlocked(S) ==
    CASE world.tierMode = "block"        -> {}
      [] world.tierMode = "fallback"     -> S \cap world.fallback
      [] world.tierMode = "pass-through" -> IF \A b \in S : Exhausted(Decision(b)) THEN {} ELSE S

\* Defect: a backend near its limit counts as eligible.
TierFilterMixed(r) ==
    LET S == thr[r].S
    IN  IF TierBlocked(S) = S THEN AllBlocked(S) ELSE TierEligible(S) \cup TierDeprioritized(S)

filterBackendsByTierState(r) ==
    LET S == thr[r].S
    IN  CASE ~world.tiers                -> S
          [] world.tiers /\ Pin(r) # None -> IF pinnedBackendAllowedByTier(Pin(r)) THEN S ELSE {}
          [] OTHER ->
              IF TierEligible(S) # {} THEN TierEligible(S)
              ELSE IF TierDeprioritized(S) # {} THEN TierDeprioritized(S)
              ELSE IF TierBlocked(S) # S THEN {}   \* the others are only full
              ELSE AllBlocked(S)

filterBackendsByLiveCapacity(r) ==
    LET lane == IF Pin(r) # None THEN thr[r].S \cap {Pin(r)} ELSE thr[r].S
    IN  {b \in lane : ~world.live \/ EffectiveMaxRunners(b) > 0}

-----------------------------------------------------------------------------
(* A request                                                               *)

\* With no candidate left the request is refused and will be sent again.
Keep(r, pc, S) == thr' = [thr EXCEPT ![r] = IF S = {} THEN Idle ELSE [@ EXCEPT !.pc = pc, !.S = S]]

Arrive(r) ==
    /\ thr[r].pc = "waiting"
    /\ Keep(r, "tier", filterRegistrationPenalized(r))
    /\ UNCHANGED <<world, truth, caches, known>>

FilterTier(r) ==
    /\ thr[r].pc = "tier"
    /\ Keep(r, "capacity", filterBackendsByTierState(r))
    /\ UNCHANGED <<world, truth, caches, known>>

\* The candidates carry the limit that was computed here.
FilterCapacity(r) ==
    LET S == filterBackendsByLiveCapacity(r)
    IN  /\ thr[r].pc = "capacity"
        /\ thr' = [thr EXCEPT ![r] =
                IF S = {} THEN Idle
                ELSE [@ EXCEPT !.pc = "reserve", !.S = S,
                               !.cap = [b \in Backends |->
                                            IF b \notin S THEN 0
                                            ELSE IF world.live THEN EffectiveMaxRunners(b)
                                            ELSE world.max[b]]]]
        /\ UNCHANGED <<world, truth, caches, known>>

Roomy(r) == {b \in thr[r].S : Active(b) < thr[r].cap[b]}

Reserve(r) ==
    /\ thr[r].pc = "reserve"
    /\ \/ /\ Roomy(r) = {}
          /\ thr' = [thr EXCEPT ![r] = Idle]
       \/ \E b \in Roomy(r) : thr' = [thr EXCEPT ![r].pc = "provision", ![r].be = b]
    /\ UNCHANGED <<world, truth, caches, known>>

\* The provider has the last word; a rejected request that is not pinned
\* tries the other candidates it was left with.
Provision(r) ==
    LET b == thr[r].be
    IN  /\ thr[r].pc = "provision"
        /\ \/ /\ node[b].up /\ FreeSlots(b) > 0
              /\ thr' = [thr EXCEPT ![r] = [Idle EXCEPT !.pc = "live", !.be = b]]
           \/ /\ ~(node[b].up /\ FreeSlots(b) > 0)
              /\ thr' = [thr EXCEPT ![r] =
                    IF Pin(r) # None \/ @.S = {b} THEN Idle
                    ELSE [@ EXCEPT !.pc = "reserve", !.S = thr[r].S \ {b}, !.be = None]]
        /\ UNCHANGED <<world, truth, caches, known>>

recordRegistrationSuccess(r) ==
    /\ thr[r].pc = "live"
    /\ penalty' = [penalty EXCEPT ![thr[r].be] = NoPenalty]
    /\ thr' = [thr EXCEPT ![r].pc = "running"]
    /\ UNCHANGED <<world, truth, snap, decision, known>>

\* The reaper ends a runner that never registered.
recordRegistrationExpiry(r) ==
    LET n == Min({penalty[thr[r].be].n + 1, ExpiryThreshold})
    IN  /\ thr[r].pc = "live" /\ Disturb
        /\ penalty' = [penalty EXCEPT ![thr[r].be] =
                [n |-> n, cooling |-> @.cooling \/ n = ExpiryThreshold]]
        /\ thr' = [thr EXCEPT ![r] = Idle]
        /\ UNCHANGED <<world, node, level, snap, decision, known>>

Finish(r) ==
    /\ thr[r].pc = "running"
    /\ thr' = [thr EXCEPT ![r] = [Idle EXCEPT !.pc = "done"]]
    /\ UNCHANGED <<world, truth, caches, known>>

-----------------------------------------------------------------------------
(* The world                                                               *)

CooldownPasses(b) ==
    /\ penalty[b].cooling
    /\ penalty' = [penalty EXCEPT ![b].cooling = FALSE]
    /\ UNCHANGED <<world, truth, snap, decision, thr, known>>

NodeChanges(b) ==
    /\ Disturb
    /\ \E up \in BOOLEAN, others \in {0, world.provider[b]} :
          node' = [node EXCEPT ![b] = [up |-> up, others |-> others]]
    /\ UNCHANGED <<world, level, caches, thr, known>>

LevelChanges(s) ==
    /\ s \in Watched /\ Disturb
    /\ \E l \in Levels : level' = [level EXCEPT ![s] = l]
    /\ UNCHANGED <<world, node, caches, thr, known>>

Step(r) ==
    \/ Arrive(r) \/ FilterTier(r) \/ FilterCapacity(r) \/ Reserve(r)
    \/ Provision(r) \/ recordRegistrationSuccess(r) \/ Finish(r)

Next ==
    \/ \E r \in Live : Step(r) \/ recordRegistrationExpiry(r)
    \/ \E b \in Backends : \/ RefreshCapacity(b) \/ RefreshCapacityFails(b) \/ CapacityMarkStale(b)
                           \/ TierMarkStale(b) \/ CooldownPasses(b) \/ NodeChanges(b)
    \/ RefreshTiers
    \/ \E s \in Sources : LevelChanges(s)

Spec == Init /\ [][Next]_vars

\* Requests are sent again and run on, the two refresh loops keep asking, and
\* a cooldown ends.
FairSpec ==
    /\ Spec
    /\ \A r \in Requests : WF_vars(r \in Live /\ Step(r))
    /\ \A b \in Backends : WF_vars(RefreshCapacity(b)) /\ WF_vars(CooldownPasses(b))
    /\ WF_vars(RefreshTiers)

-----------------------------------------------------------------------------
(* Properties                                                              *)

\* A node that the last reading found down gets no runner, whatever the
\* failure mode, as long as at most one poll failed since ("A known-down
\* node is never free capacity", EffectiveMaxRunners).  After a second
\* failed poll the reading is gone: capacity.Refresh keeps the status of a
\* good snapshot only.
KnownDownNodeSpared ==
    [][\A r \in Live : FilterCapacity(r) /\ world.live =>
          \A b \in thr'[r].S : ~(known[b].down /\ known[b].fails <= 1)]_vars

\* How good a choice the tier policy makes of a backend.
Preference(b) ==
    CASE tierDecisionAllowsBackendNormally(Decision(b)) -> 0
      [] tierDecisionIsDeprioritized(Decision(b)) -> 1
      [] OTHER -> 2

\* A request without a pin goes to a backend near or over its limits only
\* when no candidate that the policy prefers has a free slot, and to a blocked
\* one only when every candidate is blocked, whatever mixture of missing,
\* stale and failed tier and capacity data there is (filterBackendsByTierState).
BestTierFirst ==
    [][\A r \in Live : FilterTier(r) /\ world.tiers /\ Pin(r) = None =>
          \A b \in thr'[r].S, c \in thr[r].S :
              /\ backendHasFreeSchedulerCapacity(c) => Preference(b) <= Preference(c)
              /\ Preference(b) = 2 => Preference(c) = 2]_vars

\* A backend that would really take a runner and that no rule is against.
Usable(b) ==
    /\ b \in Configured /\ node[b].up /\ node[b].others = 0
    /\ world.tiers => Merged(b) # None /\ Merged(b).state = "healthy"

\* If some backend can be used from some time on, every request without a pin
\* is served in the end: a penalty, a stale or failed reading, or an old tier
\* decision delays it but never shuts it out for good.
RequestsRouted ==
    \A r \in Requests : <>[](\E b \in Backends : Usable(b))
                          => <>(r \in Live /\ Pin(r) = None => thr[r].pc = "done")
=============================================================================
