------------------------ MODULE RoutingPolicy_proofs -------------------------
(***************************************************************************)
(* What the filters between a request and its backend promise, for every    *)
(* set of backends, requests, tier rules and usage sources, every policy    *)
(* and any number of failed polls and stale readings: a node known to be    *)
(* down is spared, the tier policy's preference is kept, and limits that    *)
(* were computed from old readings never let a backend run more than its    *)
(* maxRunners.                                                              *)
(*                                                                         *)
(* The argument.  TypeInv gives every thread its fields.  A node that the   *)
(* last reading found down is still marked in the cache after one failed    *)
(* poll, because the reading before it was no error (KnownInv).  Every      *)
(* limit a request carries is at most maxRunners, whatever the readings it  *)
(* was computed from, and a slot is taken only below such a limit, counted  *)
(* at the moment it is taken (LimitInv).                                    *)
(***************************************************************************)
EXTENDS RoutingPolicy, FiniteSetTheorems, TLAPS

PCs == {"waiting", "tier", "capacity", "reserve", "provision", "live", "running", "done"}
Threads == [pc : PCs, S : SUBSET Backends, cap : [Backends -> Nat], be : Backends \cup {None}]

TypeInv ==
    /\ world \in Worlds
    /\ node \in [Backends -> [up : BOOLEAN, others : Nat]]
    /\ snap \in [Backends -> Snapshots \cup {None}]
    /\ known \in [Backends -> [down : BOOLEAN, fails : Nat]]
    /\ thr \in [Requests -> Threads]

\* A node found down is marked so until the second failed poll, and the reading
\* that found it is no error.
KnownInv ==
    \A b \in Backends : known[b].down /\ known[b].fails <= 1 =>
        /\ snap[b] # None /\ snap[b].status.down
        /\ known[b].fails = 0 => ~snap[b].err

Holders(b) ==
    {r \in Live : thr[r].be = b /\ thr[r].pc \in {"provision", "live", "running"}}

\* The scheduler's count of a backend is within its limit, and so is every limit
\* a request carries.
LimitInv ==
    /\ \A r \in Requests, b \in Backends : thr[r].cap[b] <= world.max[b]
    /\ \A b \in Backends : Active(b) <= world.max[b]

-----------------------------------------------------------------------------
(* What the definitions compute.                                            *)

\* The configuration's types.
LEMMA WorldFacts ==
    ASSUME TypeInv
    PROVE  /\ Live \subseteq Requests /\ IsFiniteSet(Live)
           /\ world.max \in [Backends -> Nat] /\ world.provider \in [Backends -> Nat]
           /\ world.tierMode \in {"block", "fallback", "pass-through"}
           /\ None \notin Backends /\ None \notin Snapshots
  <1>1. /\ Live \subseteq Requests
        /\ world.max \in [Backends -> Nat] /\ world.provider \in [Backends -> Nat]
        /\ world.tierMode \in {"block", "fallback", "pass-through"}
        /\ None \notin Backends /\ None \notin Snapshots
    BY RoutingAssumption DEF TypeInv, Live
  <1>2. IsFiniteSet(Live)
    BY <1>1, RoutingAssumption, FS_Subset
  <1> QED BY <1>1, <1>2

\* Active counts the holders.
LEMMA ActiveFacts ==
    ASSUME TypeInv, NEW b \in Backends
    PROVE  Active(b) = Cardinality(Holders(b)) /\ IsFiniteSet(Holders(b)) /\ Active(b) \in Nat
  <1>1. IsFiniteSet(Holders(b))
    BY WorldFacts, FS_Subset DEF Holders
  <1>2. Active(b) = Cardinality(Holders(b))
    BY DEF Active, Holders
  <1> QED BY <1>1, <1>2, FS_CardinalityType

\* The smaller of two numbers.
LEMMA MinOfTwo ==
    ASSUME NEW m \in Nat, NEW n \in Nat
    PROVE  /\ Min({m, n}) \in Nat
           /\ Min({m, n}) \in {m, n} /\ Min({m, n}) <= m /\ Min({m, n}) <= n
  <1>1. \E x \in {m, n} : \A y \in {m, n} : x <= y
    <2>1. CASE m <= n
      BY <2>1
    <2>2. CASE n <= m
      BY <2>2
    <2> QED BY <2>1, <2>2
  <1>2. Min({m, n}) \in {m, n} /\ \A y \in {m, n} : Min({m, n}) <= y
    BY <1>1 DEF Min
  <1> QED BY <1>2

\* A reading of the provider is a snapshot's status.
LEMMA CapacityType ==
    ASSUME TypeInv, NEW b \in Backends
    PROVE  Capacity(b) \in [down : BOOLEAN, max : Nat, free : Nat]
  <1>1. IsFiniteSet({r \in Live : thr[r].be = b /\ thr[r].pc \in {"live", "running"}})
    BY WorldFacts, FS_Subset
  <1>2. Runners(b) \in Nat
    BY <1>1, FS_CardinalityType DEF Runners
  <1>3. node[b].others \in Nat /\ node[b].up \in BOOLEAN /\ world.provider[b] \in Nat
    BY WorldFacts DEF TypeInv
  <1>4. FreeSlots(b) \in Nat
    BY <1>2, <1>3 DEF FreeSlots
  <1> QED BY <1>3, <1>4 DEF Capacity

\* The limit that live capacity computes is at most maxRunners, whatever the
\* reading; it is 0 for a node that the reading has down.
LEMMA EffectiveFacts ==
    ASSUME TypeInv, NEW b \in Backends
    PROVE  /\ EffectiveMaxRunners(b) \in Nat /\ EffectiveMaxRunners(b) <= world.max[b]
           /\ snap[b] # None /\ snap[b].status.down => EffectiveMaxRunners(b) = 0
  <1>1. Active(b) \in Nat /\ world.max[b] \in Nat
    BY ActiveFacts, WorldFacts
  <1>2. CASE Skipped(b)
    BY <1>1, <1>2 DEF EffectiveMaxRunners
  <1>3. CASE ~Skipped(b) /\ (snap[b] = None \/ Unreliable(snap[b]))
    BY <1>1, <1>3 DEF EffectiveMaxRunners, Skipped
  <1>4. CASE ~Skipped(b) /\ ~(snap[b] = None \/ Unreliable(snap[b]))
    <2>1. snap[b] \in Snapshots
      BY <1>4 DEF TypeInv
    <2>2. snap[b].status.max \in Nat /\ snap[b].status.free \in Nat
      BY <2>1 DEF Snapshots
    <2>3. Ceiling(b) \in Nat /\ Ceiling(b) <= world.max[b]
      BY <1>1, <2>2, MinOfTwo DEF Ceiling
    <2>4. Active(b) < Ceiling(b)
      BY <1>1, <1>4, <2>3 DEF Skipped
    <2>5. Ceiling(b) - Active(b) \in Nat
      BY <1>1, <2>3, <2>4
    <2>6. /\ Min({snap[b].status.free, Ceiling(b) - Active(b)}) \in Nat
          /\ Min({snap[b].status.free, Ceiling(b) - Active(b)}) <= Ceiling(b) - Active(b)
      BY <2>2, <2>5, MinOfTwo
    <2>7. EffectiveMaxRunners(b) = Active(b) + Min({snap[b].status.free, Ceiling(b) - Active(b)})
      BY <1>4 DEF EffectiveMaxRunners
    <2>8. ~(snap[b] # None /\ snap[b].status.down)
      BY <1>4 DEF Skipped
    <2> QED BY <1>1, <2>3, <2>4, <2>6, <2>7, <2>8
  <1> QED BY <1>2, <1>3, <1>4

\* The filters only take candidates away.
LEMMA FiltersShrink ==
    ASSUME TypeInv, NEW r \in Live
    PROVE  /\ filterRegistrationPenalized(r) \subseteq Backends
           /\ filterBackendsByTierState(r) \subseteq thr[r].S
           /\ filterBackendsByLiveCapacity(r) \subseteq thr[r].S
  <1>1. filterRegistrationPenalized(r) \subseteq Backends
    BY DEF filterRegistrationPenalized, Configured
  <1>2. AllBlocked(thr[r].S) \subseteq thr[r].S
    BY WorldFacts DEF AllBlocked
  <1>3. filterBackendsByTierState(r) \subseteq thr[r].S
    BY <1>2 DEF filterBackendsByTierState, TierEligible, TierDeprioritized
  <1>4. filterBackendsByLiveCapacity(r) \subseteq thr[r].S
    BY DEF filterBackendsByLiveCapacity
  <1> QED BY <1>1, <1>3, <1>4

-----------------------------------------------------------------------------
(* The steps.                                                               *)

Holding == {"provision", "live", "running"}

\* A request goes to v: its limits stay within maxRunners, and a slot is new only
\* below the limit it carries.
Moves(r, v) ==
    /\ thr' = [thr EXCEPT ![r] = v]
    /\ \A b \in Backends : v.cap[b] <= world.max[b]
    /\ v.pc \in Holding =>
         \/ thr[r].pc \in Holding /\ v.be = thr[r].be
         \/ v.be \in Backends /\ Active(v.be) < thr[r].cap[v.be]

RequestStep(r) ==
    /\ UNCHANGED <<world, node, snap, known>>
    /\ \E v \in Threads : Moves(r, v)

\* A request that is refused holds nothing.
LEMMA IdleFacts ==
    ASSUME TypeInv, NEW r \in Live, thr' = [thr EXCEPT ![r] = Idle]
    PROVE  \E v \in Threads : Moves(r, v)
  <1>1. Idle \in Threads
    BY DEF Idle, Threads, PCs
  <1>2. \A b \in Backends : Idle.cap[b] <= world.max[b]
    BY WorldFacts DEF Idle
  <1>3. Idle.pc \notin Holding
    BY DEF Idle, Holding
  <1> QED BY <1>1, <1>2, <1>3 DEF Moves

\* The candidates that a filter leaves, and where the request goes with them.
LEMMA KeepFacts ==
    ASSUME TypeInv, LimitInv, NEW r \in Live, NEW pc \in PCs \ Holding, NEW S \in SUBSET Backends,
           Keep(r, pc, S)
    PROVE  \E v \in Threads : Moves(r, v)
  <1>1. r \in Requests /\ thr[r] \in Threads
    BY WorldFacts DEF TypeInv
  <1>2. CASE S = {}
    BY <1>2, IdleFacts DEF Keep
  <1>3. CASE S # {}
    <2> DEFINE v == [thr[r] EXCEPT !.pc = pc, !.S = S]
    <2>1. thr' = [thr EXCEPT ![r] = v]
      BY <1>3 DEF Keep
    <2>2. v \in Threads /\ v.pc = pc /\ v.cap = thr[r].cap
      BY <1>1 DEF Threads
    <2>3. \A b \in Backends : v.cap[b] <= world.max[b]
      BY <1>1, <2>2 DEF LimitInv
    <2> QED BY <2>1, <2>2, <2>3 DEF Moves
  <1> QED BY <1>2, <1>3

\* Every step of a request is such a move.
LEMMA RequestSteps ==
    ASSUME TypeInv, LimitInv, NEW r \in Live, Step(r) \/ recordRegistrationExpiry(r)
    PROVE  RequestStep(r)
  <1>0. r \in Requests /\ thr[r] \in Threads
    BY WorldFacts DEF TypeInv
  <1>1. \A b \in Backends : thr[r].cap[b] <= world.max[b]
    BY <1>0 DEF LimitInv
  <1>2. CASE Arrive(r)
    <2>1. filterRegistrationPenalized(r) \subseteq Backends
      BY FiltersShrink
    <2>2. Keep(r, "tier", filterRegistrationPenalized(r)) /\ UNCHANGED <<world, node, snap, known>>
      BY <1>2 DEF Arrive, truth, caches
    <2>3. "tier" \in PCs \ Holding
      BY DEF PCs, Holding
    <2> QED BY <2>1, <2>2, <2>3, KeepFacts DEF RequestStep
  <1>3. CASE FilterTier(r)
    <2>1. filterBackendsByTierState(r) \subseteq Backends
      BY <1>0, FiltersShrink DEF Threads
    <2>2. Keep(r, "capacity", filterBackendsByTierState(r)) /\ UNCHANGED <<world, node, snap, known>>
      BY <1>3 DEF FilterTier, truth, caches
    <2>3. "capacity" \in PCs \ Holding
      BY DEF PCs, Holding
    <2> QED BY <2>1, <2>2, <2>3, KeepFacts DEF RequestStep
  <1>4. CASE FilterCapacity(r)
    <2> DEFINE S == filterBackendsByLiveCapacity(r)
               cap == [b \in Backends |-> IF b \notin S THEN 0
                                          ELSE IF world.live THEN EffectiveMaxRunners(b)
                                          ELSE world.max[b]]
               v == [thr[r] EXCEPT !.pc = "reserve", !.S = S, !.cap = cap]
    <2>0. UNCHANGED <<world, node, snap, known>>
      BY <1>4 DEF FilterCapacity, truth, caches
    <2>1. CASE S = {}
      BY <1>4, <2>0, <2>1, IdleFacts DEF FilterCapacity, RequestStep
    <2>2. CASE S # {}
      <3>1. thr' = [thr EXCEPT ![r] = v]
        BY <1>4, <2>2 DEF FilterCapacity
      <3>2. \A b \in Backends : cap[b] \in Nat /\ cap[b] <= world.max[b]
        <4> TAKE b \in Backends
        <4>1. EffectiveMaxRunners(b) \in Nat /\ EffectiveMaxRunners(b) <= world.max[b]
          BY EffectiveFacts
        <4>2. world.max[b] \in Nat
          BY WorldFacts
        <4> QED BY <4>1, <4>2
      <3>3. cap \in [Backends -> Nat]
        BY <3>2
      <3>4. S \subseteq Backends
        BY <1>0, FiltersShrink DEF Threads
      <3> HIDE DEF cap, S
      <3>5. v \in Threads /\ v.pc = "reserve" /\ v.cap = cap
        BY <1>0, <3>3, <3>4 DEF Threads, PCs
      <3> QED BY <2>0, <3>1, <3>2, <3>5 DEF RequestStep, Moves, Holding
    <2> QED BY <2>1, <2>2
  <1>5. CASE Reserve(r)
    <2>0. UNCHANGED <<world, node, snap, known>>
      BY <1>5 DEF Reserve, truth, caches
    <2>1. CASE thr' = [thr EXCEPT ![r] = Idle]
      BY <2>0, <2>1, IdleFacts DEF RequestStep
    <2>2. ASSUME NEW b \in Roomy(r), thr' = [thr EXCEPT ![r].pc = "provision", ![r].be = b]
          PROVE  RequestStep(r)
      <3> DEFINE v == [thr[r] EXCEPT !.pc = "provision", !.be = b]
      <3>1. b \in Backends /\ Active(b) < thr[r].cap[b]
        BY <1>0 DEF Roomy, Threads
      <3>2. thr' = [thr EXCEPT ![r] = v]
        BY <1>0, <2>2 DEF TypeInv
      <3>3. v \in Threads /\ v.be = b /\ v.cap = thr[r].cap
        BY <1>0, <3>1 DEF Threads, PCs
      <3> QED BY <1>1, <2>0, <3>1, <3>2, <3>3 DEF RequestStep, Moves
    <2> QED BY <1>5, <2>1, <2>2 DEF Reserve
  <1>6. CASE Provision(r)
    <2> DEFINE b == thr[r].be
    <2>0. UNCHANGED <<world, node, snap, known>> /\ thr[r].pc = "provision"
      BY <1>6 DEF Provision, truth, caches
    <2>1. CASE thr' = [thr EXCEPT ![r] = Idle]
      BY <2>0, <2>1, IdleFacts DEF RequestStep
    <2>2. CASE thr' = [thr EXCEPT ![r] = [Idle EXCEPT !.pc = "live", !.be = b]]
      <3> DEFINE v == [Idle EXCEPT !.pc = "live", !.be = b]
      <3>1. v \in Threads /\ v.be = b /\ v.cap = [c \in Backends |-> 0]
        BY <1>0 DEF Idle, Threads, PCs
      <3>2. \A c \in Backends : v.cap[c] <= world.max[c]
        BY <3>1, WorldFacts
      <3> QED BY <2>0, <2>2, <3>1, <3>2 DEF RequestStep, Moves, Holding
    <2>3. CASE thr' = [thr EXCEPT ![r] = [thr[r] EXCEPT !.pc = "reserve", !.S = thr[r].S \ {b}, !.be = None]]
      <3> DEFINE v == [thr[r] EXCEPT !.pc = "reserve", !.S = thr[r].S \ {b}, !.be = None]
      <3>1. v \in Threads /\ v.pc = "reserve" /\ v.cap = thr[r].cap
        BY <1>0 DEF Threads, PCs
      <3> QED BY <1>1, <2>0, <2>3, <3>1 DEF RequestStep, Moves, Holding
    <2>4. \/ thr' = [thr EXCEPT ![r] = Idle]
          \/ thr' = [thr EXCEPT ![r] = [Idle EXCEPT !.pc = "live", !.be = b]]
          \/ thr' = [thr EXCEPT ![r] = [thr[r] EXCEPT !.pc = "reserve", !.S = thr[r].S \ {b}, !.be = None]]
      <3>1. CASE node[b].up /\ FreeSlots(b) > 0
        BY <1>6, <3>1 DEF Provision
      <3>2. CASE ~(node[b].up /\ FreeSlots(b) > 0) /\ (Pin(r) # None \/ thr[r].S = {b})
        BY <1>6, <3>2 DEF Provision
      <3>3. CASE ~(node[b].up /\ FreeSlots(b) > 0) /\ ~(Pin(r) # None \/ thr[r].S = {b})
        BY <1>6, <3>3 DEF Provision
      <3> QED BY <3>1, <3>2, <3>3
    <2> QED BY <2>1, <2>2, <2>3, <2>4
  <1>7. CASE recordRegistrationSuccess(r)
    <2> DEFINE v == [thr[r] EXCEPT !.pc = "running"]
    <2>1. /\ UNCHANGED <<world, node, snap, known>> /\ thr[r].pc = "live"
          /\ thr' = [thr EXCEPT ![r] = v]
      BY <1>0, <1>7 DEF recordRegistrationSuccess, truth, TypeInv
    <2>2. v \in Threads /\ v.be = thr[r].be /\ v.cap = thr[r].cap
      BY <1>0 DEF Threads, PCs
    <2> QED BY <1>1, <2>1, <2>2 DEF RequestStep, Moves, Holding
  <1>8. CASE recordRegistrationExpiry(r)
    BY <1>8, IdleFacts DEF recordRegistrationExpiry, RequestStep
  <1>9. CASE Finish(r)
    <2> DEFINE v == [Idle EXCEPT !.pc = "done"]
    <2>1. UNCHANGED <<world, node, snap, known>> /\ thr' = [thr EXCEPT ![r] = v]
      BY <1>9 DEF Finish, truth, caches
    <2>2. v \in Threads /\ v.pc = "done" /\ v.cap = [c \in Backends |-> 0]
      BY DEF Idle, Threads, PCs
    <2>3. \A c \in Backends : v.cap[c] <= world.max[c]
      BY <2>2, WorldFacts
    <2> QED BY <2>1, <2>2, <2>3 DEF RequestStep, Moves, Holding
  <1> QED BY <1>2, <1>3, <1>4, <1>5, <1>6, <1>7, <1>8, <1>9 DEF Step

\* A move keeps the count of every backend within its limit.
LEMMA MoveKeepsLimits ==
    ASSUME TypeInv, LimitInv, NEW r \in Live, RequestStep(r)
    PROVE  TypeInv' /\ LimitInv'
  <1>1. PICK v \in Threads : Moves(r, v)
    BY DEF RequestStep
  <1>2. UNCHANGED <<world, node, snap, known>> /\ r \in Requests
    BY WorldFacts DEF RequestStep
  <1>3. thr' = [thr EXCEPT ![r] = v] /\ thr' \in [Requests -> Threads] /\ thr'[r] = v
    BY <1>1, <1>2 DEF Moves, TypeInv
  <1>4. TypeInv'
    BY <1>2, <1>3 DEF TypeInv
  <1>5. \A q \in Requests, b \in Backends : thr'[q].cap[b] <= world'.max[b]
    BY <1>1, <1>2, <1>3 DEF Moves, LimitInv, TypeInv
  <1>6. ASSUME NEW b \in Backends PROVE Active(b)' <= world'.max[b]
    <2>1. /\ Active(b) = Cardinality(Holders(b)) /\ IsFiniteSet(Holders(b)) /\ Active(b) \in Nat
      BY ActiveFacts
    <2>2. /\ Active(b)' = Cardinality(Holders(b)')
      BY DEF Active, Holders
    <2>3. Live' = Live
      BY <1>2 DEF Live
    <2>4. Holders(b)' \subseteq Holders(b) \cup {r}
      BY <1>3, <2>3, WorldFacts DEF Holders, TypeInv
    <2>5. world.max[b] \in Nat /\ thr[r].cap[b] \in Nat /\ thr[r].cap[b] <= world.max[b]
      BY <1>2, WorldFacts DEF LimitInv, TypeInv, Threads
    <2>6. CASE v.be = b /\ Active(b) < thr[r].cap[b]
      <3>1. /\ IsFiniteSet(Holders(b) \cup {r})
            /\ Cardinality(Holders(b) \cup {r}) <= Active(b) + 1
            /\ Cardinality(Holders(b) \cup {r}) \in Nat
        <4>1. /\ IsFiniteSet(Holders(b) \cup {r})
              /\ r \in Holders(b) => Holders(b) \cup {r} = Holders(b)
              /\ r \notin Holders(b) =>
                   Cardinality(Holders(b) \cup {r}) = Cardinality(Holders(b)) + 1
          BY <2>1, FS_AddElement
        <4> QED BY <2>1, <4>1
      <3>2. Cardinality(Holders(b)') <= Cardinality(Holders(b) \cup {r}) /\ IsFiniteSet(Holders(b)')
        BY <2>4, <3>1, FS_Subset
      <3>3. Cardinality(Holders(b)') \in Nat
        BY <3>2, FS_CardinalityType
      <3> QED BY <1>2, <2>1, <2>2, <2>5, <2>6, <3>1, <3>2, <3>3
    <2>7. CASE ~(v.be = b /\ Active(b) < thr[r].cap[b])
      <3>1. Holders(b)' \subseteq Holders(b)
        BY <1>1, <1>3, <2>3, <2>4, <2>7 DEF Holders, Moves, Holding
      <3>2. Cardinality(Holders(b)') <= Cardinality(Holders(b)) /\ IsFiniteSet(Holders(b)')
        BY <2>1, <3>1, FS_Subset
      <3>3. Cardinality(Holders(b)') \in Nat /\ Active(b) <= world.max[b]
        BY <3>2, FS_CardinalityType DEF LimitInv
      <3> QED BY <1>2, <2>1, <2>2, <2>5, <3>2, <3>3
    <2> QED BY <2>6, <2>7
  <1> QED BY <1>4, <1>5, <1>6 DEF LimitInv

\* A step of the caches or of the world touches no request.
LEMMA BackgroundKeeps ==
    ASSUME TypeInv, LimitInv, UNCHANGED <<world, thr>>
    PROVE  LimitInv'
  <1>1. \A b \in Backends : Active(b)' = Active(b)
    BY DEF Active, Live
  <1> QED BY <1>1 DEF LimitInv

\* A reading, good or failed, keeps what the cache knows of a node.
LEMMA ReadingKeeps ==
    ASSUME TypeInv, KnownInv, NEW b \in Backends,
           RefreshCapacity(b) \/ RefreshCapacityFails(b) \/ CapacityMarkStale(b)
    PROVE  TypeInv' /\ KnownInv' /\ UNCHANGED <<world, thr>>
  <1>0. None \notin Snapshots /\ known[b] \in [down : BOOLEAN, fails : Nat]
        /\ snap[b] \in Snapshots \cup {None} /\ node[b].up \in BOOLEAN
    BY WorldFacts DEF TypeInv
  <1>1. CASE RefreshCapacity(b)
    <2> DEFINE s == [status |-> Capacity(b), err |-> FALSE, stale |-> FALSE]
               k == [down |-> ~node[b].up, fails |-> 0]
    <2>1. /\ snap' = [snap EXCEPT ![b] = s] /\ known' = [known EXCEPT ![b] = k]
          /\ UNCHANGED <<world, node, thr>>
      BY <1>1 DEF RefreshCapacity, truth
    <2>2. s \in Snapshots /\ s.err = FALSE /\ s.status.down = ~node[b].up
      BY CapacityType DEF Snapshots, Capacity
    <2>3. k \in [down : BOOLEAN, fails : Nat] /\ k.down = ~node[b].up
      OBVIOUS
    <2> HIDE DEF s, k
    <2>4. TypeInv'
      BY <2>1, <2>2, <2>3 DEF TypeInv
    <2>5. ASSUME NEW c \in Backends, known'[c].down, known'[c].fails <= 1
          PROVE  /\ snap'[c] # None /\ snap'[c].status.down
                 /\ known'[c].fails = 0 => ~snap'[c].err
      BY <1>0, <2>1, <2>2, <2>3, <2>5 DEF TypeInv, KnownInv
    <2> QED BY <2>1, <2>4, <2>5 DEF KnownInv
  <1>2. CASE RefreshCapacityFails(b)
    <2> DEFINE s == [status |-> IF snap[b] # None /\ ~snap[b].err THEN snap[b].status ELSE NoStatus,
                     err |-> TRUE, stale |-> FALSE]
               n == IF known[b].fails < 2 THEN known[b].fails + 1 ELSE known[b].fails
               k == [known[b] EXCEPT !.fails = n]
    <2>1. /\ snap' = [snap EXCEPT ![b] = s] /\ known' = [known EXCEPT ![b] = k]
          /\ UNCHANGED <<world, node, thr>>
      BY <1>2 DEF RefreshCapacityFails, Noted, TypeInv
    <2>2. s \in Snapshots
      BY <1>0 DEF Snapshots, NoStatus
    <2>3. k \in [down : BOOLEAN, fails : Nat] /\ k.down = known[b].down /\ k.fails = n
      BY <1>0
    <2>4. k.down /\ k.fails <= 1 => s.status.down /\ k.fails # 0
      BY <1>0, <2>3 DEF KnownInv
    <2> HIDE DEF s, k, n
    <2>5. TypeInv'
      BY <2>1, <2>2, <2>3 DEF TypeInv
    <2>6. ASSUME NEW c \in Backends, known'[c].down, known'[c].fails <= 1
          PROVE  /\ snap'[c] # None /\ snap'[c].status.down
                 /\ known'[c].fails = 0 => ~snap'[c].err
      BY <1>0, <2>1, <2>2, <2>3, <2>4, <2>6 DEF TypeInv, KnownInv
    <2> QED BY <2>1, <2>5, <2>6 DEF KnownInv
  <1>3. CASE CapacityMarkStale(b)
    <2> DEFINE s == [snap[b] EXCEPT !.stale = TRUE]
    <2>1. /\ snap' = [snap EXCEPT ![b] = s] /\ UNCHANGED <<world, node, thr, known>>
          /\ snap[b] \in Snapshots
      BY <1>0, <1>3 DEF CapacityMarkStale, TypeInv
    <2>2. s \in Snapshots /\ s.err = snap[b].err /\ s.status = snap[b].status
      BY <2>1 DEF Snapshots
    <2> HIDE DEF s
    <2>3. TypeInv'
      BY <2>1, <2>2 DEF TypeInv
    <2>4. ASSUME NEW c \in Backends, known'[c].down, known'[c].fails <= 1
          PROVE  /\ snap'[c] # None /\ snap'[c].status.down
                 /\ known'[c].fails = 0 => ~snap'[c].err
      BY <1>0, <2>1, <2>2, <2>4 DEF TypeInv, KnownInv
    <2> QED BY <2>1, <2>3, <2>4 DEF KnownInv
  <1> QED BY <1>1, <1>2, <1>3

Inv == TypeInv /\ KnownInv /\ LimitInv

\* Initially nothing is cached, carried or held.
LEMMA InitInv == Init => Inv
  <1> SUFFICES ASSUME Init PROVE Inv
    OBVIOUS
  <1>1. Idle \in Threads /\ Idle.cap = [b \in Backends |-> 0] /\ Idle.pc = "waiting"
    BY DEF Idle, Threads, PCs
  <1>2. thr = [r \in Requests |-> Idle] /\ known = [b \in Backends |-> [down |-> FALSE, fails |-> 0]]
    BY DEF Init
  <1>3. TypeInv
    BY <1>1, <1>2 DEF Init, TypeInv
  <1>4. KnownInv
    BY <1>2 DEF KnownInv
  <1>5. \A r \in Requests, b \in Backends : thr[r].cap[b] <= world.max[b]
    BY <1>1, <1>2, <1>3, WorldFacts
  <1>6. ASSUME NEW b \in Backends PROVE Active(b) <= world.max[b]
    <2>1. Holders(b) = {}
      BY <1>1, <1>2, <1>3, WorldFacts DEF Holders
    <2> QED BY <1>3, <2>1, ActiveFacts, FS_EmptySet, WorldFacts
  <1> QED BY <1>3, <1>4, <1>5, <1>6 DEF Inv, LimitInv

\* Every step keeps the invariant.
LEMMA StepInv == Inv /\ [Next]_vars => Inv'
  <1> SUFFICES ASSUME Inv, [Next]_vars PROVE Inv'
    OBVIOUS
  <1> USE DEF Inv
  <1>1. ASSUME NEW r \in Live, Step(r) \/ recordRegistrationExpiry(r) PROVE Inv'
    <2>1. RequestStep(r)
      BY <1>1, RequestSteps
    <2>2. TypeInv' /\ LimitInv'
      BY <2>1, MoveKeepsLimits
    <2>3. KnownInv'
      BY <2>1 DEF RequestStep, KnownInv
    <2> QED BY <2>2, <2>3
  <1>2. ASSUME NEW b \in Backends,
               RefreshCapacity(b) \/ RefreshCapacityFails(b) \/ CapacityMarkStale(b)
        PROVE  Inv'
    BY <1>2, ReadingKeeps, BackgroundKeeps
  <1>3. ASSUME UNCHANGED <<world, node, snap, known, thr>> PROVE Inv'
    BY <1>3, BackgroundKeeps DEF TypeInv, KnownInv
  <1>4. ASSUME NEW b \in Backends, TierMarkStale(b) \/ CooldownPasses(b) PROVE Inv'
    BY <1>3, <1>4 DEF TierMarkStale, CooldownPasses, truth
  <1>5. ASSUME NEW b \in Backends, NodeChanges(b) PROVE Inv'
    <2>1. PICK up \in BOOLEAN, others \in {0, world.provider[b]} :
            node' = [node EXCEPT ![b] = [up |-> up, others |-> others]]
      BY <1>5 DEF NodeChanges
    <2>2. others \in Nat
      BY <2>1, WorldFacts
    <2>3. UNCHANGED <<world, snap, known, thr>>
      BY <1>5 DEF NodeChanges, caches
    <2>4. node' \in [Backends -> [up : BOOLEAN, others : Nat]]
      BY <2>1, <2>2 DEF TypeInv
    <2>5. TypeInv' /\ KnownInv'
      BY <2>3, <2>4 DEF TypeInv, KnownInv
    <2> QED BY <2>3, <2>5, BackgroundKeeps
  <1>6. CASE RefreshTiers
    BY <1>3, <1>6 DEF RefreshTiers, truth
  <1>7. ASSUME NEW s \in Sources, LevelChanges(s) PROVE Inv'
    BY <1>3, <1>7 DEF LevelChanges, caches
  <1>8. CASE UNCHANGED vars
    BY <1>3, <1>8 DEF vars
  <1> QED BY <1>1, <1>2, <1>4, <1>5, <1>6, <1>7, <1>8 DEF Next

LEMMA AlwaysInv == Spec => []Inv
  BY InitInv, StepInv, PTL DEF Spec

-----------------------------------------------------------------------------
(* The theorems.                                                            *)

\* For any providers, policies and failures, the slots given out on a backend
\* never exceed its maxRunners, although the limit a request compares with was
\* computed before, from a reading that may be old, failed or missing
\* (filterBackendsByLiveCapacity, EffectiveMaxRunners and the reservation).
THEOREM OldReadingsStayWithinMax == Spec => [](\A b \in Backends : Active(b) <= world.max[b])
  <1>1. Inv => \A b \in Backends : Active(b) <= world.max[b]
    BY DEF Inv, LimitInv
  <1> QED BY <1>1, AlwaysInv, PTL

\* A node whose last reading was "down" gets no request, also under pass-through
\* and after a failed poll (EffectiveMaxRunners, capacity.Refresh).
THEOREM KnownDownIsSpared == Spec => KnownDownNodeSpared
  <1>1. Inv /\ [Next]_vars =>
          [\A r \in Live : FilterCapacity(r) /\ world.live =>
             \A b \in thr'[r].S : ~(known[b].down /\ known[b].fails <= 1)]_vars
    <2> SUFFICES ASSUME Inv, NEW r \in Live, FilterCapacity(r), world.live, NEW b \in thr'[r].S
                 PROVE  ~(known[b].down /\ known[b].fails <= 1)
      OBVIOUS
    <2> USE DEF Inv
    <2> DEFINE S == filterBackendsByLiveCapacity(r)
    <2>0. r \in Requests /\ thr[r] \in Threads
      BY WorldFacts DEF TypeInv
    <2>1. thr'[r].S \subseteq S
      <3>1. CASE S = {}
        <4>1. thr'[r] = Idle
          BY <2>0, <3>1 DEF FilterCapacity, TypeInv
        <4> QED BY <4>1 DEF Idle
      <3>2. CASE S # {}
        <4>1. PICK cap : thr'[r] = [thr[r] EXCEPT !.pc = "reserve", !.S = S, !.cap = cap]
          BY <2>0, <3>2 DEF FilterCapacity, TypeInv
        <4> QED BY <2>0, <4>1 DEF Threads
      <3> QED BY <3>1, <3>2
    <2>2. b \in Backends /\ EffectiveMaxRunners(b) > 0
      BY <2>0, <2>1 DEF filterBackendsByLiveCapacity, Threads
    <2>3. ~(snap[b] # None /\ snap[b].status.down)
      BY <2>2, EffectiveFacts
    <2> QED BY <2>2, <2>3 DEF KnownInv
  <1> QED BY <1>1, AlwaysInv, PTL DEF Spec, KnownDownNodeSpared

\* Whatever mixture of missing, stale and failed tier and capacity data there
\* is, an unpinned request goes to a less preferred backend only when no
\* preferred one has a slot, and to a blocked one only when all are blocked
\* (filterBackendsByTierState, tierEligibleBackends).
THEOREM PreferenceIsKept == Spec => BestTierFirst
  <1>1. Inv /\ [Next]_vars =>
          [\A r \in Live : FilterTier(r) /\ world.tiers /\ Pin(r) = None =>
             \A b \in thr'[r].S, c \in thr[r].S :
                 /\ backendHasFreeSchedulerCapacity(c) => Preference(b) <= Preference(c)
                 /\ Preference(b) = 2 => Preference(c) = 2]_vars
    <2> SUFFICES ASSUME Inv, NEW r \in Live, FilterTier(r), world.tiers, Pin(r) = None,
                        NEW b \in thr'[r].S, NEW c \in thr[r].S
                 PROVE  /\ backendHasFreeSchedulerCapacity(c) => Preference(b) <= Preference(c)
                        /\ Preference(b) = 2 => Preference(c) = 2
      OBVIOUS
    <2> USE DEF Inv
    <2> DEFINE S == thr[r].S
               F == filterBackendsByTierState(r)
    <2>0. r \in Requests /\ thr[r] \in Threads
      BY WorldFacts DEF TypeInv
    <2>1. b \in F
      <3>1. CASE F = {}
        <4>1. thr'[r] = Idle
          BY <2>0, <3>1 DEF FilterTier, Keep, TypeInv
        <4> QED BY <4>1 DEF Idle
      <3>2. CASE F # {}
        <4>1. thr'[r] = [thr[r] EXCEPT !.pc = "capacity", !.S = F]
          BY <2>0, <3>2 DEF FilterTier, Keep, TypeInv
        <4> QED BY <2>0, <4>1 DEF Threads
      <3> QED BY <3>1, <3>2
    <2>2. \A d \in Backends :
            /\ tierDecisionAllowsBackendNormally(Decision(d)) => ~tierDecisionIsDeprioritized(Decision(d))
      BY DEF tierDecisionAllowsBackendNormally, tierDecisionIsDeprioritized, Uncertain
    <2>3. \A d \in S :
            /\ Preference(d) \in 0 .. 2
            /\ Preference(d) = 0 <=> tierDecisionAllowsBackendNormally(Decision(d))
            /\ Preference(d) = 1 <=> /\ ~tierDecisionAllowsBackendNormally(Decision(d))
                                     /\ tierDecisionIsDeprioritized(Decision(d))
      BY <2>0, <2>2 DEF Preference, Threads
    <2>4. F = IF TierEligible(S) # {} THEN TierEligible(S)
              ELSE IF TierDeprioritized(S) # {} THEN TierDeprioritized(S)
              ELSE IF TierBlocked(S) # S THEN {}
              ELSE AllBlocked(S)
      BY DEF filterBackendsByTierState
    <2>5. b \in S
      BY <2>1, FiltersShrink
    <2> HIDE DEF S, F
    <2>c. c \in S
      BY DEF S
    <2>6. CASE TierEligible(S) # {}
      BY <2>1, <2>3, <2>4, <2>5, <2>6, <2>c DEF TierEligible
    <2>7. CASE TierEligible(S) = {} /\ TierDeprioritized(S) # {}
      <3>1. b \in TierDeprioritized(S)
        BY <2>1, <2>4, <2>7
      <3>2. Preference(b) = 1
        BY <2>3, <3>1 DEF TierDeprioritized
      <3>3. backendHasFreeSchedulerCapacity(c) => Preference(c) # 0
        BY <2>3, <2>7, <2>c DEF TierEligible
      <3> QED BY <2>3, <2>c, <3>2, <3>3
    <2>8. CASE TierEligible(S) = {} /\ TierDeprioritized(S) = {} /\ TierBlocked(S) = S
      BY <2>3, <2>5, <2>8, <2>c DEF TierBlocked
    <2> QED BY <2>1, <2>4, <2>6, <2>7, <2>8
  <1> QED BY <1>1, AlwaysInv, PTL DEF Spec, BestTierFirst

=============================================================================
