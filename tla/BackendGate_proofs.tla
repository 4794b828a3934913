------------------------- MODULE BackendGate_proofs -------------------------
(***************************************************************************)
(* What the gates of a fair-share pool promise, proved for every set of     *)
(* pools, backends, lanes, tenants and requests and every configuration     *)
(* GateAssumption describes: slots are counted exactly, the stored runners  *)
(* stay within maxRunners, the cross-pool limits, the tenant quotas and     *)
(* their lanes, a budget is overshot by fewer launches than there are       *)
(* requests, and a circuit keeps no permit outside half-open.               *)
(*                                                                         *)
(* The argument.  Every step of a request rewrites one thread and one       *)
(* record and keeps, takes or gives back one slot (RequestStep); a slot is  *)
(* taken below maxRunners and a record is accounted for only by the check   *)
(* of the store (AsksStore).  That is enough for the counts.  Two limits    *)
(* need more, because SaveIfCapacity reads 0 as no limit: maxRunners        *)
(* follows from the scheduler's own count (WithinMax), since what has a     *)
(* record has a slot, and a lane with no room is kept out at the            *)
(* reservation (LaneInv).  That lanes nest needs sums over sets of lanes:   *)
(* TotalSplit and TotalMonotone.  The budget is a count of its own          *)
(* (BudgetInv): launches made are at most those charged and those that wait *)
(* for their charge, and nobody is both on the way and waiting.  PermitInv  *)
(* is inductive as it stands.                                               *)
(***************************************************************************)
EXTENDS BackendGate, FiniteSetTheorems, WellFoundedInduction, TLAPS

-----------------------------------------------------------------------------
(* Sums over finite sets.  MapThenSumSet is a recursive function that takes *)
(* the elements in the order of CHOOSE; induction is a smallest             *)
(* counterexample, of WFMin and the order of the finite subsets.            *)

Total(f, S) == MapThenSumSet(LAMBDA x : f[x], S)
First(s) == CHOOSE x \in s : TRUE

\* g adds up f over the subsets of S.
Adds(f, S, g) ==
    g = [s \in SUBSET S |-> IF s = {} THEN 0 ELSE f[First(s)] + g[s \ {First(s)}]]

\* Of a set of finite sets that is not empty, some element has no smaller one.
LEMMA SmallestSet ==
    ASSUME NEW U, IsFiniteSet(U), NEW T \in SUBSET SUBSET U, T # {}
    PROVE  \E s \in T : \A r \in T : r \subseteq s => r = s
  <1>1. IsWellFoundedOn(StrictSubsetOrdering(U), FiniteSubsetsOf(U))
    BY FS_StrictSubsetOrderingWellFounded
  <1>2. T \subseteq FiniteSubsetsOf(U)
    BY FS_FiniteSubsetsOfFinite
  <1>3. PICK s \in T : \A r \in T : ~(<<r, s>> \in StrictSubsetOrdering(U))
    BY <1>1, <1>2, WFMin
  <1>4. \A r \in T : r \subseteq s => r = s
    BY <1>3 DEF StrictSubsetOrdering
  <1> QED BY <1>3, <1>4

\* Two such functions agree where both are defined.
LEMMA AddsAgree ==
    ASSUME NEW f, NEW S1, NEW S2, NEW g1, NEW g2, Adds(f, S1, g1), Adds(f, S2, g2),
           IsFiniteSet(S1), NEW S \in SUBSET S1, S \subseteq S2
    PROVE  g1[S] = g2[S]
  <1> DEFINE T == {s \in SUBSET S1 : s \subseteq S2 /\ g1[s] # g2[s]}
  <1> SUFFICES ASSUME g1[S] # g2[S] PROVE FALSE
    OBVIOUS
  <1>0. S \in T
    OBVIOUS
  <1>1. T # {} /\ T \in SUBSET SUBSET S1
    BY <1>0
  <1> HIDE DEF T
  <1>2. PICK s \in T : \A r \in T : r \subseteq s => r = s
    BY <1>1, SmallestSet
  <1> USE DEF T
  <1>3. CASE s = {}
    BY <1>2, <1>3 DEF Adds
  <1>4. CASE s # {}
    <2>1. First(s) \in s
      BY <1>4 DEF First
    <2> DEFINE r == s \ {First(s)}
    <2>2. r \subseteq s /\ r # s /\ r \in SUBSET S1 /\ r \subseteq S2
      BY <2>1, <1>2
    <2>3. g1[r] = g2[r]
      BY <2>2, <1>2
    <2>4. g1[s] = f[First(s)] + g1[r] /\ g2[s] = f[First(s)] + g2[r]
      BY <1>2, <1>4 DEF Adds
    <2> QED BY <2>3, <2>4, <1>2
  <1> QED BY <1>3, <1>4

\* MapThenSumSet is the value of such a function, if there is one.
LEMMA TotalIsAdds ==
    ASSUME NEW f, NEW S
    PROVE  Total(f, S) = (CHOOSE g : Adds(f, S, g))[S]
  BY DEF Total, MapThenSumSet, MapThenFoldSet, Adds, First

\* There is one for every finite set.
LEMMA AddsExists ==
    ASSUME NEW f, NEW S, IsFiniteSet(S)
    PROVE  \E g : Adds(f, S, g)
  <1> DEFINE T == {s \in SUBSET S : ~ \E g : Adds(f, s, g)}
  <1> SUFFICES ASSUME ~ \E g : Adds(f, S, g) PROVE FALSE
    OBVIOUS
  <1>0. S \in T
    OBVIOUS
  <1>1. T # {} /\ T \in SUBSET SUBSET S
    BY <1>0
  <1> HIDE DEF T
  <1>2. PICK s \in T : \A r \in T : r \subseteq s => r = s
    BY <1>1, SmallestSet
  <1> USE DEF T
  <1> DEFINE V(r) == (CHOOSE g : Adds(f, r, g))[r]
             A == First(s)
             G == [r \in SUBSET s |->
                     IF r = {} THEN 0 ELSE f[First(r)] + V(r \ {First(r)})]
  <1>3. \A r \in SUBSET s : r # s => Adds(f, r, CHOOSE g : Adds(f, r, g))
    BY <1>2
  <1>4. \A r \in SUBSET s : r # s => V(r) = G[r]
    <2> SUFFICES ASSUME NEW r \in SUBSET s, r # s PROVE V(r) = G[r]
      OBVIOUS
    <2>1. CASE r = {}
      <3> DEFINE g1 == CHOOSE g : Adds(f, r, g)
      <3>1. Adds(f, r, g1)
        BY <1>3
      <3>2. V(r) = g1[r] /\ G[r] = 0
        BY <2>1
      <3> HIDE DEF g1, V, G
      <3>3. g1[r] = 0
        BY <2>1, <3>1 DEF Adds
      <3> QED BY <3>2, <3>3
    <2>2. CASE r # {}
      <3>1. First(r) \in r
        BY <2>2 DEF First
      <3> DEFINE q == r \ {First(r)}
                 g1 == CHOOSE g : Adds(f, r, g)
                 g2 == CHOOSE g : Adds(f, q, g)
      <3>2. Adds(f, r, g1) /\ Adds(f, q, g2)
        BY <1>3, <3>1
      <3>3. IsFiniteSet(r)
        BY <1>2, FS_Subset
      <3>4. q \in SUBSET r /\ q \subseteq q
        OBVIOUS
      <3> HIDE DEF g1, g2
      <3>5. g1[q] = g2[q]
        BY <3>2, <3>3, <3>4, AddsAgree
      <3>6. g1[r] = f[First(r)] + g1[q]
        BY <3>2, <2>2 DEF Adds
      <3>7. G[r] = f[First(r)] + g2[q]
        BY <2>2 DEF g2
      <3>8. V(r) = g1[r]
        BY DEF g1
      <3> QED BY <3>5, <3>6, <3>7, <3>8
    <2> QED BY <2>1, <2>2
  <1>5. Adds(f, s, G)
    <2>1. ASSUME NEW r \in SUBSET s, r # {}
          PROVE  V(r \ {First(r)}) = G[r \ {First(r)}]
      <3>1. First(r) \in r
        BY <2>1 DEF First
      <3>2. r \ {First(r)} \in SUBSET s /\ r \ {First(r)} # s
        BY <3>1, <2>1
      <3> HIDE DEF G, V
      <3> QED BY <3>2, <1>4
    <2>2. G = [r \in SUBSET s |->
                 IF r = {} THEN 0 ELSE f[First(r)] + V(r \ {First(r)})]
      OBVIOUS
    <2> HIDE DEF G, V
    <2> QED BY <2>1, <2>2 DEF Adds
  <1> QED BY <1>2, <1>5

\* What a recursive definition of the sum would say.
LEMMA TotalStep ==
    ASSUME NEW f, NEW S, IsFiniteSet(S)
    PROVE  /\ S = {} => Total(f, S) = 0
           /\ S # {} => Total(f, S) = f[First(S)] + Total(f, S \ {First(S)})
  <1> DEFINE g1 == CHOOSE g : Adds(f, S, g)
             R == S \ {First(S)}
             g2 == CHOOSE g : Adds(f, R, g)
  <1>1. IsFiniteSet(R)
    BY FS_Subset
  <1>2. Adds(f, S, g1) /\ Adds(f, R, g2)
    BY <1>1, AddsExists
  <1>3. Total(f, S) = g1[S] /\ Total(f, R) = g2[R]
    BY TotalIsAdds
  <1> HIDE DEF g1, g2
  <1>4. g1[R] = g2[R]
    BY <1>1, <1>2, AddsAgree
  <1>5. S = {} => g1[S] = 0
    BY <1>2 DEF Adds
  <1>6. S # {} => g1[S] = f[First(S)] + g1[R]
    BY <1>2 DEF Adds
  <1> QED BY <1>3, <1>4, <1>5, <1>6

\* A sum of naturals is a natural.
LEMMA TotalType ==
    ASSUME NEW S, IsFiniteSet(S), NEW f, \A x \in S : f[x] \in Nat
    PROVE  Total(f, S) \in Nat
  <1> DEFINE T == {s \in SUBSET S : Total(f, s) \notin Nat}
  <1> SUFFICES ASSUME Total(f, S) \notin Nat PROVE FALSE
    OBVIOUS
  <1>0. S \in T
    OBVIOUS
  <1>1. T # {} /\ T \in SUBSET SUBSET S
    BY <1>0
  <1> HIDE DEF T
  <1>2. PICK s \in T : \A r \in T : r \subseteq s => r = s
    BY <1>1, SmallestSet
  <1> USE DEF T
  <1>3. IsFiniteSet(s)
    BY FS_Subset
  <1>4. s = {} => Total(f, s) = 0
    BY <1>3, TotalStep
  <1>5. s # {}
    BY <1>2, <1>4
  <1>6. First(s) \in s
    BY <1>5 DEF First
  <1> DEFINE r == s \ {First(s)}
  <1>7. r \in SUBSET S /\ r \subseteq s /\ r # s
    BY <1>6
  <1> HIDE DEF r
  <1>8. Total(f, r) \in Nat
    BY <1>2, <1>7
  <1>9. Total(f, s \ {First(s)}) \in Nat
    BY <1>8 DEF r
  <1>10. Total(f, s) = f[First(s)] + Total(f, s \ {First(s)})
    BY <1>3, <1>5, TotalStep
  <1> QED BY <1>6, <1>9, <1>10

\* The order of the summands does not matter.
LEMMA TotalSplit ==
    ASSUME NEW S, IsFiniteSet(S), NEW f, \A x \in S : f[x] \in Nat, NEW a \in S
    PROVE  Total(f, S) = f[a] + Total(f, S \ {a})
  <1> DEFINE Bad(s) == \E x \in s : Total(f, s) # f[x] + Total(f, s \ {x})
             T == {s \in SUBSET S : Bad(s)}
  <1> SUFFICES ASSUME Total(f, S) # f[a] + Total(f, S \ {a}) PROVE FALSE
    OBVIOUS
  <1>0. S \in T
    OBVIOUS
  <1>1. T # {} /\ T \in SUBSET SUBSET S
    BY <1>0
  <1> HIDE DEF T
  <1>2. PICK s \in T : \A r \in T : r \subseteq s => r = s
    BY <1>1, SmallestSet
  <1> USE DEF T
  <1>3. PICK x \in s : Total(f, s) # f[x] + Total(f, s \ {x})
    BY <1>2
  <1>4. IsFiniteSet(s) /\ s # {}
    BY FS_Subset
  <1> DEFINE p == First(s)
             q == (s \ {p}) \ {x}
  <1>5. p \in s
    BY <1>4 DEF First
  <1>6. Total(f, s) = f[p] + Total(f, s \ {p})
    BY <1>4, TotalStep
  <1> HIDE DEF p
  <1>7. x # p
    BY <1>3, <1>6
  <1>8. ASSUME NEW r \in SUBSET s, r # s, NEW y \in r
        PROVE  Total(f, r) = f[y] + Total(f, r \ {y})
    BY <1>2, <1>8
  <1>9. Total(f, s \ {p}) = f[x] + Total(f, q)
    BY <1>5, <1>7, <1>8
  <1>10. Total(f, s \ {x}) = f[p] + Total(f, (s \ {x}) \ {p})
    BY <1>5, <1>7, <1>8
  <1>11. (s \ {x}) \ {p} = q
    OBVIOUS
  <1>12. f[x] \in Nat /\ f[p] \in Nat
    BY <1>5
  <1>13. IsFiniteSet(q) /\ \A y \in q : f[y] \in Nat
    BY <1>4, FS_Subset
  <1>14. Total(f, q) \in Nat
    BY <1>13, TotalType
  <1> HIDE DEF q
  <1> QED BY <1>3, <1>6, <1>9, <1>10, <1>11, <1>12, <1>14

\* A part sums up to no more than the whole.
LEMMA TotalMonotone ==
    ASSUME NEW S, IsFiniteSet(S), NEW f, \A x \in S : f[x] \in Nat, NEW R \in SUBSET S
    PROVE  Total(f, R) <= Total(f, S)
  <1> DEFINE T == {s \in SUBSET S : R \subseteq s /\ ~(Total(f, R) <= Total(f, s))}
  <1> SUFFICES ASSUME ~(Total(f, R) <= Total(f, S)) PROVE FALSE
    OBVIOUS
  <1>0. S \in T
    OBVIOUS
  <1>1. T # {} /\ T \in SUBSET SUBSET S
    BY <1>0
  <1> HIDE DEF T
  <1>2. PICK s \in T : \A r \in T : r \subseteq s => r = s
    BY <1>1, SmallestSet
  <1> USE DEF T
  <1>3. IsFiniteSet(s) /\ IsFiniteSet(R)
    BY FS_Subset
  <1>4. Total(f, R) \in Nat /\ Total(f, s) \in Nat
    BY <1>3, TotalType
  <1>5. R # s
    BY <1>2, <1>4
  <1>6. PICK x \in s : x \notin R
    BY <1>5
  <1>7. Total(f, R) <= Total(f, s \ {x})
    BY <1>2, <1>6
  <1>8. Total(f, s) = f[x] + Total(f, s \ {x})
    BY <1>3, TotalSplit
  <1>9. IsFiniteSet(s \ {x})
    BY <1>3, FS_Subset
  <1>10. Total(f, s \ {x}) \in Nat
    BY <1>9, TotalType
  <1> QED BY <1>2, <1>4, <1>7, <1>8, <1>10

-----------------------------------------------------------------------------
(* The invariant.                                                           *)

Threads == [pc : PCs, S : SUBSET Backends, pin : Backends \cup {None},
            be : Backends \cup {None}]
RecStates == {"none", "reserved", "ready", "canceled"}

\* What the store may know of a request whose thread is at v.
Fits(v, s) ==
    /\ v.pc \in {"idle", "reserve", "admit", "save"} => s = "none"
    /\ v.pc \in {"provision", "commit"} => s \in {"reserved", "canceled"}
    /\ v.pc \in {"record", "live"} => s = "ready"
    /\ v.pc \notin {"idle", "reserve"} => v.be \in Backends

TypeInv ==
    /\ world \in Worlds
    /\ thr \in [Requests -> Threads]
    /\ rec \in [Requests -> RecStates]
    /\ active \in [Pools -> [Backends -> Nat]]
    /\ \A r \in Requests : Fits(thr[r], rec[r])

\* A thread at v with record s has a slot.
Slotted(v, s) == v.pc \in {"admit", "save"} \/ s \in {"reserved", "ready"}

\* The scheduler admits no more than the pool's own limit.
WithinMax == \A p \in Pools, b \in Backends : active[p][b] <= world.max[b]

\* Without the starvation timer, nobody gets a slot the higher lanes hold.
LaneInv ==
    \A r \in Live : world.after = 0 /\ thr[r].pc \in {"admit", "save"}
                      => EffectiveMaxRunners(thr[r].be, Class(r)) > 0

Inv == TypeInv /\ HeldMatchesActive /\ WithinMax /\ LimitsHeld /\ LaneInv /\ LaneKept

-----------------------------------------------------------------------------
(* What one step of a request does.                                         *)

\* The thread of r goes to v and its record to s; nobody else moves.
Rewrites(r, v, s) ==
    /\ thr' = [thr EXCEPT ![r] = v]
    /\ rec' = [rec EXCEPT ![r] = s]
    /\ Fits(v, s)
    /\ UNCHANGED world

KeepsSlot(r, v, s) ==
    /\ active' = active
    /\ Slotted(v, s) <=> Slotted(thr[r], rec[r])
    /\ Slotted(v, s) => v.be = thr[r].be

TakesSlot(r, v, s) ==
    /\ ~Slotted(thr[r], rec[r]) /\ Slotted(v, s) /\ v.be \in Backends
    /\ active' = [active EXCEPT ![Pool(r)][v.be] = @ + 1]
    /\ active[Pool(r)][v.be] < world.max[v.be]

GivesSlot(r, v, s) ==
    /\ Slotted(thr[r], rec[r]) /\ ~Slotted(v, s)
    /\ active' = [active EXCEPT ![Pool(r)][thr[r].be] = IF @ > 0 THEN @ - 1 ELSE 0]

\* A record is accounted for anew only by the check of the store.
AsksStore(r, v, s) ==
    s \in {"reserved", "ready"} =>
        /\ v.be = thr[r].be
        /\ Accounted(r) \/ (thr[r].pc = "save" /\ capacityAllowed(r))

\* A slot is taken anew only where the lane has room, or starves.
AsksLane(r, v) ==
    v.pc \in {"admit", "save"} =>
        \/ thr[r].pc \in {"admit", "save"} /\ v.be = thr[r].be
        \/ world.after = 0 => EffectiveMaxRunners(v.be, Class(r)) > 0

RequestStep(r) ==
    \E v \in Threads, s \in RecStates :
        /\ Rewrites(r, v, s)
        /\ KeepsSlot(r, v, s) \/ TakesSlot(r, v, s) \/ GivesSlot(r, v, s)
        /\ AsksStore(r, v, s)
        /\ AsksLane(r, v)

\* The types of a request's fields and of the configuration.
LEMMA GateFacts ==
    ASSUME TypeInv
    PROVE  /\ Live \subseteq Requests
           /\ \A r \in Live : /\ Pool(r) \in Pools /\ Tenant(r) \in Tenants
                              /\ Class(r) \in Classes
                              /\ world.req[r].pin \in Backends \cup {None}
           /\ world.max \in [Backends -> Nat] /\ world.cross \in [Backends -> Nat]
           /\ world.budget \in [Backends -> Nat]
           /\ world.soft \in [Classes -> Nat] /\ world.quota \in [Tenants -> Nat]
           /\ world.weight \in [Classes -> Nat \ {0}]
           /\ Range(world.ring) \subseteq Backends
  <1>1. world \in Worlds
    BY DEF TypeInv
  <1>2. /\ Live \subseteq Requests
        /\ \A r \in Live : world.req[r] \in [pool : Pools, tenant : Tenants, class : Classes,
                                             pin : Backends \cup {None}]
    BY <1>1, GateAssumption DEF Live
  <1>3. \A r \in Live : /\ Pool(r) \in Pools /\ Tenant(r) \in Tenants
                        /\ Class(r) \in Classes
                        /\ world.req[r].pin \in Backends \cup {None}
    BY <1>2 DEF Pool, Tenant, Class
  <1>4. /\ world.max \in [Backends -> Nat] /\ world.cross \in [Backends -> Nat]
        /\ world.budget \in [Backends -> Nat]
        /\ world.soft \in [Classes -> Nat] /\ world.quota \in [Tenants -> Nat]
        /\ world.weight \in [Classes -> Nat \ {0}]
    BY <1>1, GateAssumption
  <1>5. world.ring \in Seq(Backends)
    BY <1>1, GateAssumption
  <1>6. Range(world.ring) \subseteq Backends
    BY <1>5 DEF Range
  <1> QED BY <1>2, <1>3, <1>4, <1>6

\* The soft reserve is a number, and a lane below another has no more room.
LEMMA LaneFacts ==
    ASSUME TypeInv
    PROVE  \A c \in Classes, b \in Backends :
             /\ EffectiveMaxRunners(b, c) \in 0 .. world.max[b]
             /\ LaneRoom(b, c) = EffectiveMaxRunners(b, c)
             /\ \A k \in Classes : world.weight[k] <= world.weight[c]
                    => EffectiveMaxRunners(b, k) <= EffectiveMaxRunners(b, c)
  <1> SUFFICES ASSUME NEW c \in Classes, NEW b \in Backends
               PROVE  /\ EffectiveMaxRunners(b, c) \in 0 .. world.max[b]
                      /\ LaneRoom(b, c) = EffectiveMaxRunners(b, c)
                      /\ \A k \in Classes : world.weight[k] <= world.weight[c]
                             => EffectiveMaxRunners(b, k) <= EffectiveMaxRunners(b, c)
    OBVIOUS
  <1> DEFINE Above(k) == {m \in Classes : world.weight[m] > world.weight[k]}
  <1>1. /\ world.max[b] \in Nat /\ \A k \in Classes : world.weight[k] \in Nat
        /\ \A k \in Classes : world.soft[k] \in Nat
    BY GateFacts
  <1>2. \A k \in Classes : IsFiniteSet(Above(k))
    BY GateAssumption, FS_Subset
  <1>3. \A k \in Classes : SoftReserveHeld(k) = Total(world.soft, Above(k))
    BY DEF SoftReserveHeld, Total
  <1>4. ASSUME NEW k \in Classes
        PROVE  Total(world.soft, Above(k)) \in Nat
    <2>1. \A x \in Above(k) : world.soft[x] \in Nat
      BY <1>1
    <2> HIDE DEF Above
    <2> QED BY <1>2, <2>1, TotalType
  <1>5. LaneRoom(b, c) = IF Total(world.soft, Above(c)) > world.max[b] THEN 0
                         ELSE world.max[b] - Total(world.soft, Above(c))
    BY DEF LaneRoom, Total
  <1>6. ASSUME NEW k \in Classes, world.weight[k] <= world.weight[c]
        PROVE  Total(world.soft, Above(c)) <= Total(world.soft, Above(k))
    <2>1. Above(c) \in SUBSET Above(k)
      BY <1>1, <1>6
    <2>2. \A x \in Above(k) : world.soft[x] \in Nat
      BY <1>1
    <2>3. IsFiniteSet(Above(k))
      BY <1>2
    <2> HIDE DEF Above
    <2> QED BY <2>1, <2>2, <2>3, TotalMonotone
  <1> HIDE DEF Above
  <1>7. EffectiveMaxRunners(b, c) \in 0 .. world.max[b]
    BY <1>1, <1>3, <1>4 DEF EffectiveMaxRunners
  <1>8. LaneRoom(b, c) = EffectiveMaxRunners(b, c)
    BY <1>1, <1>3, <1>4, <1>5 DEF EffectiveMaxRunners
  <1>9. \A k \in Classes : world.weight[k] <= world.weight[c]
             => EffectiveMaxRunners(b, k) <= EffectiveMaxRunners(b, c)
    BY <1>1, <1>3, <1>4, <1>6 DEF EffectiveMaxRunners
  <1> QED BY <1>7, <1>8, <1>9

\* The room of a lane depends on the configuration only.
Room(w, b, c) ==
    LET above == Total(w.soft, {k \in Classes : w.weight[k] > w.weight[c]})
    IN  IF above > w.max[b] THEN 0 ELSE w.max[b] - above
Effective(w, b, c) ==
    LET above == Total(w.soft, {k \in Classes : w.weight[k] > w.weight[c]})
    IN  IF w.max[b] > above THEN w.max[b] - above ELSE 0
RoomFacts ==
    \A b, c : /\ LaneRoom(b, c) = Room(world, b, c)
              /\ EffectiveMaxRunners(b, c) = Effective(world, b, c)

\* LaneRoom and EffectiveMaxRunners depend on nothing but the configuration.
LEMMA RoomOfWorld == RoomFacts
  BY DEF RoomFacts, LaneRoom, EffectiveMaxRunners, SoftReserveHeld, Room, Effective, Total

\* So no step changes them.
LEMMA RoomKept ==
    ASSUME world' = world
    PROVE  \A b, c : /\ LaneRoom(b, c)' = LaneRoom(b, c)
                     /\ EffectiveMaxRunners(b, c)' = EffectiveMaxRunners(b, c)
  <1>1. RoomFacts /\ RoomFacts'
    BY RoomOfWorld, PTL
  <1> QED BY <1>1 DEF RoomFacts

\* A thread's fields, and what Goto, Leave, TryOthers and Selected make of it.
LEMMA ThreadFacts ==
    ASSUME TypeInv, NEW r \in Requests
    PROVE  /\ thr[r] \in Threads /\ rec[r] \in RecStates
           /\ thr[r].pc \in PCs /\ thr[r].S \subseteq Backends
           /\ thr[r].pin \in Backends \cup {None} /\ thr[r].be \in Backends \cup {None}
           /\ rec = [rec EXCEPT ![r] = rec[r]] /\ thr = [thr EXCEPT ![r] = thr[r]]
           /\ Idle \in Threads
           /\ \A pc \in PCs : /\ [thr[r] EXCEPT !.pc = pc] \in Threads
                              /\ [thr[r] EXCEPT !.pc = pc].pc = pc
                              /\ [thr[r] EXCEPT !.pc = pc].be = thr[r].be
                              /\ [thr[r] EXCEPT !.pc = pc].S = thr[r].S
                              /\ Goto(r, pc) => thr' = [thr EXCEPT ![r] = [thr[r] EXCEPT !.pc = pc]]
  <1>1. thr[r] \in Threads /\ rec[r] \in RecStates
    BY DEF TypeInv
  <1>2. rec = [rec EXCEPT ![r] = rec[r]] /\ thr = [thr EXCEPT ![r] = thr[r]]
    BY DEF TypeInv
  <1>3. Idle \in Threads
    BY DEF Idle, At, Threads, PCs
  <1>4. /\ thr[r].pc \in PCs /\ thr[r].S \subseteq Backends
        /\ thr[r].pin \in Backends \cup {None} /\ thr[r].be \in Backends \cup {None}
    BY <1>1 DEF Threads
  <1>5. ASSUME NEW pc \in PCs
        PROVE  /\ [thr[r] EXCEPT !.pc = pc] \in Threads
               /\ [thr[r] EXCEPT !.pc = pc].pc = pc
               /\ [thr[r] EXCEPT !.pc = pc].be = thr[r].be
               /\ [thr[r] EXCEPT !.pc = pc].S = thr[r].S
               /\ Goto(r, pc) => thr' = [thr EXCEPT ![r] = [thr[r] EXCEPT !.pc = pc]]
    BY <1>1 DEF Threads, Goto
  <1> QED BY <1>1, <1>2, <1>3, <1>4, <1>5

\* The fields of a thread.
LEMMA AtFacts ==
    ASSUME NEW pc \in PCs, NEW S \in SUBSET Backends, NEW pin \in Backends \cup {None},
           NEW be \in Backends \cup {None}
    PROVE  /\ At(pc, S, pin, be) \in Threads
           /\ At(pc, S, pin, be).pc = pc /\ At(pc, S, pin, be).S = S
           /\ At(pc, S, pin, be).pin = pin /\ At(pc, S, pin, be).be = be
  BY DEF At, Threads

\* A thread that has not begun has no backend and no slot.
LEMMA IdleFacts ==
    /\ Idle \in Threads /\ Idle.pc = "idle" /\ Idle.be = None /\ Idle.S = {}
    /\ Fits(Idle, "none") /\ ~Slotted(Idle, "none")
  BY DEF Idle, At, Threads, PCs, Fits, Slotted

\* Nor has one that selects a backend.
LEMMA ReselectingFacts ==
    ASSUME NEW S \in SUBSET Backends, NEW pin \in Backends \cup {None}
    PROVE  LET v == At("reserve", S, pin, None)
           IN  /\ v \in Threads /\ v.pc = "reserve" /\ v.S = S /\ v.be = None
               /\ Fits(v, "none") /\ ~Slotted(v, "none")
  BY DEF At, Threads, PCs, Fits, Slotted

\* What is left after a refusal: fewer backends, or none.
LEMMA TryOthersFacts ==
    ASSUME TypeInv, NEW r \in Requests, TryOthers(r)
    PROVE  \E v \in Threads :
              /\ thr' = [thr EXCEPT ![r] = v] /\ Fits(v, "none") /\ ~Slotted(v, "none")
              /\ v.pc \in {"idle", "reserve"} /\ v.be = None
              /\ v.S \subseteq thr[r].S
  <1> DEFINE rest == thr[r].S \ {thr[r].be}
             v == At("reserve", rest, None, None)
  <1>1. rest \in SUBSET Backends /\ rest \subseteq thr[r].S
    BY ThreadFacts
  <1>2. thr' = [thr EXCEPT ![r] = IF rest = {} THEN Idle ELSE v]
    BY DEF TryOthers
  <1> HIDE DEF rest
  <1>3. /\ v \in Threads /\ v.pc = "reserve" /\ v.be = None /\ v.S = rest
        /\ Fits(v, "none") /\ ~Slotted(v, "none")
    BY <1>1, ReselectingFacts
  <1> HIDE DEF v
  <1>4. CASE rest = {}
    <2>1. thr' = [thr EXCEPT ![r] = Idle]
      BY <1>2, <1>4
    <2> QED BY <2>1, IdleFacts
  <1>5. CASE rest # {}
    <2>1. thr' = [thr EXCEPT ![r] = v]
      BY <1>2, <1>5
    <2> QED BY <1>1, <1>3, <2>1
  <1> QED BY <1>4, <1>5

\* A reservation takes a slot that is free, under the limit of the lane unless
\* it starves (backendAvailableForPriority).
LEMMA ReserveFacts ==
    ASSUME TypeInv, NEW r \in Live, NEW b \in Backends,
           backendAvailableForPriority(Pool(r), b, Class(r), isStarving(Pool(r), Class(r)))
    PROVE  /\ active[Pool(r)][b] < world.max[b]
           /\ world.after = 0 => EffectiveMaxRunners(b, Class(r)) > 0
  <1>1. Pool(r) \in Pools /\ Class(r) \in Classes /\ world.max[b] \in Nat
    BY GateFacts
  <1>2. active[Pool(r)][b] \in Nat
    BY <1>1 DEF TypeInv
  <1>3. EffectiveMaxRunners(b, Class(r)) \in 0 .. world.max[b]
    BY <1>1, LaneFacts
  <1>4. world.after = 0 => ~isStarving(Pool(r), Class(r))
    BY DEF isStarving
  <1> QED BY <1>1, <1>2, <1>3, <1>4 DEF backendAvailableForPriority

\* Each step of a request is one of these.
LEMMA RequestSteps ==
    ASSUME TypeInv, NEW r \in Live, Filter(r) \/ Step(r) \/ Cancel(r) \/ Finish(r)
    PROVE  RequestStep(r)
  <1>0. /\ r \in Requests /\ Pool(r) \in Pools /\ Class(r) \in Classes
        /\ Fits(thr[r], rec[r])
    BY GateFacts DEF TypeInv
  <1>1. /\ thr[r] \in Threads /\ rec[r] \in RecStates
        /\ thr[r].pc \in PCs /\ thr[r].S \subseteq Backends
        /\ thr[r].pin \in Backends \cup {None} /\ thr[r].be \in Backends \cup {None}
        /\ rec = [rec EXCEPT ![r] = rec[r]] /\ thr = [thr EXCEPT ![r] = thr[r]]
    BY <1>0, ThreadFacts
  \* Nothing about slots changes.
  <1>2. ASSUME NEW v \in Threads, NEW s \in RecStates, Rewrites(r, v, s), active' = active,
               Slotted(v, s) <=> Slotted(thr[r], rec[r]), v.be = thr[r].be,
               s \in {"reserved", "ready"} => Accounted(r) \/ (thr[r].pc = "save" /\ capacityAllowed(r)),
               v.pc \in {"admit", "save"} => thr[r].pc \in {"admit", "save"}
        PROVE  RequestStep(r)
    BY <1>2 DEF RequestStep, KeepsSlot, AsksStore, AsksLane
  \* The slot of r is given back.
  <1>3. ASSUME NEW v \in Threads, NEW s \in {"none", "canceled"}, Rewrites(r, v, s),
               v.pc \notin {"admit", "save"}, Slotted(thr[r], rec[r]),
               active' = [active EXCEPT ![Pool(r)][thr[r].be] = IF @ > 0 THEN @ - 1 ELSE 0]
        PROVE  RequestStep(r)
    BY <1>3 DEF RequestStep, GivesSlot, AsksStore, AsksLane, Slotted, RecStates
  \* r is not in the scheduler's books before or after.
  <1>4. ASSUME NEW v \in Threads, Rewrites(r, v, "none"), active' = active,
               v.pc \notin {"admit", "save"}, ~Slotted(thr[r], rec[r])
        PROVE  RequestStep(r)
    BY <1>4 DEF RequestStep, KeepsSlot, AsksStore, AsksLane, Slotted, RecStates
  <1>5. ASSUME NEW v, thr' = [thr EXCEPT ![r] = v], UNCHANGED <<world, rec>>, Fits(v, rec[r])
        PROVE  Rewrites(r, v, rec[r])
    BY <1>1, <1>5 DEF Rewrites
  <1>6. ASSUME NEW v, NEW s, thr' = [thr EXCEPT ![r] = v], rec' = [rec EXCEPT ![r] = s],
               UNCHANGED world, Fits(v, s)
        PROVE  Rewrites(r, v, s)
    BY <1>6 DEF Rewrites
  <1>7. CASE Filter(r)
    <2>1. rec[r] = "none" /\ thr[r].pc = "idle" /\ UNCHANGED <<world, rec, active>>
      BY <1>7 DEF Filter, fairVars
    <2>2. ~Slotted(thr[r], rec[r])
      BY <2>1 DEF Slotted
    <2>3. CASE PassesFilters(r)
      <3> DEFINE S == Filtered(r)
                 pin == FilteredPin(r)
                 v == At("reserve", S, pin, None)
      <3>1. S \in SUBSET Backends /\ pin \in Backends \cup {None}
        BY GateFacts DEF Filtered, Admissible, FilteredPin
      <3>2. thr' = [thr EXCEPT ![r] = v]
        BY <1>7, <2>3 DEF Filter
      <3> HIDE DEF S, pin
      <3>3. v \in Threads /\ v.pc = "reserve" /\ Fits(v, "none")
        BY <3>1, ReselectingFacts
      <3> HIDE DEF v
      <3> QED BY <1>4, <1>5, <2>1, <2>2, <3>2, <3>3
    <2>4. CASE ~PassesFilters(r)
      <3>1. thr' = [thr EXCEPT ![r] = thr[r]]
        BY <1>1, <1>7, <2>4 DEF Filter
      <3> QED BY <1>0, <1>1, <1>4, <1>5, <2>1, <2>2, <3>1
    <2> QED BY <2>3, <2>4
  <1>8. CASE Reserve(r)
    <2>1. PICK b \in thr[r].S :
            /\ Selected(r, b)
            /\ \/ ReservePinned(Pool(r), b, Tenant(r), Class(r))
               \/ ReserveBest(Pool(r), thr[r].S, b, Tenant(r), Class(r))
      BY <1>8 DEF Reserve
    <2> DEFINE v == At("admit", thr[r].S, thr[r].pin, b)
    <2>2. /\ thr' = [thr EXCEPT ![r] = v] /\ thr[r].pc = "reserve" /\ rec[r] = "none"
          /\ UNCHANGED <<world, rec>> /\ b \in Backends
      BY <1>0, <1>1, <1>8, <2>1 DEF Reserve, Selected, Fits
    <2>3. v \in Threads /\ v.pc = "admit" /\ v.be = b
      BY <1>1, <2>2, AtFacts DEF PCs
    <2> HIDE DEF v
    <2>4. Fits(v, "none") /\ Slotted(v, "none") /\ ~Slotted(thr[r], rec[r])
      BY <2>2, <2>3 DEF Fits, Slotted
    <2>5. active' = [active EXCEPT ![Pool(r)][b] = @ + 1]
      BY <2>1 DEF ReservePinned, ReserveBest, Take
    <2>6. backendAvailableForPriority(Pool(r), b, Class(r), isStarving(Pool(r), Class(r)))
      <3>1. CASE ReservePinned(Pool(r), b, Tenant(r), Class(r))
        BY <3>1 DEF ReservePinned
      <3>2. CASE ReserveBest(Pool(r), thr[r].S, b, Tenant(r), Class(r))
        BY <3>2 DEF ReserveBest, BestOffset, OpenOffsets
      <3> QED BY <2>1, <3>1, <3>2
    <2>7. /\ active[Pool(r)][b] < world.max[b]
          /\ world.after = 0 => EffectiveMaxRunners(b, Class(r)) > 0
      BY <2>2, <2>6, ReserveFacts
    <2>8. TakesSlot(r, v, "none")
      BY <2>2, <2>3, <2>4, <2>5, <2>7 DEF TakesSlot
    <2>9. Rewrites(r, v, "none")
      BY <1>5, <2>2, <2>4
    <2>10. AsksStore(r, v, "none") /\ AsksLane(r, v)
      BY <2>3, <2>7 DEF AsksStore, AsksLane
    <2> QED BY <2>3, <2>8, <2>9, <2>10 DEF RequestStep, RecStates
  <1>9. CASE ReserveFails(r)
    <2>1. /\ thr' = [thr EXCEPT ![r] = Idle] /\ thr[r].pc = "reserve" /\ rec[r] = "none"
          /\ UNCHANGED <<world, rec, active>>
      BY <1>0, <1>9 DEF ReserveFails, Leave, Fits, ReserveOverQuota, ReserveNoCapacity
    <2>2. ~Slotted(thr[r], rec[r])
      BY <2>1 DEF Slotted
    <2> QED BY <1>4, <1>5, <2>1, <2>2, IdleFacts
  <1>10. CASE Admit(r)
    <2> DEFINE v == [thr[r] EXCEPT !.pc = "save"]
    <2>1. /\ Goto(r, "save") /\ thr[r].pc = "admit" /\ UNCHANGED <<world, rec, active>>
      BY <1>10 DEF Admit, fairVars
    <2>2. /\ v \in Threads /\ v.pc = "save" /\ v.be = thr[r].be
          /\ thr' = [thr EXCEPT ![r] = v]
      BY <1>0, <2>1, ThreadFacts DEF PCs
    <2> HIDE DEF v
    <2>3. rec[r] = "none" /\ Fits(v, rec[r]) /\ Slotted(v, rec[r]) /\ Slotted(thr[r], rec[r])
      BY <1>0, <2>1, <2>2 DEF Fits, Slotted
    <2> QED BY <1>1, <1>2, <1>5, <2>1, <2>2, <2>3
  <1>11. CASE DenyCircuitOpen(r)
    <2>1. /\ thr' = [thr EXCEPT ![r] = Idle] /\ thr[r].pc = "admit" /\ UNCHANGED <<world, rec>>
          /\ active' = [active EXCEPT ![Pool(r)][thr[r].be] = IF @ > 0 THEN @ - 1 ELSE 0]
      BY <1>11 DEF DenyCircuitOpen, Leave, Release
    <2>2. rec[r] = "none" /\ Slotted(thr[r], rec[r])
      BY <1>0, <2>1 DEF Fits, Slotted
    <2> QED BY <1>3, <1>5, <2>1, <2>2, IdleFacts
  <1>12. CASE DenyRateLimited(r)
    <2>1. /\ TryOthers(r) /\ thr[r].pc = "admit" /\ UNCHANGED <<world, rec>>
          /\ active' = [active EXCEPT ![Pool(r)][thr[r].be] = IF @ > 0 THEN @ - 1 ELSE 0]
      BY <1>12 DEF DenyRateLimited, Release
    <2>2. rec[r] = "none" /\ Slotted(thr[r], rec[r])
      BY <1>0, <2>1 DEF Fits, Slotted
    <2>3. PICK v \in Threads : /\ thr' = [thr EXCEPT ![r] = v] /\ Fits(v, "none")
                               /\ v.pc \in {"idle", "reserve"}
      BY <1>0, <2>1, TryOthersFacts
    <2> QED BY <1>3, <1>5, <2>1, <2>2, <2>3
  <1>13. CASE SaveReserved(r)
    <2> DEFINE v == [thr[r] EXCEPT !.pc = "provision"]
    <2>1. /\ Goto(r, "provision") /\ thr[r].pc = "save" /\ UNCHANGED <<world, active>>
          /\ rec' = [rec EXCEPT ![r] = "reserved"] /\ capacityAllowed(r)
      BY <1>13 DEF SaveReserved, fairVars
    <2>2. /\ v \in Threads /\ v.pc = "provision" /\ v.be = thr[r].be
          /\ thr' = [thr EXCEPT ![r] = v]
      BY <1>0, <2>1, ThreadFacts DEF PCs
    <2> HIDE DEF v
    <2>3. Fits(v, "reserved") /\ Slotted(v, "reserved") /\ Slotted(thr[r], rec[r])
      BY <1>0, <2>1, <2>2 DEF Fits, Slotted
    <2>4. Rewrites(r, v, "reserved")
      BY <1>6, <2>1, <2>2, <2>3
    <2>5. "reserved" \in RecStates /\ "ready" \in RecStates
      BY DEF RecStates
    <2> QED BY <1>2, <2>1, <2>2, <2>3, <2>4, <2>5
  <1>14. CASE SaveRefused(r)
    <2>1. /\ thr' = [thr EXCEPT ![r] = Idle] /\ thr[r].pc = "save" /\ UNCHANGED <<world, rec>>
          /\ active' = [active EXCEPT ![Pool(r)][thr[r].be] = IF @ > 0 THEN @ - 1 ELSE 0]
      BY <1>14 DEF SaveRefused, Leave, Release
    <2>2. rec[r] = "none" /\ Slotted(thr[r], rec[r])
      BY <1>0, <2>1 DEF Fits, Slotted
    <2> QED BY <1>3, <1>5, <2>1, <2>2, IdleFacts
  <1>15. CASE Provision(r)
    <2> DEFINE v == [thr[r] EXCEPT !.pc = "commit"]
    <2>1. /\ Goto(r, "commit") /\ thr[r].pc = "provision" /\ UNCHANGED <<world, rec, active>>
      BY <1>15 DEF Provision, fairVars
    <2>2. /\ v \in Threads /\ v.pc = "commit" /\ v.pc \notin {"admit", "save"}
          /\ v.be = thr[r].be
          /\ thr' = [thr EXCEPT ![r] = v]
      BY <1>0, <2>1, ThreadFacts DEF PCs
    <2> HIDE DEF v
    <2>3. Fits(v, rec[r]) /\ (Slotted(v, rec[r]) <=> Slotted(thr[r], rec[r]))
      BY <1>0, <2>1, <2>2 DEF Fits, Slotted
    <2> QED BY <1>1, <1>2, <1>5, <2>1, <2>2, <2>3 DEF Accounted
  <1>16. CASE ProvisionFails(r)
    <2>1. /\ thr[r].pc = "provision" /\ UNCHANGED world
          /\ rec' = [rec EXCEPT ![r] = "none"]
          /\ TryOthers(r) \/ Leave(r)
          /\ IF rec[r] = "reserved"
             THEN active' = [active EXCEPT ![Pool(r)][thr[r].be] = IF @ > 0 THEN @ - 1 ELSE 0]
             ELSE active' = active
      BY <1>16 DEF ProvisionFails, Release, fairVars
    <2>2. PICK v \in Threads : /\ thr' = [thr EXCEPT ![r] = v] /\ Fits(v, "none")
                               /\ v.pc \in {"idle", "reserve"}
      BY <1>0, <2>1, TryOthersFacts, IdleFacts DEF Leave
    <2>3. Rewrites(r, v, "none")
      BY <1>6, <2>1, <2>2
    <2>4. rec[r] \in {"reserved", "canceled"} /\ (Slotted(thr[r], rec[r]) <=> rec[r] = "reserved")
      BY <1>0, <2>1 DEF Fits, Slotted
    <2> QED BY <1>3, <1>4, <2>1, <2>2, <2>3, <2>4
  <1>17. CASE Commit(r)
    <2> DEFINE v == [thr[r] EXCEPT !.pc = "record"]
    <2>1. /\ Goto(r, "record") /\ thr[r].pc = "commit" /\ UNCHANGED <<world, active>>
          /\ rec' = [rec EXCEPT ![r] = "ready"] /\ rec[r] = "reserved"
      BY <1>17 DEF Commit, fairVars
    <2>2. /\ v \in Threads /\ v.pc = "record" /\ v.pc \notin {"admit", "save"}
          /\ v.be = thr[r].be
          /\ thr' = [thr EXCEPT ![r] = v]
      BY <1>0, <2>1, ThreadFacts DEF PCs
    <2> HIDE DEF v
    <2>3. Fits(v, "ready") /\ Slotted(v, "ready") /\ Slotted(thr[r], rec[r]) /\ Accounted(r)
      BY <1>0, <2>1, <2>2 DEF Fits, Slotted, Accounted
    <2>4. Rewrites(r, v, "ready")
      BY <1>6, <2>1, <2>2, <2>3
    <2>5. "reserved" \in RecStates /\ "ready" \in RecStates
      BY DEF RecStates
    <2> QED BY <1>2, <2>1, <2>2, <2>3, <2>4, <2>5
  <1>18. CASE CommitCanceled(r)
    <2>1. /\ thr' = [thr EXCEPT ![r] = Idle] /\ thr[r].pc = "commit" /\ rec[r] = "canceled"
          /\ rec' = [rec EXCEPT ![r] = "none"] /\ UNCHANGED <<world, active>>
      BY <1>18 DEF CommitCanceled, Leave, fairVars
    <2>2. ~Slotted(thr[r], rec[r])
      BY <2>1 DEF Slotted
    <2>3. Rewrites(r, Idle, "none")
      BY <1>6, <2>1, IdleFacts
    <2> QED BY <1>4, <2>1, <2>2, <2>3, IdleFacts
  <1>19. CASE recordBudgetUsage(r)
    <2> DEFINE v == [thr[r] EXCEPT !.pc = "live"]
    <2>1. /\ Goto(r, "live") /\ thr[r].pc = "record" /\ UNCHANGED <<world, rec, active>>
      BY <1>19 DEF recordBudgetUsage, fairVars
    <2>2. /\ v \in Threads /\ v.pc = "live" /\ v.pc \notin {"admit", "save"}
          /\ v.be = thr[r].be
          /\ thr' = [thr EXCEPT ![r] = v]
      BY <1>0, <2>1, ThreadFacts DEF PCs
    <2> HIDE DEF v
    <2>3. Fits(v, rec[r]) /\ Slotted(v, rec[r]) /\ Slotted(thr[r], rec[r]) /\ Accounted(r)
      BY <1>0, <2>1, <2>2 DEF Fits, Slotted, Accounted
    <2> QED BY <1>1, <1>2, <1>5, <2>1, <2>2, <2>3
  <1>20. CASE Cancel(r)
    <2>1. /\ rec[r] = "reserved" /\ rec' = [rec EXCEPT ![r] = "canceled"]
          /\ thr' = [thr EXCEPT ![r] = thr[r]] /\ UNCHANGED world
          /\ active' = [active EXCEPT ![Pool(r)][thr[r].be] = IF @ > 0 THEN @ - 1 ELSE 0]
      BY <1>1, <1>20 DEF Cancel, Release
    <2>2. /\ thr[r].pc \notin {"admit", "save"} /\ Slotted(thr[r], rec[r])
          /\ Fits(thr[r], "canceled")
      BY <1>0, <1>1, <2>1 DEF Fits, Slotted
    <2>3. Rewrites(r, thr[r], "canceled")
      BY <1>6, <2>1, <2>2
    <2> QED BY <1>1, <1>3, <2>1, <2>2, <2>3
  <1>21. CASE Finish(r)
    <2>1. /\ thr' = [thr EXCEPT ![r] = Idle] /\ thr[r].pc = "live"
          /\ rec' = [rec EXCEPT ![r] = "none"] /\ UNCHANGED world
          /\ active' = [active EXCEPT ![Pool(r)][thr[r].be] = IF @ > 0 THEN @ - 1 ELSE 0]
      BY <1>21 DEF Finish, Leave, Release
    <2>2. Slotted(thr[r], rec[r])
      BY <1>0, <2>1 DEF Fits, Slotted
    <2>3. Rewrites(r, Idle, "none")
      BY <1>6, <2>1, IdleFacts
    <2> QED BY <1>3, <2>1, <2>2, <2>3, IdleFacts
  <1> QED
    BY <1>7, <1>8, <1>9, <1>10, <1>11, <1>12, <1>13, <1>14, <1>15, <1>16, <1>17, <1>18,
       <1>19, <1>20, <1>21 DEF Step

-----------------------------------------------------------------------------
(* Slots.                                                                   *)

\* The requests with a slot of a backend.
Holders(p, b) == {q \in Live : Holds(q, p, b)}

\* A request holds the slot of its thread's backend, or none.
LEMMA HoldersFacts ==
    ASSUME TypeInv, NEW p \in Pools, NEW b \in Backends
    PROVE  /\ Holders(p, b) = {q \in Live : /\ Pool(q) = p /\ thr[q].be = b
                                            /\ Slotted(thr[q], rec[q])}
           /\ IsFiniteSet(Holders(p, b)) /\ Cardinality(Holders(p, b)) \in Nat
  <1>1. Holders(p, b) = {q \in Live : /\ Pool(q) = p /\ thr[q].be = b
                                      /\ Slotted(thr[q], rec[q])}
    BY DEF Holders, Holds, Slotted, Accounted
  <1>2. Holders(p, b) \subseteq Requests
    BY GateFacts DEF Holders
  <1>3. IsFiniteSet(Holders(p, b))
    BY <1>2, GateAssumption, FS_Subset
  <1> QED BY <1>1, <1>3, FS_CardinalityType

\* A step of a request rewrites its own state only.
LEMMA StepFacts ==
    ASSUME TypeInv, NEW r \in Live, NEW v \in Threads, NEW s \in RecStates, Rewrites(r, v, s)
    PROVE  /\ Live' = Live /\ world' = world
           /\ \A q \in Live : Pool(q)' = Pool(q) /\ Tenant(q)' = Tenant(q) /\ Class(q)' = Class(q)
           /\ thr'[r] = v /\ rec'[r] = s
           /\ \A q \in Live \ {r} : thr'[q] = thr[q] /\ rec'[q] = rec[q]
           /\ thr' \in [Requests -> Threads] /\ rec' \in [Requests -> RecStates]
           /\ \A q \in Requests : Fits(thr'[q], rec'[q])
  <1>1. r \in Requests /\ Live \subseteq Requests
    BY GateFacts
  <1>2. thr \in [Requests -> Threads] /\ rec \in [Requests -> RecStates]
    BY DEF TypeInv
  <1>3. thr' = [thr EXCEPT ![r] = v] /\ rec' = [rec EXCEPT ![r] = s] /\ world' = world
    BY DEF Rewrites
  <1>4. thr' \in [Requests -> Threads] /\ rec' \in [Requests -> RecStates]
    BY <1>2, <1>3
  <1>5. thr'[r] = v /\ rec'[r] = s
    BY <1>1, <1>2, <1>3
  <1>6. \A q \in Requests \ {r} : thr'[q] = thr[q] /\ rec'[q] = rec[q]
    BY <1>2, <1>3
  <1>7. \A q \in Requests : Fits(thr'[q], rec'[q])
    BY <1>5, <1>6 DEF TypeInv, Rewrites
  <1>8. Live' = Live
    BY <1>3 DEF Live
  <1>9. \A q \in Live : Pool(q)' = Pool(q) /\ Tenant(q)' = Tenant(q) /\ Class(q)' = Class(q)
    BY <1>3 DEF Pool, Tenant, Class
  <1> QED BY <1>1, <1>3, <1>4, <1>5, <1>6, <1>7, <1>8, <1>9

\* The scheduler's counters keep their type.
LEMMA RequestTypes ==
    ASSUME TypeInv, NEW r \in Live, RequestStep(r)
    PROVE  TypeInv'
  <1>1. PICK v \in Threads, s \in RecStates :
          /\ Rewrites(r, v, s)
          /\ KeepsSlot(r, v, s) \/ TakesSlot(r, v, s) \/ GivesSlot(r, v, s)
    BY DEF RequestStep
  <1>2. world' \in Worlds
    BY <1>1 DEF Rewrites, TypeInv
  <1>3. active \in [Pools -> [Backends -> Nat]] /\ Pool(r) \in Pools /\ r \in Requests
    BY GateFacts DEF TypeInv
  <1>4. ASSUME NEW b \in Backends, NEW n \in Nat, active' = [active EXCEPT ![Pool(r)][b] = n]
        PROVE  active' \in [Pools -> [Backends -> Nat]]
    <2> DEFINE g == [active[Pool(r)] EXCEPT ![b] = n]
    <2>1. g \in [Backends -> Nat]
      BY <1>3
    <2>2. active' = [active EXCEPT ![Pool(r)] = g]
      BY <1>3, <1>4
    <2> HIDE DEF g
    <2> QED BY <1>3, <2>1, <2>2
  <1>5. ASSUME KeepsSlot(r, v, s) PROVE active' \in [Pools -> [Backends -> Nat]]
    BY <1>3, <1>5 DEF KeepsSlot
  <1>6. ASSUME TakesSlot(r, v, s) PROVE active' \in [Pools -> [Backends -> Nat]]
    <2>1. v.be \in Backends /\ active[Pool(r)][v.be] + 1 \in Nat
      BY <1>3, <1>6 DEF TakesSlot
    <2> QED BY <1>4, <1>6, <2>1 DEF TakesSlot
  <1>7. ASSUME GivesSlot(r, v, s) PROVE active' \in [Pools -> [Backends -> Nat]]
    <2>1. thr[r].be \in Backends
      BY <1>3, <1>7 DEF GivesSlot, TypeInv, Slotted, Fits
    <2> DEFINE n == IF active[Pool(r)][thr[r].be] > 0 THEN active[Pool(r)][thr[r].be] - 1 ELSE 0
    <2>2. n \in Nat
      BY <1>3, <2>1
    <2>3. active' = [active EXCEPT ![Pool(r)][thr[r].be] = n]
      BY <1>7 DEF GivesSlot
    <2> HIDE DEF n
    <2> QED BY <1>4, <2>1, <2>2, <2>3
  <1>8. active' \in [Pools -> [Backends -> Nat]]
    BY <1>1, <1>5, <1>6, <1>7
  <1> QED BY <1>1, <1>2, <1>8, StepFacts DEF TypeInv

\* Taking and giving back a slot is counted, and within the limit.
LEMMA RequestSlots ==
    ASSUME TypeInv, HeldMatchesActive, WithinMax, NEW r \in Live, RequestStep(r)
    PROVE  HeldMatchesActive' /\ WithinMax'
  <1>1. PICK v \in Threads, s \in RecStates :
          /\ Rewrites(r, v, s)
          /\ KeepsSlot(r, v, s) \/ TakesSlot(r, v, s) \/ GivesSlot(r, v, s)
    BY DEF RequestStep
  <1>2. TypeInv'
    BY RequestTypes
  <1>3. /\ Live' = Live /\ world' = world
        /\ \A q \in Live : Pool(q)' = Pool(q)
        /\ thr'[r] = v /\ rec'[r] = s
        /\ \A q \in Live \ {r} : thr'[q] = thr[q] /\ rec'[q] = rec[q]
    BY <1>1, StepFacts
  <1>4. /\ active \in [Pools -> [Backends -> Nat]] /\ Pool(r) \in Pools
        /\ world.max \in [Backends -> Nat]
    BY GateFacts DEF TypeInv
  <1>5. ASSUME NEW p \in Pools, NEW b \in Backends
        PROVE  active'[p][b] = Cardinality(Holders(p, b)') /\ active'[p][b] <= world'.max[b]
    <2> DEFINE H == Holders(p, b)
               N == Holders(p, b)'
    <2>1. /\ H = {q \in Live : Pool(q) = p /\ thr[q].be = b /\ Slotted(thr[q], rec[q])}
          /\ IsFiniteSet(H) /\ Cardinality(H) \in Nat
      BY HoldersFacts
    <2>2. Holders(p, b)' = {q \in Live : Pool(q) = p /\ thr'[q].be = b /\ Slotted(thr'[q], rec'[q])}
      BY <1>2, <1>3 DEF Holders, Holds, Slotted, Accounted
    <2>3. active[p][b] = Cardinality(H) /\ active[p][b] <= world.max[b] /\ world.max[b] \in Nat
      BY <1>4 DEF HeldMatchesActive, WithinMax, Holders
    <2>4. \A q \in Live \ {r} : q \in N <=> q \in H
      BY <1>3, <2>1, <2>2
    <2>5. /\ r \in H <=> (Pool(r) = p /\ thr[r].be = b /\ Slotted(thr[r], rec[r]))
          /\ r \in N <=> (Pool(r) = p /\ v.be = b /\ Slotted(v, s))
          /\ H \subseteq Live /\ N \subseteq Live
      BY <1>3, <2>1, <2>2
    <2> HIDE DEF H, N
    <2>6. CASE KeepsSlot(r, v, s)
      <3>1. N = H /\ active' = active
        BY <2>4, <2>5, <2>6 DEF KeepsSlot
      <3> QED BY <1>3, <2>3, <3>1 DEF N
    <2>7. CASE TakesSlot(r, v, s)
      <3>1. CASE p = Pool(r) /\ b = v.be
        <4>1. N = H \cup {r} /\ r \notin H
          BY <2>4, <2>5, <2>7, <3>1 DEF TakesSlot
        <4>2. Cardinality(N) = Cardinality(H) + 1
          BY <2>1, <4>1, FS_AddElement
        <4>3. active'[p][b] = active[p][b] + 1 /\ active[p][b] < world.max[b]
          BY <1>4, <2>7, <3>1 DEF TakesSlot
        <4>4. active[p][b] \in Nat
          BY <1>4
        <4> QED BY <1>3, <2>3, <4>2, <4>3, <4>4 DEF N
      <3>2. CASE ~(p = Pool(r) /\ b = v.be)
        <4>1. N = H
          BY <2>4, <2>5, <2>7, <3>2 DEF TakesSlot
        <4>2. active'[p][b] = active[p][b]
          BY <1>4, <2>7, <3>2 DEF TakesSlot
        <4> QED BY <1>3, <2>3, <4>1, <4>2 DEF N
      <3> QED BY <3>1, <3>2
    <2>8. CASE GivesSlot(r, v, s)
      <3>1. CASE p = Pool(r) /\ b = thr[r].be
        <4>1. N = H \ {r} /\ r \in H
          BY <2>4, <2>5, <2>8, <3>1 DEF GivesSlot
        <4>2. Cardinality(N) = Cardinality(H) - 1
          BY <2>1, <4>1, FS_RemoveElement
        <4>3. H # {}
          BY <4>1
        <4>4. Cardinality(H) # 0
          BY <2>1, <4>3, FS_EmptySet
        <4>5. active'[p][b] = IF active[p][b] > 0 THEN active[p][b] - 1 ELSE 0
          BY <1>4, <2>8, <3>1 DEF GivesSlot
        <4>6. active[p][b] \in Nat
          BY <1>4
        <4> QED BY <1>3, <2>1, <2>3, <4>2, <4>4, <4>5, <4>6 DEF N
      <3>2. CASE ~(p = Pool(r) /\ b = thr[r].be)
        <4>1. N = H
          BY <2>4, <2>5, <2>8, <3>2 DEF GivesSlot
        <4>2. active'[p][b] = active[p][b]
          BY <1>4, <2>8, <3>2 DEF GivesSlot
        <4> QED BY <1>3, <2>3, <4>1, <4>2 DEF N
      <3> QED BY <3>1, <3>2
    <2> QED BY <1>1, <2>6, <2>7, <2>8
  <1> QED BY <1>5 DEF HeldMatchesActive, WithinMax, Holders

-----------------------------------------------------------------------------
(* Records.                                                                 *)

\* The accounted records that the store counts under each limit.
ByBackend(b) == {q \in Live : Accounted(q) /\ thr[q].be = b}
ByPool(p, b) == {q \in Live : Accounted(q) /\ Pool(q) = p /\ thr[q].be = b}
ByTenant(p, t) == {q \in Live : Accounted(q) /\ Pool(q) = p /\ Tenant(q) = t}
ByLane(p, b, c) == {q \in Live : /\ Accounted(q) /\ Pool(q) = p /\ thr[q].be = b
                                 /\ world.weight[Class(q)] <= world.weight[c]}

\* Requests keep their records, or lose them; only those of R, at the check of
\* the store, get one.
RecordsGrow(R) ==
    /\ world' = world
    /\ \A q \in Live : Accounted(q)' =>
         /\ thr'[q].be = thr[q].be
         /\ Accounted(q) \/ (q \in R /\ thr[q].pc = "save" /\ capacityAllowed(q))

\* One more than fewer than n is no more than n.
LEMMA OneMoreFits ==
    ASSUME NEW S, IsFiniteSet(S), NEW x, NEW T, T \subseteq S \cup {x}, NEW n \in Nat,
           Cardinality(S) < n
    PROVE  Cardinality(T) <= n
  <1>1. Cardinality(S) \in Nat
    BY FS_CardinalityType
  <1>2. /\ IsFiniteSet(S \cup {x})
        /\ Cardinality(S \cup {x}) = IF x \in S THEN Cardinality(S) ELSE Cardinality(S) + 1
    BY FS_AddElement
  <1>3. Cardinality(T) <= Cardinality(S \cup {x}) /\ IsFiniteSet(T)
    BY <1>2, FS_Subset
  <1>4. Cardinality(T) \in Nat
    BY <1>3, FS_CardinalityType
  <1> QED BY <1>1, <1>2, <1>3, <1>4

\* A part of what fits, fits.
LEMMA PartFits ==
    ASSUME NEW S, IsFiniteSet(S), NEW T, T \subseteq S, NEW n \in Nat, Cardinality(S) <= n
    PROVE  Cardinality(T) <= n
  <1>1. Cardinality(S) \in Nat
    BY FS_CardinalityType
  <1>2. Cardinality(T) <= Cardinality(S) /\ IsFiniteSet(T)
    BY FS_Subset
  <1>3. Cardinality(T) \in Nat
    BY <1>2, FS_CardinalityType
  <1> QED BY <1>1, <1>2, <1>3

\* The limits in terms of these sets.
LimitFacts ==
    /\ LimitsHeld <=>
         \A b \in Backends :
           /\ world.cross[b] > 0 => Cardinality(ByBackend(b)) <= world.cross[b]
           /\ \A p \in Pools :
                /\ Cardinality(ByPool(p, b)) <= world.max[b]
                /\ \A t \in Tenants : world.quota[t] > 0
                     => Cardinality(ByTenant(p, t)) <= world.quota[t]
    /\ LaneKept <=>
         \A p \in Pools, b \in Backends, c \in Classes :
            (\/ world.after = 0
             \/ \A k \in Classes : world.weight[k] <= world.weight[c] => LaneRoom(b, k) > 0)
            => Cardinality(ByLane(p, b, c)) <= LaneRoom(b, c)
    /\ \A r \in Live : capacityAllowed(r) =>
         LET b == thr[r].be
             p == Pool(r)
             max == EffectiveMaxRunners(b, Class(r))
         IN  /\ max = 0 \/ Cardinality(ByPool(p, b)) < max
             /\ world.cross[b] = 0 \/ Cardinality(ByBackend(b)) < world.cross[b]
             /\ world.quota[Tenant(r)] = 0
                  \/ Cardinality(ByTenant(p, Tenant(r))) < world.quota[Tenant(r)]
    /\ \A p, b, t, c : /\ IsFiniteSet(ByBackend(b)) /\ IsFiniteSet(ByPool(p, b))
                       /\ IsFiniteSet(ByTenant(p, t)) /\ IsFiniteSet(ByLane(p, b, c))

\* Records, applied to the predicates of the properties, counts these sets.
LEMMA LimitsInSets == TypeInv => LimitFacts
  <1> SUFFICES ASSUME TypeInv PROVE LimitFacts
    OBVIOUS
  <1>1. \A b \in Backends : Records(LAMBDA q : thr[q].be = b) = Cardinality(ByBackend(b))
    BY DEF Records, ByBackend
  <1>2. \A p \in Pools, b \in Backends :
          Records(LAMBDA q : Pool(q) = p /\ thr[q].be = b) = Cardinality(ByPool(p, b))
    <2> TAKE p \in Pools, b \in Backends
    <2>1. ByPool(p, b) = {q \in Live : Accounted(q) /\ (Pool(q) = p /\ thr[q].be = b)}
      BY DEF ByPool
    <2> QED BY <2>1 DEF Records
  <1>3. \A p \in Pools, t \in Tenants :
          Records(LAMBDA q : Pool(q) = p /\ Tenant(q) = t) = Cardinality(ByTenant(p, t))
    <2> TAKE p \in Pools, t \in Tenants
    <2>1. ByTenant(p, t) = {q \in Live : Accounted(q) /\ (Pool(q) = p /\ Tenant(q) = t)}
      BY DEF ByTenant
    <2> QED BY <2>1 DEF Records
  <1>4. LimitsHeld <=>
            \A b \in Backends :
              /\ world.cross[b] > 0 => Cardinality(ByBackend(b)) <= world.cross[b]
              /\ \A p \in Pools :
                   /\ Cardinality(ByPool(p, b)) <= world.max[b]
                   /\ \A t \in Tenants : world.quota[t] > 0
                        => Cardinality(ByTenant(p, t)) <= world.quota[t]
    BY <1>1, <1>2, <1>3 DEF LimitsHeld
  <1>5. \A p \in Pools, b \in Backends, c \in Classes :
          Records(LAMBDA q : Pool(q) = p /\ thr[q].be = b
                    /\ Class(q) \in {k \in Classes : world.weight[k] <= world.weight[c]})
            = Cardinality(ByLane(p, b, c))
    <2> TAKE p \in Pools, b \in Backends, c \in Classes
    <2>1. \A q \in Live : Class(q) \in Classes
      BY GateFacts
    <2>2. ByLane(p, b, c)
            = {q \in Live : Accounted(q) /\ (Pool(q) = p /\ thr[q].be = b
                 /\ Class(q) \in {k \in Classes : world.weight[k] <= world.weight[c]})}
      BY <2>1 DEF ByLane
    <2> QED BY <2>2 DEF Records
  <1>6. LaneKept <=>
            \A p \in Pools, b \in Backends, c \in Classes :
               (\/ world.after = 0
                \/ \A k \in Classes : world.weight[k] <= world.weight[c] => LaneRoom(b, k) > 0)
               => Cardinality(ByLane(p, b, c)) <= LaneRoom(b, c)
    BY <1>5 DEF LaneKept
  <1>7. ASSUME NEW r \in Live, capacityAllowed(r)
        PROVE  LET b == thr[r].be
                   p == Pool(r)
                   max == EffectiveMaxRunners(b, Class(r))
               IN  /\ max = 0 \/ Cardinality(ByPool(p, b)) < max
                   /\ world.cross[b] = 0 \/ Cardinality(ByBackend(b)) < world.cross[b]
                   /\ world.quota[Tenant(r)] = 0
                        \/ Cardinality(ByTenant(p, Tenant(r))) < world.quota[Tenant(r)]
    <2>1. ByPool(Pool(r), thr[r].be)
            = {q \in Live : Accounted(q) /\ (Pool(q) = Pool(r) /\ thr[q].be = thr[r].be)}
      BY DEF ByPool
    <2>2. ByTenant(Pool(r), Tenant(r))
            = {q \in Live : Accounted(q) /\ (Pool(q) = Pool(r) /\ Tenant(q) = Tenant(r))}
      BY DEF ByTenant
    <2>3. ByBackend(thr[r].be) = {q \in Live : Accounted(q) /\ thr[q].be = thr[r].be}
      BY DEF ByBackend
    <2> QED BY <1>7, <2>1, <2>2, <2>3 DEF capacityAllowed, Records
  <1>8. ASSUME NEW p, NEW b, NEW t, NEW c
        PROVE  /\ IsFiniteSet(ByBackend(b)) /\ IsFiniteSet(ByPool(p, b))
               /\ IsFiniteSet(ByTenant(p, t)) /\ IsFiniteSet(ByLane(p, b, c))
    <2>1. IsFiniteSet(Live)
      BY GateFacts, GateAssumption, FS_Subset
    <2>2. /\ ByBackend(b) \subseteq Live /\ ByPool(p, b) \subseteq Live
          /\ ByTenant(p, t) \subseteq Live /\ ByLane(p, b, c) \subseteq Live
      BY DEF ByBackend, ByPool, ByTenant, ByLane
    <2> QED BY <2>1, <2>2, FS_Subset
  <1> QED BY <1>4, <1>6, <1>7, <1>8 DEF LimitFacts

\* The same of the next state.
LEMMA LimitsInSetsNext ==
    ASSUME TypeInv' PROVE LimitFacts'
  BY LimitsInSets, PTL

\* What has a record has a slot, so the scheduler's limit is the store's too,
\* also where SaveIfCapacity reads 0 as no limit.
RecordsWithinMax == \A p \in Pools, b \in Backends : Cardinality(ByPool(p, b)) <= world.max[b]

\* The bound of the slots is one of the records.
LEMMA SlotsCoverRecords == TypeInv /\ HeldMatchesActive /\ WithinMax => RecordsWithinMax
  <1> SUFFICES ASSUME TypeInv, HeldMatchesActive, WithinMax
               PROVE  \A p \in Pools, b \in Backends : Cardinality(ByPool(p, b)) <= world.max[b]
    BY DEF RecordsWithinMax
  <1> TAKE p \in Pools, b \in Backends
  <1>1. IsFiniteSet(Holders(p, b)) /\ world.max[b] \in Nat
    BY HoldersFacts, GateFacts
  <1>2. ByPool(p, b) \subseteq Holders(p, b)
    BY DEF ByPool, Holders, Holds
  <1>3. Cardinality(Holders(p, b)) <= world.max[b]
    BY DEF HeldMatchesActive, WithinMax, Holders
  <1> QED BY <1>1, <1>2, <1>3, PartFits

\* A step that gives at most one request a record, at the check of the store,
\* keeps the cross-pool limit, the quotas and the lanes.
LEMMA GrowKeepsLimits ==
    ASSUME TypeInv, TypeInv', LimitsHeld, LaneInv, LaneKept, NEW R, RecordsGrow(R),
           \A q1, q2 \in R : q1 = q2, RecordsWithinMax'
    PROVE  LimitsHeld' /\ LaneKept'
  <1>1. LimitFacts /\ LimitFacts'
    BY LimitsInSets, LimitsInSetsNext
  <1>2. world' = world
    BY DEF RecordsGrow
  <1>3. /\ Live' = Live
        /\ \A q \in Live : Pool(q)' = Pool(q) /\ Tenant(q)' = Tenant(q) /\ Class(q)' = Class(q)
    BY <1>2 DEF Live, Pool, Tenant, Class
  <1>4. \A q \in Live : Accounted(q)' =>
          /\ thr'[q].be = thr[q].be
          /\ Accounted(q) \/ (q \in R /\ thr[q].pc = "save" /\ capacityAllowed(q))
    BY DEF RecordsGrow
  <1>5. /\ world.max \in [Backends -> Nat] /\ world.cross \in [Backends -> Nat]
        /\ world.quota \in [Tenants -> Nat]
        /\ world.weight \in [Classes -> Nat \ {0}]
        /\ \A q \in Live : Pool(q) \in Pools /\ Tenant(q) \in Tenants /\ Class(q) \in Classes
    BY GateFacts
  <1>6. ASSUME NEW b \in Backends, world.cross[b] > 0
        PROVE  Cardinality(ByBackend(b)') <= world.cross[b]
    <2>1. /\ IsFiniteSet(ByBackend(b)) /\ world.cross[b] \in Nat
          /\ Cardinality(ByBackend(b)) <= world.cross[b]
      BY <1>1, <1>5, <1>6 DEF LimitFacts
    <2>2. CASE ByBackend(b)' \subseteq ByBackend(b)
      BY <2>1, <2>2, PartFits
    <2>3. CASE ~(ByBackend(b)' \subseteq ByBackend(b))
      <3>1. PICK r \in ByBackend(b)' : r \notin ByBackend(b)
        BY <2>3
      <3>2. /\ r \in Live /\ thr[r].be = b /\ ~Accounted(r)
            /\ r \in R /\ capacityAllowed(r)
        BY <1>3, <1>4, <3>1 DEF ByBackend
      <3>3. Cardinality(ByBackend(b)) < world.cross[b]
        BY <1>1, <1>6, <2>1, <3>2 DEF LimitFacts
      <3>4. ByBackend(b)' \subseteq ByBackend(b) \cup {r}
        BY <1>3, <1>4, <3>2 DEF ByBackend
      <3> QED BY <2>1, <3>3, <3>4, OneMoreFits
    <2> QED BY <2>2, <2>3
  <1>7. ASSUME NEW p \in Pools, NEW t \in Tenants, world.quota[t] > 0
        PROVE  Backends # {} => Cardinality(ByTenant(p, t)') <= world.quota[t]
    <2> SUFFICES ASSUME Backends # {} PROVE Cardinality(ByTenant(p, t)') <= world.quota[t]
      OBVIOUS
    <2>1. /\ IsFiniteSet(ByTenant(p, t)) /\ world.quota[t] \in Nat
          /\ Cardinality(ByTenant(p, t)) <= world.quota[t]
      BY <1>1, <1>5, <1>7 DEF LimitFacts
    <2>2. CASE ByTenant(p, t)' \subseteq ByTenant(p, t)
      BY <2>1, <2>2, PartFits
    <2>3. CASE ~(ByTenant(p, t)' \subseteq ByTenant(p, t))
      <3>1. PICK r \in ByTenant(p, t)' : r \notin ByTenant(p, t)
        BY <2>3
      <3>2. /\ r \in Live /\ Pool(r) = p /\ Tenant(r) = t /\ ~Accounted(r)
            /\ r \in R /\ capacityAllowed(r)
        BY <1>3, <1>4, <3>1 DEF ByTenant
      <3>3. Cardinality(ByTenant(p, t)) < world.quota[t]
        BY <1>1, <1>7, <2>1, <3>2 DEF LimitFacts
      <3>4. ByTenant(p, t)' \subseteq ByTenant(p, t) \cup {r}
        BY <1>3, <1>4, <3>2 DEF ByTenant
      <3> QED BY <2>1, <3>3, <3>4, OneMoreFits
    <2> QED BY <2>2, <2>3
  <1>8. LimitsHeld'
    BY <1>1, <1>2, <1>6, <1>7 DEF LimitFacts, RecordsWithinMax
  <1>9. ASSUME NEW p \in Pools, NEW b \in Backends, NEW c \in Classes,
               \/ world.after = 0
               \/ \A k \in Classes : world.weight[k] <= world.weight[c] => LaneRoom(b, k) > 0
        PROVE  Cardinality(ByLane(p, b, c)') <= LaneRoom(b, c)
    <2>1. /\ IsFiniteSet(ByLane(p, b, c)) /\ IsFiniteSet(ByPool(p, b))
          /\ Cardinality(ByLane(p, b, c)) <= LaneRoom(b, c)
      BY <1>1, <1>9 DEF LimitFacts
    <2>2. LaneRoom(b, c) = EffectiveMaxRunners(b, c) /\ LaneRoom(b, c) \in Nat
      BY <1>5, LaneFacts
    <2>3. CASE ByLane(p, b, c)' \subseteq ByLane(p, b, c)
      BY <2>1, <2>2, <2>3, PartFits
    <2>4. CASE ~(ByLane(p, b, c)' \subseteq ByLane(p, b, c))
      <3>1. PICK r \in ByLane(p, b, c)' : r \notin ByLane(p, b, c)
        BY <2>4
      <3>2. /\ r \in Live /\ Pool(r) = p /\ thr[r].be = b /\ ~Accounted(r)
            /\ r \in R /\ capacityAllowed(r) /\ thr[r].pc = "save"
            /\ world.weight[Class(r)] <= world.weight[c] /\ Class(r) \in Classes
        BY <1>2, <1>3, <1>4, <1>5, <3>1 DEF ByLane
      <3>3. /\ EffectiveMaxRunners(b, Class(r)) \in Nat
            /\ LaneRoom(b, Class(r)) = EffectiveMaxRunners(b, Class(r))
            /\ EffectiveMaxRunners(b, Class(r)) <= LaneRoom(b, c)
        BY <1>5, <2>2, <3>2, LaneFacts
      <3>4. EffectiveMaxRunners(b, Class(r)) > 0
        BY <1>9, <3>2, <3>3 DEF LaneInv
      <3>5. Cardinality(ByPool(p, b)) < EffectiveMaxRunners(b, Class(r))
        BY <1>1, <3>2, <3>3, <3>4 DEF LimitFacts
      <3>6. Cardinality(ByPool(p, b)) \in Nat
        BY <2>1, FS_CardinalityType
      <3>7. Cardinality(ByPool(p, b)) < LaneRoom(b, c)
        BY <2>2, <3>3, <3>5, <3>6
      <3>8. ByLane(p, b, c)' \subseteq ByPool(p, b) \cup {r}
        BY <1>2, <1>3, <1>4, <3>2 DEF ByLane, ByPool
      <3> QED BY <2>1, <2>2, <3>7, <3>8, OneMoreFits
    <2> QED BY <2>3, <2>4
  <1>10. ASSUME NEW b, NEW c PROVE LaneRoom(b, c)' = LaneRoom(b, c)
    BY <1>2, RoomKept
  <1>11. LaneKept'
    <2>1. \A p \in Pools, b \in Backends, c \in Classes :
            (\/ world'.after = 0
             \/ \A k \in Classes : world'.weight[k] <= world'.weight[c] => LaneRoom(b, k)' > 0)
            => Cardinality(ByLane(p, b, c)') <= LaneRoom(b, c)'
      BY <1>2, <1>9, <1>10
    <2>2. LimitFacts'
      BY <1>1
    <2> QED BY <2>1, <2>2 DEF LimitFacts
  <1> QED BY <1>8, <1>11

\* A step of a request keeps the invariant.
LEMMA RequestKeepsInv ==
    ASSUME Inv, NEW r \in Live, RequestStep(r)
    PROVE  Inv'
  <1> USE DEF Inv
  <1>1. TypeInv' /\ HeldMatchesActive' /\ WithinMax'
    BY RequestTypes, RequestSlots
  <1>2. PICK v \in Threads, s \in RecStates :
          Rewrites(r, v, s) /\ AsksStore(r, v, s) /\ AsksLane(r, v)
    BY DEF RequestStep
  <1>3. /\ Live' = Live /\ world' = world
        /\ \A q \in Live : Pool(q)' = Pool(q) /\ Tenant(q)' = Tenant(q) /\ Class(q)' = Class(q)
        /\ thr'[r] = v /\ rec'[r] = s
        /\ \A q \in Live \ {r} : thr'[q] = thr[q] /\ rec'[q] = rec[q]
    BY <1>2, StepFacts
  <1>4. RecordsGrow({r})
    <2>1. ASSUME NEW q \in Live, Accounted(q)'
          PROVE  /\ thr'[q].be = thr[q].be
                 /\ Accounted(q) \/ (q \in {r} /\ thr[q].pc = "save" /\ capacityAllowed(q))
      <3>1. CASE q = r
        <4>1. s \in {"reserved", "ready"}
          BY <1>3, <2>1, <3>1 DEF Accounted
        <4> QED BY <1>2, <1>3, <3>1, <4>1 DEF AsksStore
      <3>2. CASE q # r
        BY <1>3, <2>1, <3>2 DEF Accounted
      <3> QED BY <3>1, <3>2
    <2> QED BY <1>3, <2>1 DEF RecordsGrow
  <1>5. RecordsWithinMax'
    BY <1>1, SlotsCoverRecords, PTL
  <1>6. \A q1, q2 \in {r} : q1 = q2
    OBVIOUS
  <1>7. LimitsHeld' /\ LaneKept'
    BY <1>1, <1>4, <1>5, <1>6, GrowKeepsLimits
  <1>8. LaneInv'
    <2> SUFFICES ASSUME NEW q \in Live, world.after = 0, thr'[q].pc \in {"admit", "save"}
                 PROVE  EffectiveMaxRunners(thr'[q].be, Class(q)) > 0
      <3>1. \A b, c : EffectiveMaxRunners(b, c)' = EffectiveMaxRunners(b, c)
        BY <1>3, RoomKept
      <3> QED BY <1>3, <3>1 DEF LaneInv
    <2>1. CASE q = r
      <3>1. v.pc \in {"admit", "save"} /\ thr'[q].be = v.be
        BY <1>3, <2>1
      <3> QED BY <1>2, <2>1, <3>1 DEF AsksLane, LaneInv
    <2>2. CASE q # r
      BY <1>3, <2>2 DEF LaneInv
    <2> QED BY <2>1, <2>2
  <1> QED BY <1>1, <1>7, <1>8

\* A restart counts the ready records, keeps them and drops the rest.
LEMMA RestartKeepsInv ==
    ASSUME Inv, Restart
    PROVE  Inv'
  <1> USE DEF Inv
  <1>1. /\ world' = world
        /\ rec' = [r \in Requests |-> IF rec[r] = "ready" THEN "ready" ELSE "none"]
        /\ thr' = [r \in Requests |-> IF rec[r] = "ready" THEN At("live", {}, None, thr[r].be)
                                      ELSE Idle]
        /\ active' = [p \in Pools |-> [b \in Backends |->
             Cardinality({r \in Live : rec[r] = "ready" /\ Pool(r) = p /\ thr[r].be = b})]]
    BY DEF Restart
  <1>2. /\ Live' = Live /\ Live \subseteq Requests
        /\ \A q \in Live : Pool(q)' = Pool(q) /\ Tenant(q)' = Tenant(q) /\ Class(q)' = Class(q)
    BY <1>1, GateFacts DEF Live, Pool, Tenant, Class
  <1>3. ASSUME NEW q \in Requests
        PROVE  /\ thr'[q] \in Threads /\ rec'[q] \in RecStates /\ Fits(thr'[q], rec'[q])
               /\ thr'[q].pc \in {"idle", "live"}
               /\ rec'[q] \in {"none", "ready"} /\ (rec'[q] = "ready" <=> rec[q] = "ready")
               /\ rec[q] = "ready" => thr'[q].be = thr[q].be
    <2>1. CASE rec[q] = "ready"
      <3>1. thr[q].pc \in PCs /\ Fits(thr[q], rec[q]) /\ thr[q].be \in Backends \cup {None}
        BY ThreadFacts DEF TypeInv
      <3>2. thr[q].be \in Backends
        BY <2>1, <3>1 DEF Fits, PCs
      <3> DEFINE v == At("live", {}, None, thr[q].be)
      <3>3. v \in Threads /\ v.pc = "live" /\ v.be = thr[q].be
        BY <3>2, AtFacts DEF PCs
      <3>4. thr'[q] = v /\ rec'[q] = "ready"
        BY <1>1, <2>1
      <3> HIDE DEF v
      <3>5. Fits(v, "ready")
        BY <3>2, <3>3 DEF Fits
      <3> QED BY <2>1, <3>3, <3>4, <3>5 DEF RecStates
    <2>2. CASE rec[q] # "ready"
      <3>1. thr'[q] = Idle /\ rec'[q] = "none"
        BY <1>1, <2>2
      <3> QED BY <2>2, <3>1, IdleFacts DEF RecStates
    <2> QED BY <2>1, <2>2
  <1>4. thr' \in [Requests -> Threads] /\ rec' \in [Requests -> RecStates]
    <2>1. thr' = [q \in Requests |-> thr'[q]] /\ rec' = [q \in Requests |-> rec'[q]]
      BY <1>1
    <2> QED BY <1>3, <2>1
  <1> DEFINE Ready(p, b) == {r \in Live : rec[r] = "ready" /\ Pool(r) = p /\ thr[r].be = b}
  <1>5. ASSUME NEW p \in Pools, NEW b \in Backends
        PROVE  /\ IsFiniteSet(Ready(p, b)) /\ Cardinality(Ready(p, b)) \in Nat
               /\ active'[p][b] = Cardinality(Ready(p, b))
               /\ Cardinality(Ready(p, b)) <= world.max[b]
    <2>1. IsFiniteSet(Holders(p, b)) /\ world.max[b] \in Nat
      BY HoldersFacts, GateFacts
    <2>2. Ready(p, b) \subseteq Holders(p, b)
      BY DEF Holders, Holds, Accounted
    <2>3. Cardinality(Holders(p, b)) <= world.max[b]
      BY DEF HeldMatchesActive, WithinMax, Holders
    <2>4. active'[p][b] = Cardinality(Ready(p, b))
      BY <1>1
    <2> HIDE DEF Ready
    <2>5. IsFiniteSet(Ready(p, b))
      BY <2>1, <2>2, FS_Subset
    <2>6. Cardinality(Ready(p, b)) \in Nat
      BY <2>5, FS_CardinalityType
    <2> QED BY <2>1, <2>2, <2>3, <2>4, <2>5, <2>6, PartFits
  <1>6. active' \in [Pools -> [Backends -> Nat]]
    BY <1>1, <1>5
  <1>7. TypeInv'
    BY <1>1, <1>3, <1>4, <1>6 DEF TypeInv
  <1>8. \A p \in Pools, b \in Backends : Holders(p, b)' = Ready(p, b)
    BY <1>2, <1>3 DEF Holders, Holds, Accounted
  <1> HIDE DEF Ready
  <1>9. HeldMatchesActive'
    <2>1. \A p \in Pools, b \in Backends : active'[p][b] = Cardinality(Holders(p, b)')
      BY <1>5, <1>8
    <2> QED BY <2>1 DEF HeldMatchesActive, Holders
  <1>10. WithinMax'
    BY <1>1, <1>5 DEF WithinMax
  <1>11. RecordsGrow({})
    BY <1>1, <1>2, <1>3 DEF RecordsGrow, Accounted
  <1>12. RecordsWithinMax'
    BY <1>7, <1>9, <1>10, SlotsCoverRecords, PTL
  <1>13. LimitsHeld' /\ LaneKept'
    BY <1>7, <1>11, <1>12, GrowKeepsLimits
  <1>14. LaneInv'
    BY <1>2, <1>3 DEF LaneInv
  <1> QED BY <1>7, <1>9, <1>10, <1>13, <1>14

\* Probes, the end of a budget day and the clock do not touch slots or records.
LEMMA StillKeepsInv ==
    ASSUME Inv, UNCHANGED <<world, thr, rec, active>>
    PROVE  Inv'
  <1> USE DEF Inv
  <1>1. TypeInv'
    BY DEF TypeInv
  <1>2. /\ Live' = Live
        /\ \A q \in Live : Pool(q)' = Pool(q) /\ (Accounted(q)' <=> Accounted(q))
    BY DEF Live, Pool, Accounted
  <1>3. \A p \in Pools, b \in Backends : Holders(p, b)' = Holders(p, b)
    BY DEF Holders, Holds, Live, Pool, Accounted
  <1>4. HeldMatchesActive'
    BY <1>3 DEF HeldMatchesActive, Holders
  <1>5. WithinMax'
    BY DEF WithinMax
  <1>6. RecordsGrow({})
    BY <1>2 DEF RecordsGrow
  <1>7. RecordsWithinMax'
    BY <1>1, <1>4, <1>5, SlotsCoverRecords, PTL
  <1>8. LimitsHeld' /\ LaneKept'
    BY <1>1, <1>6, <1>7, GrowKeepsLimits
  <1>9. LaneInv'
    <2>1. \A b, c : EffectiveMaxRunners(b, c)' = EffectiveMaxRunners(b, c)
      BY RoomKept
    <2>2. \A q \in Live : Class(q)' = Class(q)
      BY DEF Class
    <2> QED BY <1>2, <2>1, <2>2 DEF LaneInv
  <1> QED BY <1>1, <1>4, <1>5, <1>8, <1>9

\* At the start nobody has anything.
LEMMA InitInv == Init => Inv
  <1> SUFFICES ASSUME Init PROVE Inv
    OBVIOUS
  <1>1. /\ world \in Worlds /\ thr = [r \in Requests |-> Idle] /\ rec = [r \in Requests |-> "none"]
        /\ active = [p \in Pools |-> [b \in Backends |-> 0]]
    BY DEF Init, FairInit
  <1>2. TypeInv
    BY <1>1, IdleFacts DEF TypeInv, RecStates
  <1>3. \A r \in Requests : rec[r] = "none" /\ thr[r].pc = "idle"
    BY <1>1, IdleFacts
  <1>4. Live \subseteq Requests /\ world.max \in [Backends -> Nat] /\ world.cross \in [Backends -> Nat]
        /\ world.quota \in [Tenants -> Nat]
    BY <1>2, GateFacts
  <1>5. \A p, b : Holders(p, b) = {}
    BY <1>3, <1>4 DEF Holders, Holds, Accounted
  <1>6. Cardinality({}) = 0
    BY FS_EmptySet
  <1>7. HeldMatchesActive
    BY <1>1, <1>5, <1>6 DEF HeldMatchesActive, Holders
  <1>8. WithinMax
    BY <1>1, <1>4 DEF WithinMax
  <1>9. LaneInv
    BY <1>3, <1>4 DEF LaneInv
  <1>10. \A p, b, t, c : /\ ByBackend(b) = {} /\ ByPool(p, b) = {} /\ ByTenant(p, t) = {}
                         /\ ByLane(p, b, c) = {}
    BY <1>3, <1>4 DEF ByBackend, ByPool, ByTenant, ByLane, Accounted
  <1>11. LimitFacts
    BY <1>2, LimitsInSets
  <1>12. LimitsHeld
    <2>1. \A b \in Backends : 0 <= world.cross[b] /\ 0 <= world.max[b]
      BY <1>4
    <2>2. \A t \in Tenants : 0 <= world.quota[t]
      BY <1>4
    <2> QED BY <1>6, <1>10, <1>11, <2>1, <2>2 DEF LimitFacts
  <1>13. \A b \in Backends, c \in Classes : 0 <= LaneRoom(b, c)
    <2> SUFFICES ASSUME NEW b \in Backends, NEW c \in Classes PROVE 0 <= LaneRoom(b, c)
      OBVIOUS
    <2>1. /\ EffectiveMaxRunners(b, c) \in 0 .. world.max[b] /\ world.max[b] \in Nat
          /\ LaneRoom(b, c) = EffectiveMaxRunners(b, c)
      BY <1>2, <1>4, LaneFacts
    <2> QED BY <2>1
  <1>14. LaneKept
    BY <1>6, <1>10, <1>11, <1>13 DEF LimitFacts
  <1> QED BY <1>2, <1>7, <1>8, <1>9, <1>12, <1>14 DEF Inv

\* Every step keeps the invariant.
LEMMA StepInv == Inv /\ [Next]_vars => Inv'
  <1> SUFFICES ASSUME Inv, [Next]_vars PROVE Inv'
    OBVIOUS
  <1>1. ASSUME NEW r \in Live, Filter(r) \/ Step(r) \/ Cancel(r) \/ Finish(r) PROVE Inv'
    BY <1>1, RequestSteps, RequestKeepsInv DEF Inv
  <1>2. ASSUME NEW k \in Keys, Probe(k) PROVE Inv'
    BY <1>2, StillKeepsInv DEF Probe, fairVars
  <1>3. CASE Restart
    BY <1>3, RestartKeepsInv
  <1>4. CASE NewDay
    BY <1>4, StillKeepsInv DEF NewDay, fairVars
  <1>5. CASE Tick
    BY <1>5, StillKeepsInv DEF Tick, FairTick
  <1>6. CASE UNCHANGED vars
    BY <1>6, StillKeepsInv DEF vars, fairVars
  <1> QED BY <1>1, <1>2, <1>3, <1>4, <1>5, <1>6 DEF Next

\* The invariant holds of every behaviour.
LEMMA AlwaysInv == Spec => []Inv
  BY InitInv, StepInv, PTL DEF Spec

\* For any pools, backends, requests and configuration: the scheduler's count of
\* a backend is the number of requests that hold a slot there, through every
\* refusal, failed launch, cancel, completion and restart of allocateNow.
THEOREM SlotsAreCounted == Spec => []HeldMatchesActive
  <1>1. Inv => HeldMatchesActive
    BY DEF Inv
  <1> QED BY <1>1, AlwaysInv, PTL

\* For any configuration the stored runners respect maxRunners, the cross-pool
\* limits and the tenant quotas, although releases without a tenant let the
\* scheduler's tenant counts drift and SaveIfCapacity reads 0 as no limit.
THEOREM LimitsAreKept == Spec => []LimitsHeld
  <1>1. Inv => LimitsHeld
    BY DEF Inv
  <1> QED BY <1>1, AlwaysInv, PTL

\* For any lanes, weights and soft reserves the runners of a lane and of those
\* below it leave the reserve of the lanes above alone.
THEOREM LanesAreKept == Spec => []LaneKept
  <1>1. Inv => LaneKept
    BY DEF Inv
  <1> QED BY <1>1, AlwaysInv, PTL

-----------------------------------------------------------------------------
(* The daily budget.                                                        *)

\* A thread at v may still launch on b.
Flying(v, b) ==
    /\ v.pc \in {"reserve", "admit", "save", "provision", "commit"}
    /\ b \in v.S \cup {v.be}

\* The launches on the way to a backend, and those made but not yet charged.
InFlight(k) == {r \in Live : Pool(r) = k[1] /\ Flying(thr[r], k[2])}
Uncharged(k) == {r \in Live : Pool(r) = k[1] /\ thr[r].pc = "record" /\ thr[r].be = k[2]}

\* A launch is on its way only while there is one request for each that the
\* budget was not yet charged for when it was let through.
BudgetInv ==
    /\ launched \in [Keys -> Nat] /\ budget \in [Keys -> Nat]
    /\ \A k \in Keys : world.budget[k[2]] > 0 =>
         /\ launched[k] <= budget[k] + Cardinality(Uncharged(k))
         /\ launched[k] + Cardinality(InFlight(k)) < world.budget[k[2]] + Cardinality(Live)

\* The budget does not survive what it does not meet: a restart between the
\* commit and the charge forgets the charge.
NoRestartsOnBudget ==
    \A w \in Worlds : "restart" \notin w.faults \/ \A b \in Backends : w.budget[b] = 0

\* A request is in flight or uncharged, not both.
LEMMA InFlightFacts ==
    ASSUME TypeInv, NEW k \in Keys
    PROVE  /\ IsFiniteSet(Live) /\ Cardinality(Live) \in Nat
           /\ IsFiniteSet(InFlight(k)) /\ Cardinality(InFlight(k)) \in Nat
           /\ IsFiniteSet(Uncharged(k)) /\ Cardinality(Uncharged(k)) \in Nat
           /\ k[1] \in Pools /\ k[2] \in Backends /\ k = <<k[1], k[2]>>
           /\ world.budget[k[2]] \in Nat
  <1>1. k[1] \in Pools /\ k[2] \in Backends /\ k = <<k[1], k[2]>>
    BY GateAssumption
  <1>2. IsFiniteSet(Live) /\ world.budget[k[2]] \in Nat
    BY <1>1, GateFacts, GateAssumption, FS_Subset
  <1>3. InFlight(k) \subseteq Live /\ Uncharged(k) \subseteq Live
    BY DEF InFlight, Uncharged
  <1>4. IsFiniteSet(InFlight(k)) /\ IsFiniteSet(Uncharged(k))
    BY <1>2, <1>3, FS_Subset
  <1> QED BY <1>1, <1>2, <1>4, FS_CardinalityType

\* Two parts of a finite set without common elements.
LEMMA PartsFit ==
    ASSUME NEW L, IsFiniteSet(L), NEW A \in SUBSET L, NEW B \in SUBSET L, A \cap B = {}
    PROVE  Cardinality(A) + Cardinality(B) <= Cardinality(L)
  <1>1. IsFiniteSet(A) /\ IsFiniteSet(B) /\ IsFiniteSet(A \cup B)
    BY FS_Subset
  <1>2. Cardinality(A \cup B) = Cardinality(A) + Cardinality(B)
    <2>1. Cardinality(A \cup B)
            = Cardinality(A) + Cardinality(B) - Cardinality(A \cap B)
      BY <1>1, FS_Union
    <2>2. Cardinality(A \cap B) = 0
      BY FS_EmptySet
    <2>3. Cardinality(A) \in Nat /\ Cardinality(B) \in Nat
      BY <1>1, FS_CardinalityType
    <2> QED BY <2>1, <2>2, <2>3
  <1>3. A \cup B \subseteq L
    OBVIOUS
  <1>4. Cardinality(A \cup B) <= Cardinality(L)
    BY <1>3, FS_Subset
  <1> QED BY <1>2, <1>4

\* A step on the way: no new launch possible, none made, none charged.
BudgetStill(r) ==
    \E v \in Threads :
        /\ thr' = [thr EXCEPT ![r] = v] /\ UNCHANGED <<world, budget, launched>>
        /\ v.pc # "record" /\ thr[r].pc # "record"
        /\ \A b \in Backends : Flying(v, b) => Flying(thr[r], b)

\* Such a step keeps the budget's invariant.
LEMMA BudgetStillKeeps ==
    ASSUME TypeInv, BudgetInv, NEW r \in Live, BudgetStill(r)
    PROVE  BudgetInv'
  <1>1. PICK v \in Threads :
          /\ thr' = [thr EXCEPT ![r] = v] /\ UNCHANGED <<world, budget, launched>>
          /\ v.pc # "record" /\ thr[r].pc # "record"
          /\ \A b \in Backends : Flying(v, b) => Flying(thr[r], b)
    BY DEF BudgetStill
  <1>2. Live' = Live /\ \A q \in Live : Pool(q)' = Pool(q)
    BY <1>1 DEF Live, Pool
  <1>3. thr'[r] = v /\ \A q \in Live \ {r} : thr'[q] = thr[q]
    BY <1>1, GateFacts DEF TypeInv
  <1>4. ASSUME NEW k \in Keys
        PROVE  /\ Uncharged(k)' = Uncharged(k)
               /\ Cardinality(InFlight(k)') <= Cardinality(InFlight(k))
               /\ Cardinality(InFlight(k)') \in Nat
    <2>1. Uncharged(k)' = Uncharged(k)
      BY <1>1, <1>2, <1>3 DEF Uncharged
    <2>2. /\ k[2] \in Backends /\ IsFiniteSet(InFlight(k))
      BY InFlightFacts
    <2>3. InFlight(k)' \subseteq InFlight(k)
      BY <1>1, <1>2, <1>3, <2>2 DEF InFlight
    <2>4. /\ Cardinality(InFlight(k)') <= Cardinality(InFlight(k)) /\ IsFiniteSet(InFlight(k)')
      BY <2>2, <2>3, FS_Subset
    <2> QED BY <2>1, <2>4, FS_CardinalityType
  <1>5. ASSUME NEW k \in Keys, world.budget[k[2]] > 0
        PROVE  /\ launched[k] <= budget[k] + Cardinality(Uncharged(k)')
               /\ launched[k] + Cardinality(InFlight(k)') < world.budget[k[2]] + Cardinality(Live)
    <2>1. /\ launched[k] \in Nat /\ budget[k] \in Nat
          /\ launched[k] <= budget[k] + Cardinality(Uncharged(k))
          /\ launched[k] + Cardinality(InFlight(k)) < world.budget[k[2]] + Cardinality(Live)
      BY <1>5 DEF BudgetInv
    <2>2. /\ Cardinality(Live) \in Nat /\ Cardinality(InFlight(k)) \in Nat
          /\ world.budget[k[2]] \in Nat
      BY InFlightFacts
    <2> QED BY <1>4, <2>1, <2>2
  <1> QED BY <1>1, <1>2, <1>5 DEF BudgetInv

\* Every step of a request but the filter, the commit and the charge.
LEMMA BudgetSteps ==
    ASSUME TypeInv, NEW r \in Live,
           \/ Reserve(r) \/ ReserveFails(r) \/ Admit(r) \/ DenyCircuitOpen(r)
           \/ DenyRateLimited(r) \/ SaveReserved(r) \/ SaveRefused(r) \/ Provision(r)
           \/ ProvisionFails(r) \/ CommitCanceled(r) \/ Cancel(r) \/ Finish(r)
    PROVE  BudgetStill(r)
  <1>0. r \in Requests /\ Fits(thr[r], rec[r]) /\ None \notin Backends
    BY GateFacts, GateAssumption DEF TypeInv
  <1>1. /\ thr[r] \in Threads /\ thr[r].S \subseteq Backends
        /\ thr[r].pin \in Backends \cup {None} /\ thr = [thr EXCEPT ![r] = thr[r]]
    BY <1>0, ThreadFacts
  \* The thread leaves.
  <1>2. ASSUME Leave(r), thr[r].pc # "record", UNCHANGED <<world, budget, launched>>
        PROVE  BudgetStill(r)
    <2>1. thr' = [thr EXCEPT ![r] = Idle] /\ Idle \in Threads /\ Idle.pc = "idle"
      BY <1>2, IdleFacts DEF Leave
    <2>2. \A b : ~Flying(Idle, b)
      BY <2>1 DEF Flying
    <2> QED BY <1>2, <2>1, <2>2 DEF BudgetStill
  \* The thread goes on where it is.
  <1>3. ASSUME NEW pc \in PCs \ {"record"}, Goto(r, pc), UNCHANGED <<world, budget, launched>>,
               thr[r].pc \in {"reserve", "admit", "save", "provision", "commit"}
        PROVE  BudgetStill(r)
    <2> DEFINE v == [thr[r] EXCEPT !.pc = pc]
    <2>1. /\ v \in Threads /\ v.pc = pc /\ v.be = thr[r].be /\ v.S = thr[r].S
          /\ thr' = [thr EXCEPT ![r] = v]
      BY <1>0, <1>3, ThreadFacts
    <2> HIDE DEF v
    <2>2. \A b \in Backends : Flying(v, b) => Flying(thr[r], b)
      BY <1>3, <2>1 DEF Flying
    <2> QED BY <1>3, <2>1, <2>2 DEF BudgetStill
  \* The thread selects among what is left.
  <1>4. ASSUME TryOthers(r), UNCHANGED <<world, budget, launched>>,
               thr[r].pc \in {"reserve", "admit", "save", "provision", "commit"}
        PROVE  BudgetStill(r)
    <2>1. PICK v \in Threads : /\ thr' = [thr EXCEPT ![r] = v]
                               /\ v.pc \in {"idle", "reserve"} /\ v.be = None
                               /\ v.S \subseteq thr[r].S
      BY <1>0, <1>4, TryOthersFacts
    <2>2. \A b \in Backends : Flying(v, b) => Flying(thr[r], b)
      BY <1>0, <1>4, <2>1 DEF Flying
    <2> QED BY <1>4, <2>1, <2>2 DEF BudgetStill
  <1>5. CASE Reserve(r)
    <2>1. PICK b \in thr[r].S : Selected(r, b)
      BY <1>5 DEF Reserve
    <2> DEFINE v == At("admit", thr[r].S, thr[r].pin, b)
    <2>2. /\ thr' = [thr EXCEPT ![r] = v] /\ thr[r].pc = "reserve"
          /\ UNCHANGED <<world, budget, launched>> /\ b \in Backends
      BY <1>1, <1>5, <2>1 DEF Reserve, Selected, admissionVars
    <2>3. v \in Threads /\ v.pc = "admit" /\ v.be = b /\ v.S = thr[r].S
      BY <1>1, <2>2, AtFacts DEF PCs
    <2> HIDE DEF v
    <2>4. \A x \in Backends : Flying(v, x) => Flying(thr[r], x)
      BY <2>1, <2>2, <2>3 DEF Flying
    <2> QED BY <2>2, <2>3, <2>4 DEF BudgetStill
  <1>6. CASE ReserveFails(r)
    BY <1>2, <1>6 DEF ReserveFails, admissionVars
  <1>7. CASE Admit(r)
    BY <1>3, <1>7 DEF Admit, PCs
  <1>8. CASE DenyCircuitOpen(r)
    BY <1>2, <1>8 DEF DenyCircuitOpen, admissionVars
  <1>9. CASE DenyRateLimited(r)
    BY <1>4, <1>9 DEF DenyRateLimited
  <1>10. CASE SaveReserved(r)
    BY <1>3, <1>10 DEF SaveReserved, PCs, admissionVars
  <1>11. CASE SaveRefused(r)
    BY <1>2, <1>11 DEF SaveRefused, admissionVars
  <1>12. CASE Provision(r)
    BY <1>3, <1>12 DEF Provision, PCs, admissionVars
  <1>13. CASE ProvisionFails(r)
    <2>1. /\ thr[r].pc = "provision" /\ UNCHANGED <<world, budget, launched>>
          /\ TryOthers(r) \/ Leave(r)
      BY <1>13 DEF ProvisionFails
    <2> QED BY <1>2, <1>4, <2>1
  <1>14. CASE CommitCanceled(r)
    BY <1>2, <1>14 DEF CommitCanceled, admissionVars
  <1>15. CASE Cancel(r)
    <2>1. /\ thr' = [thr EXCEPT ![r] = thr[r]] /\ UNCHANGED <<world, budget, launched>>
          /\ thr[r].pc # "record"
      BY <1>0, <1>1, <1>15 DEF Cancel, admissionVars, Fits
    <2> QED BY <1>1, <2>1 DEF BudgetStill
  <1>16. CASE Finish(r)
    BY <1>2, <1>16 DEF Finish
  <1> QED
    BY <1>5, <1>6, <1>7, <1>8, <1>9, <1>10, <1>11, <1>12, <1>13, <1>14, <1>15, <1>16

\* The filter lets a launch through only while the budget is not used up, and
\* whoever is on the way then is not among those that wait to be charged.
LEMMA FilterKeepsBudget ==
    ASSUME TypeInv, BudgetInv, NEW r \in Live, Filter(r)
    PROVE  BudgetInv'
  <1>0. r \in Requests /\ None \notin Backends
    BY GateFacts, GateAssumption
  <1>1. /\ thr[r] \in Threads /\ thr = [thr EXCEPT ![r] = thr[r]]
        /\ thr[r].pc = "idle" /\ UNCHANGED <<world, budget, launched>>
    BY <1>0, ThreadFacts DEF Filter
  <1>2. CASE ~PassesFilters(r)
    <2>1. thr' = [thr EXCEPT ![r] = thr[r]]
      BY <1>1, <1>2 DEF Filter
    <2>2. BudgetStill(r)
      BY <1>1, <2>1 DEF BudgetStill
    <2> QED BY <2>2, BudgetStillKeeps
  <1>3. CASE PassesFilters(r)
    <2> DEFINE S == Filtered(r)
               v == At("reserve", S, FilteredPin(r), None)
    <2>1. thr' = [thr EXCEPT ![r] = v]
      BY <1>3 DEF Filter
    <2>2. S \in SUBSET Backends /\ FilteredPin(r) \in Backends \cup {None}
      BY GateFacts DEF Filtered, Admissible, FilteredPin
    <2>3. \A b \in S : world.budget[b] > 0 => budget[<<Pool(r), b>>] < world.budget[b]
      <3> SUFFICES ASSUME NEW b \in S, world.budget[b] > 0
                   PROVE  budget[<<Pool(r), b>>] < world.budget[b]
        OBVIOUS
      <3>1. budgetAllows(<<Pool(r), b>>, world.budget[b])
        BY DEF Filtered, InBudget
      <3> QED BY <3>1 DEF budgetAllows
    <2> HIDE DEF S
    <2>4. v \in Threads /\ v.pc = "reserve" /\ v.S = S /\ v.be = None
      BY <2>2, ReselectingFacts
    <2> HIDE DEF v
    <2>5. Live' = Live /\ \A q \in Live : Pool(q)' = Pool(q)
      BY <1>1 DEF Live, Pool
    <2>6. thr'[r] = v /\ \A q \in Live \ {r} : thr'[q] = thr[q]
      BY <2>1, GateFacts DEF TypeInv
    <2>7. ASSUME NEW k \in Keys, world.budget[k[2]] > 0
          PROVE  /\ launched[k] <= budget[k] + Cardinality(Uncharged(k)')
                 /\ launched[k] + Cardinality(InFlight(k)') < world.budget[k[2]] + Cardinality(Live)
      <3>1. Uncharged(k)' = Uncharged(k)
        BY <1>1, <2>4, <2>5, <2>6 DEF Uncharged
      <3>2. /\ launched[k] \in Nat /\ budget[k] \in Nat
            /\ launched[k] <= budget[k] + Cardinality(Uncharged(k))
            /\ launched[k] + Cardinality(InFlight(k)) < world.budget[k[2]] + Cardinality(Live)
        BY <2>7 DEF BudgetInv
      <3>3. /\ IsFiniteSet(Live) /\ Cardinality(Live) \in Nat
            /\ IsFiniteSet(InFlight(k)) /\ Cardinality(InFlight(k)) \in Nat
            /\ Cardinality(Uncharged(k)) \in Nat /\ world.budget[k[2]] \in Nat
            /\ k[2] \in Backends /\ k = <<k[1], k[2]>>
        BY InFlightFacts
      <3>4. InFlight(k)' \in SUBSET Live
        BY <2>5 DEF InFlight
      <3>5. IsFiniteSet(InFlight(k)') /\ Cardinality(InFlight(k)') \in Nat
        BY <3>3, <3>4, FS_Subset, FS_CardinalityType
      <3>6. CASE k[1] = Pool(r) /\ k[2] \in S
        <4>1. budget[k] < world.budget[k[2]]
          BY <2>3, <2>7, <3>3, <3>6
        <4>2. InFlight(k)' \cap Uncharged(k) = {}
          BY <1>1, <2>5, <2>6 DEF InFlight, Uncharged, Flying
        <4>3. Uncharged(k) \in SUBSET Live
          BY DEF Uncharged
        <4>4. Cardinality(InFlight(k)') + Cardinality(Uncharged(k)) <= Cardinality(Live)
          BY <3>3, <3>4, <4>2, <4>3, PartsFit
        <4> QED BY <3>1, <3>2, <3>3, <3>5, <4>1, <4>4
      <3>7. CASE ~(k[1] = Pool(r) /\ k[2] \in S)
        <4>1. InFlight(k)' \subseteq InFlight(k)
          BY <1>0, <2>4, <2>5, <2>6, <3>3, <3>7 DEF InFlight, Flying
        <4>2. Cardinality(InFlight(k)') <= Cardinality(InFlight(k))
          BY <3>3, <4>1, FS_Subset
        <4> QED BY <3>1, <3>2, <3>3, <3>5, <4>2
      <3> QED BY <3>6, <3>7
    <2> QED BY <1>1, <2>5, <2>7 DEF BudgetInv
  <1> QED BY <1>2, <1>3

\* A launch that becomes ready was on the way and now waits to be charged.
LEMMA CommitKeepsBudget ==
    ASSUME TypeInv, BudgetInv, NEW r \in Live, Commit(r)
    PROVE  BudgetInv'
  <1> DEFINE v == [thr[r] EXCEPT !.pc = "record"]
             key == Key(r)
  <1>0. r \in Requests /\ Pool(r) \in Pools
    BY GateFacts
  <1>1. /\ thr[r].pc = "commit" /\ Goto(r, "record") /\ UNCHANGED <<world, budget>>
        /\ launched' = [launched EXCEPT ![key] = IF world.budget[thr[r].be] > 0 THEN @ + 1 ELSE 0]
    BY DEF Commit
  <1>2. v.pc = "record" /\ v.be = thr[r].be /\ thr' = [thr EXCEPT ![r] = v]
    BY <1>0, <1>1, ThreadFacts DEF PCs
  <1>3. key[1] = Pool(r) /\ key[2] = thr[r].be /\ thr[r].be \in Backends /\ key \in Keys
    <2>1. thr[r].be \in Backends
      BY <1>0, <1>1 DEF TypeInv, Fits
    <2> QED BY <1>0, <2>1, GateAssumption DEF Key
  <1> HIDE DEF v, key
  <1>4. Live' = Live /\ \A q \in Live : Pool(q)' = Pool(q)
    BY <1>1 DEF Live, Pool
  <1>5. thr'[r] = v /\ \A q \in Live \ {r} : thr'[q] = thr[q]
    BY <1>0, <1>2, GateFacts DEF TypeInv
  <1>6. launched \in [Keys -> Nat] /\ budget \in [Keys -> Nat]
    BY DEF BudgetInv
  <1>7. launched' \in [Keys -> Nat]
    BY <1>1, <1>3, <1>6
  <1>8. ASSUME NEW k \in Keys, world.budget[k[2]] > 0
        PROVE  /\ launched'[k] <= budget[k] + Cardinality(Uncharged(k)')
               /\ launched'[k] + Cardinality(InFlight(k)') < world.budget[k[2]] + Cardinality(Live)
    <2>1. /\ launched[k] \in Nat /\ budget[k] \in Nat
          /\ launched[k] <= budget[k] + Cardinality(Uncharged(k))
          /\ launched[k] + Cardinality(InFlight(k)) < world.budget[k[2]] + Cardinality(Live)
      BY <1>8 DEF BudgetInv
    <2>2. /\ Cardinality(Live) \in Nat
          /\ IsFiniteSet(InFlight(k)) /\ Cardinality(InFlight(k)) \in Nat
          /\ IsFiniteSet(Uncharged(k)) /\ Cardinality(Uncharged(k)) \in Nat
          /\ world.budget[k[2]] \in Nat /\ k = <<k[1], k[2]>>
      BY InFlightFacts
    <2>3. CASE k = key
      <3>1. launched'[k] = launched[k] + 1
        BY <1>1, <1>3, <1>6, <1>8, <2>3
      <3>2. r \in InFlight(k) /\ r \notin Uncharged(k)
        BY <1>1, <1>3, <2>3 DEF InFlight, Uncharged, Flying
      <3>3. InFlight(k)' = InFlight(k) \ {r}
        BY <1>2, <1>4, <1>5 DEF InFlight, Flying
      <3>4. Uncharged(k)' = Uncharged(k) \cup {r}
        BY <1>2, <1>3, <1>4, <1>5, <2>3 DEF Uncharged
      <3>5. Cardinality(InFlight(k)') = Cardinality(InFlight(k)) - 1
        BY <2>2, <3>2, <3>3, FS_RemoveElement
      <3>6. Cardinality(Uncharged(k)') = Cardinality(Uncharged(k)) + 1
        BY <2>2, <3>2, <3>4, FS_AddElement
      <3> QED BY <2>1, <2>2, <3>1, <3>5, <3>6
    <2>4. CASE k # key
      <3>1. launched'[k] = launched[k]
        BY <1>1, <1>6, <2>4
      <3>2. ~(k[1] = Pool(r) /\ k[2] = thr[r].be)
        BY <2>2, <2>4 DEF key, Key
      <3>3. InFlight(k)' \subseteq InFlight(k)
        BY <1>2, <1>4, <1>5 DEF InFlight, Flying
      <3>4. Uncharged(k)' = Uncharged(k)
        BY <1>1, <1>2, <1>4, <1>5, <3>2 DEF Uncharged
      <3>5. Cardinality(InFlight(k)') <= Cardinality(InFlight(k)) /\ IsFiniteSet(InFlight(k)')
        BY <2>2, <3>3, FS_Subset
      <3>6. Cardinality(InFlight(k)') \in Nat
        BY <3>5, FS_CardinalityType
      <3> QED BY <2>1, <2>2, <3>1, <3>4, <3>5, <3>6
    <2> QED BY <2>3, <2>4
  <1> QED BY <1>1, <1>4, <1>6, <1>7, <1>8 DEF BudgetInv

\* The charge takes a request off the list of those that wait for it.
LEMMA ChargeKeepsBudget ==
    ASSUME TypeInv, BudgetInv, NEW r \in Live, recordBudgetUsage(r)
    PROVE  BudgetInv'
  <1> DEFINE v == [thr[r] EXCEPT !.pc = "live"]
             key == Key(r)
  <1>0. r \in Requests /\ Pool(r) \in Pools
    BY GateFacts
  <1>1. /\ thr[r].pc = "record" /\ Goto(r, "live") /\ UNCHANGED <<world, launched>>
        /\ budget' = [budget EXCEPT ![key] = IF world.budget[thr[r].be] > 0 THEN @ + 1 ELSE 0]
    BY DEF recordBudgetUsage
  <1>2. v.pc = "live" /\ v.be = thr[r].be /\ thr' = [thr EXCEPT ![r] = v]
    BY <1>0, <1>1, ThreadFacts DEF PCs
  <1>3. key[1] = Pool(r) /\ key[2] = thr[r].be /\ thr[r].be \in Backends /\ key \in Keys
    <2>1. thr[r].be \in Backends
      BY <1>0, <1>1 DEF TypeInv, Fits
    <2> QED BY <1>0, <2>1, GateAssumption DEF Key
  <1> HIDE DEF v, key
  <1>4. Live' = Live /\ \A q \in Live : Pool(q)' = Pool(q)
    BY <1>1 DEF Live, Pool
  <1>5. thr'[r] = v /\ \A q \in Live \ {r} : thr'[q] = thr[q]
    BY <1>0, <1>2, GateFacts DEF TypeInv
  <1>6. launched \in [Keys -> Nat] /\ budget \in [Keys -> Nat]
    BY DEF BudgetInv
  <1>7. budget' \in [Keys -> Nat]
    BY <1>1, <1>3, <1>6
  <1>8. ASSUME NEW k \in Keys, world.budget[k[2]] > 0
        PROVE  /\ launched[k] <= budget'[k] + Cardinality(Uncharged(k)')
               /\ launched[k] + Cardinality(InFlight(k)') < world.budget[k[2]] + Cardinality(Live)
    <2>1. /\ launched[k] \in Nat /\ budget[k] \in Nat
          /\ launched[k] <= budget[k] + Cardinality(Uncharged(k))
          /\ launched[k] + Cardinality(InFlight(k)) < world.budget[k[2]] + Cardinality(Live)
      BY <1>8 DEF BudgetInv
    <2>2. /\ IsFiniteSet(Uncharged(k)) /\ Cardinality(Uncharged(k)) \in Nat
          /\ k = <<k[1], k[2]>>
      BY InFlightFacts
    <2>3. InFlight(k)' = InFlight(k)
      BY <1>1, <1>2, <1>4, <1>5 DEF InFlight, Flying
    <2>4. CASE k = key
      <3>1. budget'[k] = budget[k] + 1
        BY <1>1, <1>3, <1>6, <1>8, <2>4
      <3>2. r \in Uncharged(k)
        BY <1>1, <1>3, <2>4 DEF Uncharged
      <3>3. Uncharged(k)' = Uncharged(k) \ {r}
        BY <1>2, <1>4, <1>5 DEF Uncharged
      <3>4. Cardinality(Uncharged(k)') = Cardinality(Uncharged(k)) - 1
        BY <2>2, <3>2, <3>3, FS_RemoveElement
      <3> QED BY <2>1, <2>2, <2>3, <3>1, <3>4
    <2>5. CASE k # key
      <3>1. budget'[k] = budget[k]
        BY <1>1, <1>6, <2>5
      <3>2. ~(k[1] = Pool(r) /\ k[2] = thr[r].be)
        BY <2>2, <2>5 DEF key, Key
      <3>3. Uncharged(k)' = Uncharged(k)
        BY <1>1, <1>2, <1>4, <1>5, <3>2 DEF Uncharged
      <3> QED BY <2>1, <2>3, <3>1, <3>3
    <2> QED BY <2>4, <2>5
  <1> QED BY <1>1, <1>4, <1>6, <1>7, <1>8 DEF BudgetInv

\* A new window starts both counts again.
LEMMA NewDayKeepsBudget ==
    ASSUME TypeInv, BudgetInv, NewDay
    PROVE  BudgetInv'
  <1>1. /\ budget' = [k \in Keys |-> 0] /\ launched' = [k \in Keys |-> 0]
        /\ UNCHANGED <<world, thr>>
    BY DEF NewDay
  <1>2. /\ Live' = Live
        /\ \A k \in Keys : InFlight(k)' = InFlight(k) /\ Uncharged(k)' = Uncharged(k)
    BY <1>1 DEF InFlight, Uncharged, Live, Pool
  <1>3. ASSUME NEW k \in Keys, world.budget[k[2]] > 0
        PROVE  /\ launched'[k] <= budget'[k] + Cardinality(Uncharged(k))
               /\ launched'[k] + Cardinality(InFlight(k)) < world.budget[k[2]] + Cardinality(Live)
    <2>1. launched'[k] = 0 /\ budget'[k] = 0
      BY <1>1
    <2>2. /\ IsFiniteSet(Live) /\ Cardinality(Live) \in Nat /\ Cardinality(InFlight(k)) \in Nat
          /\ Cardinality(Uncharged(k)) \in Nat /\ world.budget[k[2]] \in Nat
      BY InFlightFacts
    <2>3. InFlight(k) \subseteq Live
      BY DEF InFlight
    <2>4. Cardinality(InFlight(k)) <= Cardinality(Live)
      BY <2>2, <2>3, FS_Subset
    <2> QED BY <1>3, <2>1, <2>2, <2>4
  <1> QED BY <1>1, <1>2, <1>3 DEF BudgetInv

\* Before the first request nothing is launched, charged or on the way.
LEMMA InitBudget == Init => BudgetInv
  <1> SUFFICES ASSUME Init PROVE BudgetInv
    OBVIOUS
  <1>1. /\ launched = [k \in Keys |-> 0] /\ budget = [k \in Keys |-> 0]
        /\ thr = [r \in Requests |-> Idle]
    BY DEF Init, AdmissionInit
  <1>2. TypeInv
    BY InitInv DEF Inv
  <1>3. ASSUME NEW k \in Keys, world.budget[k[2]] > 0
        PROVE  /\ launched[k] <= budget[k] + Cardinality(Uncharged(k))
               /\ launched[k] + Cardinality(InFlight(k)) < world.budget[k[2]] + Cardinality(Live)
    <2>1. launched[k] = 0 /\ budget[k] = 0
      BY <1>1
    <2>2. /\ Cardinality(Live) \in Nat /\ Cardinality(InFlight(k)) \in Nat
          /\ Cardinality(Uncharged(k)) \in Nat /\ world.budget[k[2]] \in Nat
      BY <1>2, InFlightFacts
    <2>3. InFlight(k) = {}
      BY <1>1, <1>2, IdleFacts, GateFacts DEF InFlight, Flying
    <2>4. Cardinality(InFlight(k)) = 0
      BY <2>3, FS_EmptySet
    <2> QED BY <1>3, <2>1, <2>2, <2>4
  <1> QED BY <1>1, <1>3 DEF BudgetInv

\* Every step keeps the budget's invariant, where a restart meets no budget.
LEMMA StepBudget ==
    ASSUME NoRestartsOnBudget
    PROVE  TypeInv /\ BudgetInv /\ [Next]_vars => BudgetInv'
  <1> SUFFICES ASSUME TypeInv, BudgetInv, [Next]_vars PROVE BudgetInv'
    OBVIOUS
  <1>1. ASSUME NEW r \in Live, Filter(r) \/ Step(r) \/ Cancel(r) \/ Finish(r) PROVE BudgetInv'
    <2>1. CASE Filter(r)
      BY <2>1, FilterKeepsBudget
    <2>2. CASE Commit(r)
      BY <2>2, CommitKeepsBudget
    <2>3. CASE recordBudgetUsage(r)
      BY <2>3, ChargeKeepsBudget
    <2>4. CASE ~Filter(r) /\ ~Commit(r) /\ ~recordBudgetUsage(r)
      <3>1. BudgetStill(r)
        BY <1>1, <2>4, BudgetSteps DEF Step
      <3> QED BY <3>1, BudgetStillKeeps
    <2> QED BY <2>1, <2>2, <2>3, <2>4
  <1>2. ASSUME UNCHANGED <<world, thr, budget, launched>> PROVE BudgetInv'
    <2>1. /\ Live' = Live
          /\ \A k \in Keys : InFlight(k)' = InFlight(k) /\ Uncharged(k)' = Uncharged(k)
      BY <1>2 DEF InFlight, Uncharged, Live, Pool
    <2> QED BY <1>2, <2>1 DEF BudgetInv
  <1>3. ASSUME NEW k \in Keys, Probe(k) PROVE BudgetInv'
    BY <1>2, <1>3 DEF Probe
  <1>4. CASE Restart
    <2>1. "restart" \in world.faults /\ UNCHANGED <<world, budget, launched>>
      BY <1>4 DEF Restart, admissionVars
    <2>2. \A b \in Backends : world.budget[b] = 0
      BY <2>1 DEF NoRestartsOnBudget, TypeInv
    <2>3. \A k \in Keys : ~(world.budget[k[2]] > 0)
      <3> TAKE k \in Keys
      <3>1. k[2] \in Backends
        BY InFlightFacts
      <3> QED BY <2>2, <3>1
    <2> QED BY <2>1, <2>3 DEF BudgetInv
  <1>5. CASE NewDay
    BY <1>5, NewDayKeepsBudget
  <1>6. CASE Tick
    BY <1>2, <1>6 DEF Tick, AdmissionTick
  <1>7. CASE UNCHANGED vars
    BY <1>2, <1>7 DEF vars, admissionVars
  <1> QED BY <1>1, <1>3, <1>4, <1>5, <1>6, <1>7 DEF Next

\* For any budgets, pools and requests a backend is launched on more often than
\* its budget allows by fewer than there are requests, as long as the process is
\* not restarted: filterBackendsByBudget looks before the launch,
\* recordBudgetUsage charges after it.
THEOREM BudgetKept ==
    ASSUME NoRestartsOnBudget
    PROVE  Spec => []BudgetOvershoot
  <1>1. TypeInv /\ BudgetInv => BudgetOvershoot
    <2> SUFFICES ASSUME TypeInv, BudgetInv, NEW k \in Keys, world.budget[k[2]] > 0
                 PROVE  launched[k] < world.budget[k[2]] + Cardinality(Live)
      BY DEF BudgetOvershoot
    <2>1. launched[k] \in Nat
          /\ launched[k] + Cardinality(InFlight(k)) < world.budget[k[2]] + Cardinality(Live)
      BY DEF BudgetInv
    <2>2. /\ Cardinality(Live) \in Nat /\ Cardinality(InFlight(k)) \in Nat
          /\ world.budget[k[2]] \in Nat
      BY InFlightFacts
    <2> QED BY <2>1, <2>2
  <1>2. Inv => TypeInv
    BY DEF Inv
  <1> QED BY <1>1, <1>2, AlwaysInv, InitBudget, StepBudget, PTL DEF Spec

-----------------------------------------------------------------------------
(* The permits of a half-open circuit.                                      *)

\* A circuit in half-open hands out at most its permits; in any other state none
\* is out, and a closed one has no recovery and no probe under way.  The
\* failures it remembers are left open.
PermitsWithin(c) ==
    /\ DOMAIN c = {"state", "failures", "nextProbe", "inFlight", "successes"}
    /\ c.state \in {"closed", "open", "half-open"}
    /\ c.nextProbe \in Nat
    /\ c.inFlight \in 0 .. HalfOpenMaxRequests
    /\ c.successes \in 0 .. RecoverySuccessThreshold - 1
    /\ c.state # "half-open" => c.inFlight = 0
    /\ c.state = "closed" => c.successes = 0 /\ c.nextProbe = 0

PermitInv == DOMAIN circuit = Keys /\ \A k \in Keys : PermitsWithin(circuit[k])

\* The remembered failures after one more, and after a tick; the provers know
\* nothing of SelectSeq and need not.
RecentFailures(c) == Append(SelectSeq(c.failures, LAMBDA age : age <= EvaluationWindow), 0)
KeptFailures(c) ==
    IF Len(RecentFailures(c)) > FailureThreshold THEN Tail(RecentFailures(c)) ELSE RecentFailures(c)
Older(s) == SelectSeq([i \in DOMAIN s |-> s[i] + 1], LAMBDA age : age <= EvaluationWindow)

\* recordFailure in those terms.
LEMMA FailureFolded ==
    ASSUME NEW c
    PROVE  AfterFailure(c) =
      IF c.state = "half-open" \/ Len(RecentFailures(c)) >= FailureThreshold
        THEN [c EXCEPT !.state = "open", !.failures = KeptFailures(c), !.nextProbe = OpenDuration,
                       !.inFlight = 0, !.successes = 0]
        ELSE [c EXCEPT !.failures = KeptFailures(c), !.inFlight = 0, !.successes = 0]
  BY DEF AfterFailure, RecentFailures, KeptFailures

\* A reported failure gives the permits back and keeps the circuit well formed.
LEMMA FailurePermits ==
    ASSUME NEW c, PermitsWithin(c)
    PROVE  PermitsWithin(AfterFailure(c))
  <1>1. ASSUME NEW f
        PROVE  PermitsWithin([c EXCEPT !.state = "open", !.failures = f,
                 !.nextProbe = OpenDuration, !.inFlight = 0, !.successes = 0])
    BY AdmissionAssumption DEF PermitsWithin
  <1>2. ASSUME NEW f, c.state # "half-open"
        PROVE  PermitsWithin([c EXCEPT !.failures = f, !.inFlight = 0, !.successes = 0])
    BY <1>2, AdmissionAssumption DEF PermitsWithin
  <1>3. CASE c.state = "half-open" \/ Len(RecentFailures(c)) >= FailureThreshold
    BY <1>1, <1>3, FailureFolded
  <1>4. CASE ~(c.state = "half-open" \/ Len(RecentFailures(c)) >= FailureThreshold)
    BY <1>2, <1>4, FailureFolded
  <1> QED BY <1>3, <1>4

\* So do a success and the outcome of a health probe.
LEMMA SuccessPermits ==
    ASSUME NEW c, PermitsWithin(c)
    PROVE  PermitsWithin(AfterSuccess(c)) /\ PermitsWithin(AfterProbeSuccess(c))
           /\ PermitsWithin(AfterProbeFailure(c))
  BY AdmissionAssumption DEF PermitsWithin, AfterSuccess, AfterProbeSuccess, AfterProbeFailure, ClosedCircuit

\* A permit is consumed only where one is left.
LEMMA ConsumedPermits ==
    ASSUME NEW c, PermitsWithin(c), c.state = "half-open" => c.inFlight < HalfOpenMaxRequests
    PROVE  PermitsWithin(AfterCircuitConsumed(c))
  BY AdmissionAssumption DEF PermitsWithin, AfterCircuitConsumed

\* The clock touches no permit.
LEMMA TickPermits ==
    ASSUME AdmissionTick, PermitInv PROVE PermitInv'
  <1>1. ASSUME NEW c, NEW f, PermitsWithin(c)
        PROVE  PermitsWithin([c EXCEPT !.nextProbe = IF @ > 0 THEN @ - 1 ELSE 0, !.failures = f])
    BY <1>1 DEF PermitsWithin
  <1>2. circuit' = [k \in Keys |->
            [circuit[k] EXCEPT !.nextProbe = IF @ > 0 THEN @ - 1 ELSE 0,
                               !.failures = Older(@)]]
    BY DEF AdmissionTick, Older
  <1>3. ASSUME NEW k \in Keys PROVE PermitsWithin(circuit'[k])
    BY <1>1, <1>2 DEF PermitInv
  <1>4. DOMAIN circuit' = Keys
    BY <1>2
  <1> QED BY <1>3, <1>4 DEF PermitInv, PermitsWithin

\* One circuit rewritten.
LEMMA OneCircuit ==
    ASSUME PermitInv, NEW k \in Keys, NEW c, PermitsWithin(c),
           circuit' = [circuit EXCEPT ![k] = c]
    PROVE  PermitInv'
  <1>1. DOMAIN circuit' = Keys
    BY DEF PermitInv
  <1>2. ASSUME NEW q \in Keys PROVE PermitsWithin(circuit'[q])
    BY DEF PermitInv
  <1> QED BY <1>1, <1>2 DEF PermitInv, PermitsWithin

\* Every step of a request keeps the permits of every circuit within bounds.
LEMMA RequestPermits ==
    ASSUME TypeInv, PermitInv, NEW r \in Live, Filter(r) \/ Step(r) \/ Cancel(r) \/ Finish(r)
    PROVE  PermitInv'
  <1>0. /\ r \in Requests /\ Pool(r) \in Pools /\ Keys = Pools \X Backends
        /\ Fits(thr[r], rec[r])
    BY GateFacts, GateAssumption DEF TypeInv
  <1>1. thr[r].pc \notin {"idle", "reserve"} => Key(r) \in Keys
    BY <1>0 DEF Fits, Key
  <1>2. ASSUME UNCHANGED circuit PROVE PermitInv'
    BY <1>2 DEF PermitInv, PermitsWithin
  <1>3. ASSUME thr[r].pc = "admit", Permitted(r), ConsumeCircuit(r) PROVE PermitInv'
    <2>1. CASE HasBreaker(thr[r].be)
      <3>1. PermitsWithin(circuit[Key(r)])
        BY <1>1, <1>3 DEF PermitInv
      <3>2. PermitsWithin(AfterCircuitConsumed(circuit[Key(r)]))
        BY <1>3, <2>1, <3>1, ConsumedPermits DEF Permitted, circuitAllows
      <3>3. circuit' = [circuit EXCEPT ![Key(r)] = AfterCircuitConsumed(circuit[Key(r)])]
        BY <1>3, <2>1 DEF ConsumeCircuit
      <3> QED BY <1>1, <1>3, <3>2, <3>3, OneCircuit
    <2>2. CASE ~HasBreaker(thr[r].be)
      BY <1>2, <1>3, <2>2 DEF ConsumeCircuit
    <2> QED BY <2>1, <2>2
  <1>4. ASSUME thr[r].pc \in {"provision", "live"}, ReportFailure(r) PROVE PermitInv'
    <2>1. CASE HasBreaker(thr[r].be)
      <3>1. PermitsWithin(AfterFailure(circuit[Key(r)]))
        BY <1>1, <1>4, FailurePermits DEF PermitInv
      <3>2. circuit' = [circuit EXCEPT ![Key(r)] = AfterFailure(circuit[Key(r)])]
        BY <1>4, <2>1 DEF ReportFailure
      <3> QED BY <1>1, <1>4, <3>1, <3>2, OneCircuit
    <2>2. CASE ~HasBreaker(thr[r].be)
      BY <1>2, <1>4, <2>2 DEF ReportFailure
    <2> QED BY <2>1, <2>2
  <1>5. CASE Admit(r)
    BY <1>3, <1>5 DEF Admit
  <1>6. CASE DenyRateLimited(r)
    BY <1>3, <1>6 DEF DenyRateLimited
  <1>7. CASE ProvisionFails(r)
    BY <1>2, <1>4, <1>7 DEF ProvisionFails
  <1>8. CASE Finish(r)
    BY <1>2, <1>4, <1>8 DEF Finish
  <1>9. CASE Commit(r)
    <2>1. CASE HasBreaker(thr[r].be)
      <3>1. PermitsWithin(AfterSuccess(circuit[Key(r)]))
        BY <1>1, <1>9, SuccessPermits DEF PermitInv, Commit
      <3>2. circuit' = [circuit EXCEPT ![Key(r)] = AfterSuccess(circuit[Key(r)])]
        BY <1>9, <2>1 DEF Commit
      <3> QED BY <1>1, <1>9, <3>1, <3>2, OneCircuit DEF Commit
    <2>2. CASE ~HasBreaker(thr[r].be)
      BY <1>2, <1>9, <2>2 DEF Commit
    <2> QED BY <2>1, <2>2
  <1>10. CASE Filter(r)
    BY <1>2, <1>10 DEF Filter
  <1>11. CASE recordBudgetUsage(r)
    BY <1>2, <1>11 DEF recordBudgetUsage
  <1>12. CASE \/ Reserve(r) \/ ReserveFails(r) \/ DenyCircuitOpen(r) \/ SaveReserved(r)
              \/ SaveRefused(r) \/ Provision(r) \/ CommitCanceled(r) \/ Cancel(r)
    BY <1>2, <1>12 DEF Reserve, ReserveFails, DenyCircuitOpen, SaveReserved, SaveRefused,
                       Provision, CommitCanceled, Cancel, admissionVars
  <1> QED BY <1>5, <1>6, <1>7, <1>8, <1>9, <1>10, <1>11, <1>12 DEF Step

\* Initially every circuit is closed.
LEMMA InitPermits == Init => PermitInv
  BY AdmissionAssumption DEF Init, AdmissionInit, ClosedCircuit, PermitInv, PermitsWithin

\* Every step keeps the permits within bounds.
LEMMA StepPermits == TypeInv /\ PermitInv /\ [Next]_vars => PermitInv'
  <1> SUFFICES ASSUME TypeInv, PermitInv, [Next]_vars PROVE PermitInv'
    OBVIOUS
  <1>1. ASSUME NEW r \in Live, Filter(r) \/ Step(r) \/ Cancel(r) \/ Finish(r) PROVE PermitInv'
    BY <1>1, RequestPermits
  <1>2. ASSUME UNCHANGED circuit PROVE PermitInv'
    BY <1>2 DEF PermitInv, PermitsWithin
  <1>3. ASSUME NEW k \in Keys, Probe(k) PROVE PermitInv'
    <2>1. /\ PermitsWithin(AfterProbeSuccess(circuit[k]))
          /\ PermitsWithin(AfterProbeFailure(circuit[k]))
      BY SuccessPermits DEF PermitInv
    <2>2. \/ circuit' = [circuit EXCEPT ![k] = AfterProbeSuccess(circuit[k])]
          \/ circuit' = [circuit EXCEPT ![k] = AfterProbeFailure(circuit[k])]
      BY <1>3 DEF Probe
    <2> QED BY <2>1, <2>2, OneCircuit
  <1>4. CASE Restart \/ NewDay
    BY <1>2, <1>4 DEF Restart, NewDay, admissionVars
  <1>5. CASE Tick
    BY <1>5, TickPermits DEF Tick
  <1>6. CASE UNCHANGED vars
    BY <1>2, <1>6 DEF vars, admissionVars
  <1> QED BY <1>1, <1>3, <1>4, <1>5, <1>6 DEF Next

\* For any thresholds and any number of requests at once, a half-open circuit
\* never has more than halfOpenMaxRequests permits out, and an open or a closed
\* one has none, so that a breaker which opens or closes starts its next
\* recovery from nothing (circuitDecision, recordSuccess, recordFailure and
\* ReconcileBackendHealth; restarts and ticks included).
THEOREM PermitsAreBounded == Spec => []PermitInv
  <1>1. Inv => TypeInv
    BY DEF Inv
  <1> QED BY <1>1, AlwaysInv, InitPermits, StepPermits, PTL DEF Spec

=============================================================================
