----------------------- MODULE RestartRecovery_proofs -----------------------
(***************************************************************************)
(* What holds after every restart, for any set of allocations and any       *)
(* deployments.                                                             *)
(*                                                                         *)
(* SlotsMatch is not inductive: it needs that nobody runs during the        *)
(* startup, that a thread's allocation is its own, in the store as the      *)
(* thread left it and too young for every timer (ThreadInv), that warm      *)
(* pools and pods exclude each other (PodInv) and that the list a startup   *)
(* phase walks through is still true (StartInv).  One step does not keep    *)
(* it: createRestartOrphanHolds takes up a hold of an earlier restart that  *)
(* has ended and gives it no slot.  HoldsInv shows that this needs a file   *)
(* store and a second restart; up to there everything is proved.            *)
(***************************************************************************)
EXTENDS RestartRecovery, FiniteSetTheorems, TLAPS

\* The fields of a thread.
PCs == {"idle", "reserved", "saved", "launched", "claimed", "dropped", "handover"}
ThreadRecs == [pc : PCs, id : Ids \cup {None}, warm : Ids \cup {None}]

\* The types; that slots is not negative follows from SlotsMatch.
TypeInv ==
    /\ world \in Worlds
    /\ rec \in [Keys -> Records] /\ disk \in [Keys -> Records]
    /\ phase \in Startup \cup {"up", "drain"}
    /\ todo \subseteq Keys
    /\ slots \in Int /\ max \in Nat \ {0} /\ slots <= max
    /\ age \in [Keys -> 0 .. 3]
    /\ prov \in [Ids -> {"none", "live", "done"}]
    /\ thr \in [Threads -> ThreadRecs]
    /\ snap \subseteq Ids \/ snap = NoPass

\* Thread t has a slot and no record.
UnsavedAt(t) == thr[t].pc = "reserved" \/ (t = "warm" /\ thr[t].pc = "launched")

\* The request has its cold reservation, or a claimed warm runner.
HasCold == thr["request"].pc \in {"saved", "claimed", "dropped"}
HasWarm == thr["request"].pc \in {"claimed", "dropped", "handover"}

\* Nobody runs before the startup is over.
IdleInStartup == phase \in Startup => \A t \in Threads : thr[t] = Idle

\* What a thread works on is its own, fresh, and in the store as it left it.
ThreadInv ==
    /\ \A t \in Threads : thr[t].pc # "idle" => thr[t].id \in Ids /\ age[thr[t].id] = 0
    /\ \A t \in Threads : UnsavedAt(t) => rec[thr[t].id].state = "none"
    /\ thr["warm"].pc \in {"idle", "reserved", "launched"}
    /\ thr["request"].pc # "idle" /\ thr["warm"].pc # "idle"
         => thr["request"].id # thr["warm"].id
    /\ HasCold \/ thr["request"].pc = "reserved" => prov[thr["request"].id] = "none"
    /\ HasCold => rec[thr["request"].id].state = "reserved"
    /\ HasWarm => /\ thr["request"].warm \in Ids /\ thr["request"].warm # thr["request"].id
                  /\ rec[thr["request"].warm].state = "ready"
                  /\ age[thr["request"].warm] = 0

\* Warm pools are for drivers whose runners leave no pod behind.
PodInv ==
    /\ world.pods => /\ \A k \in Keys : rec[k].state # "warm" /\ disk[k].state # "warm"
                     /\ thr["warm"].pc = "idle" /\ ~HasWarm
    /\ ~world.pods => \A i \in Ids : prov[i] # "done"

\* The list of a startup phase is still what the phase listed.
StartInv ==
    /\ phase = "rehydrate" => todo \subseteq AccountedIn(rec)
    /\ phase = "terminalize" => todo \subseteq {i \in Ids : rec[i].state = "reserved"}
    /\ phase = "rebuild" => todo \subseteq {i \in Ids : rec[i].state = "none"}
    /\ phase = "gaps" => todo \subseteq HoldIds

Inv == TypeInv /\ IdleInStartup /\ ThreadInv /\ PodInv /\ StartInv /\ SlotsMatch

\* A hold that is there when createRestartOrphanHolds comes to it has a slot.
HoldsCounted ==
    phase = "gaps" => \A n \in todo : Exists(n) => rec[n].state \in Accounted

-----------------------------------------------------------------------------
(* Writes to the store.                                                     *)

\* Record k gets state s, and no other record changes its state; the file gets
\* no warm record that was not there.
Touches(k, s) ==
    /\ rec' \in [Keys -> Records] /\ disk' \in [Keys -> Records]
    /\ rec'[k].state = s
    /\ \A j \in Keys \ {k} : rec'[j].state = rec[j].state
    /\ \A j \in Keys : disk'[j].state = "warm" =>
         disk[j].state = "warm" \/ rec[j].state = "warm" \/ (j = k /\ s = "warm")

\* Records have their type.
LEMMA RecordFacts ==
    /\ NoRecord \in Records /\ NoRecord.state = "none"
    /\ Empty \in [Keys -> Records] /\ \A k \in Keys : Empty[k].state = "none"
    /\ Accounted \subseteq RecordStates /\ Active \subseteq Accounted
    /\ \A r \in Records : r.state \in RecordStates
    /\ \A r \in Records, s \in RecordStates :
         /\ [r EXCEPT !.state = s] \in Records /\ [r EXCEPT !.state = s].state = s
         /\ [r EXCEPT !.label = TRUE] \in Records /\ [r EXCEPT !.label = TRUE].state = r.state
         /\ [r EXCEPT !.reg = TRUE] \in Records /\ [r EXCEPT !.reg = TRUE].state = r.state
  <1>1. NoRecord \in Records /\ NoRecord.state = "none"
    BY DEF NoRecord, Records, RecordStates
  <1>2. Empty \in [Keys -> Records] /\ \A k \in Keys : Empty[k].state = "none"
    BY <1>1 DEF Empty
  <1>3. Accounted \subseteq RecordStates /\ Active \subseteq Accounted
    BY DEF Accounted, Active, RecordStates
  <1>4. \A r \in Records : r.state \in RecordStates
    BY DEF Records
  <1>5. \A r \in Records, s \in RecordStates :
         /\ [r EXCEPT !.state = s] \in Records /\ [r EXCEPT !.state = s].state = s
         /\ [r EXCEPT !.label = TRUE] \in Records /\ [r EXCEPT !.label = TRUE].state = r.state
         /\ [r EXCEPT !.reg = TRUE] \in Records /\ [r EXCEPT !.reg = TRUE].state = r.state
    BY DEF Records
  <1> QED BY <1>1, <1>2, <1>3, <1>4, <1>5

\* A map that differs from the records in one place.
LEMMA SavedFacts ==
    ASSUME TypeInv, NEW k \in Keys, NEW r \in Records
    PROVE  /\ Saved(k, r) \in [Keys -> Records] /\ Saved(k, r)[k] = r
           /\ \A j \in Keys \ {k} : Saved(k, r)[j] = rec[j]
  BY DEF TypeInv, Saved

\* Save writes one record.
LEMMA SaveTouches ==
    ASSUME TypeInv, NEW k \in Keys, NEW r \in Records, Save(k, r)
    PROVE  Touches(k, r.state)
  <1> DEFINE m == Saved(k, r)
  <1>1. m \in [Keys -> Records] /\ m[k] = r /\ \A j \in Keys \ {k} : m[j] = rec[j]
    BY SavedFacts
  <1>2. rec' = m /\ disk' = IF world.store = "memory" THEN Empty ELSE m
    BY DEF Save, Persist
  <1> HIDE DEF m
  <1>3. \A j \in Keys : disk'[j].state = "warm" => m[j].state = "warm"
    BY <1>2, RecordFacts
  <1> QED BY <1>1, <1>2, <1>3, RecordFacts DEF Touches

\* A write that fails leaves memory as it was.
LEMMA SaveFailsTouches ==
    ASSUME TypeInv, NEW k \in Keys, NEW r \in Records, r.state # "warm", SaveFails(k, r)
    PROVE  rec' = rec /\ Touches(k, rec[k].state)
  <1> DEFINE m == Saved(k, r)
  <1>1. m \in [Keys -> Records] /\ m[k] = r /\ \A j \in Keys \ {k} : m[j] = rec[j]
    BY SavedFacts
  <1>2. rec' = rec /\ disk' \in {disk, m}
    BY DEF SaveFails, PersistFails
  <1> HIDE DEF m
  <1>3. \A j \in Keys : m[j].state = "warm" => rec[j].state = "warm"
    BY <1>1
  <1>4. rec \in [Keys -> Records] /\ disk \in [Keys -> Records]
    BY DEF TypeInv
  <1> QED BY <1>1, <1>2, <1>3, <1>4 DEF Touches

\* MarkState changes the state of a record that is there.
LEMMA MarkTouches ==
    ASSUME TypeInv, NEW k \in Keys, NEW s \in RecordStates, MarkState(k, s)
    PROVE  Touches(k, s) /\ rec[k].state # "none"
  <1> DEFINE r == [rec[k] EXCEPT !.state = s]
  <1>1. rec[k] \in Records /\ rec \in [Keys -> Records]
    BY DEF TypeInv
  <1>2. r \in Records /\ r.state = s
    BY <1>1, RecordFacts
  <1>3. Marked(k, s) = Saved(k, r)
    BY <1>1 DEF Marked, Saved
  <1>4. Save(k, r)
    BY <1>3 DEF MarkState, Save
  <1>5. rec[k].state # "none"
    BY DEF MarkState, Exists
  <1> HIDE DEF r
  <1> QED BY <1>2, <1>4, <1>5, SaveTouches

\* The accounted records after such a write.
LEMMA TouchedRecords ==
    ASSUME NEW k \in Keys, NEW s, Touches(k, s)
    PROVE  AccountedIn(rec)' = IF s \in Accounted THEN AccountedIn(rec) \cup {k}
                                                  ELSE AccountedIn(rec) \ {k}
  BY DEF Touches, AccountedIn

-----------------------------------------------------------------------------
(* Slots.                                                                   *)

Counted == AccountedIn(rec) \ (IF phase = "rehydrate" THEN todo ELSE {})
UnsavedOnes == {t \in Threads : UnsavedAt(t)}

\* The counts of SlotsMatch are over finite sets.
LEMMA CountFacts ==
    ASSUME TypeInv
    PROVE  /\ IsFiniteSet(Keys) /\ IsFiniteSet(Ids)
           /\ IsFiniteSet(AccountedIn(rec)) /\ Cardinality(AccountedIn(rec)) \in Nat
           /\ IsFiniteSet(Counted) /\ Cardinality(Counted) \in Nat
           /\ IsFiniteSet(UnsavedOnes) /\ Cardinality(UnsavedOnes) \in Nat
           /\ Unsaved = Cardinality(UnsavedOnes)
           /\ Released \in 0 .. 1
           /\ SlotsMatch <=> slots + Released = Cardinality(Counted) + Cardinality(UnsavedOnes)
  <1>1. IsFiniteSet(Ids) /\ IsFiniteSet(HoldIds)
    <2>1. IsFiniteSet(Ids) /\ HoldIds = 0 .. (Cardinality(Ids) - 1)
      BY RecoveryAssumption
    <2>2. Cardinality(Ids) - 1 \in Int
      BY <2>1, FS_CardinalityType
    <2> QED BY <2>1, <2>2, FS_Interval
  <1>2. IsFiniteSet(Keys)
    BY <1>1, FS_Union DEF Keys
  <1>3. AccountedIn(rec) \subseteq Keys /\ Counted \subseteq Keys
    BY DEF AccountedIn, Counted
  <1>4. IsFiniteSet(AccountedIn(rec)) /\ IsFiniteSet(Counted)
    BY <1>2, <1>3, FS_Subset
  <1>5. IsFiniteSet(Threads)
    <2>1. Threads = ({} \cup {"request"}) \cup {"warm"}
      BY DEF Threads
    <2> QED BY <2>1, FS_EmptySet, FS_AddElement
  <1>6. UnsavedOnes \subseteq Threads
    BY DEF UnsavedOnes
  <1>7. IsFiniteSet(UnsavedOnes)
    BY <1>5, <1>6, FS_Subset
  <1>8. Unsaved = Cardinality(UnsavedOnes)
    BY DEF Unsaved, UnsavedOnes, UnsavedAt
  <1>9. Released \in 0 .. 1
    BY DEF Released
  <1>10. SlotsMatch <=> slots + Released = Cardinality(Counted) + Cardinality(UnsavedOnes)
    BY <1>8 DEF SlotsMatch, Counted
  <1> QED BY <1>1, <1>2, <1>4, <1>7, <1>8, <1>9, <1>10, FS_CardinalityType

-----------------------------------------------------------------------------
(* Steps beside the threads.                                                *)

\* The keys a thread works on, and those whose record it counts on.
Mine(k) ==
    \/ \E t \in Threads : thr[t].pc # "idle" /\ k = thr[t].id
    \/ HasWarm /\ k = thr["request"].warm
Fixed(k) ==
    \/ \E t \in Threads : UnsavedAt(t) /\ k = thr[t].id
    \/ HasCold /\ k = thr["request"].id
    \/ HasWarm /\ k = thr["request"].warm

\* They are fresh, so no timer reaches them, and they are held.
LEMMA MineFacts ==
    ASSUME TypeInv, ThreadInv, NEW k \in Keys
    PROVE  /\ Fixed(k) => Mine(k) /\ rec[k].state \in {"none", "reserved", "ready"}
           /\ Mine(k) => k \in Ids /\ age[k] = 0 /\ Held(k)
  <1>1. "request" \in Threads /\ "warm" \in Threads
    BY DEF Threads
  <1>2. \A t \in Threads : UnsavedAt(t) => thr[t].pc # "idle" /\ rec[thr[t].id].state = "none"
    BY DEF ThreadInv, UnsavedAt
  <1>3. HasCold => thr["request"].pc # "idle" /\ rec[thr["request"].id].state = "reserved"
    BY DEF ThreadInv, HasCold
  <1>4. HasWarm => /\ rec[thr["request"].warm].state = "ready"
                   /\ thr["request"].warm \in Ids /\ age[thr["request"].warm] = 0
    BY DEF ThreadInv
  <1>5. Fixed(k) => Mine(k) /\ rec[k].state \in {"none", "reserved", "ready"}
    BY <1>1, <1>2, <1>3, <1>4 DEF Fixed, Mine
  <1>6. \A t \in Threads : thr[t].pc # "idle" => thr[t].id \in Ids /\ age[thr[t].id] = 0
    BY DEF ThreadInv
  <1>7. Mine(k) => k \in Ids /\ age[k] = 0 /\ Held(k)
    BY <1>1, <1>4, <1>6 DEF Mine, Held
  <1> QED BY <1>5, <1>7

\* A step that leaves the threads, and what they count on, alone.
Quiet ==
    /\ UNCHANGED <<world, thr>>
    /\ phase' \in Startup => phase \in Startup
    /\ \A k \in Keys : Mine(k) => age'[k] = 0
    /\ \A k \in Keys : Fixed(k) => rec'[k].state = rec[k].state
    /\ \A i \in Ids : prov'[i] \in {prov[i], "none"} \/ (prov[i] = "live" /\ world.pods)
    /\ \A k \in Keys : rec'[k].state = "warm" \/ disk'[k].state = "warm"
                         => rec[k].state = "warm" \/ disk[k].state = "warm"

\* It keeps what the threads and the drivers promise.
LEMMA QuietKeeps ==
    ASSUME TypeInv, IdleInStartup, ThreadInv, PodInv, Quiet
    PROVE  IdleInStartup' /\ ThreadInv' /\ PodInv'
  <1>0. "request" \in Threads /\ "warm" \in Threads /\ Ids \subseteq Keys
    BY DEF Threads, Keys
  <1>1. /\ thr' = thr /\ world' = world
        /\ (HasCold' <=> HasCold) /\ (HasWarm' <=> HasWarm)
        /\ \A t \in Threads : UnsavedAt(t)' <=> UnsavedAt(t)
    BY DEF Quiet, HasCold, HasWarm, UnsavedAt
  <1>2. IdleInStartup'
    BY <1>1 DEF IdleInStartup, Quiet
  <1>3. \A t \in Threads : thr[t].pc # "idle" => thr[t].id \in Ids /\ age'[thr[t].id] = 0
    <2> SUFFICES ASSUME NEW t \in Threads, thr[t].pc # "idle"
                 PROVE  thr[t].id \in Ids /\ age'[thr[t].id] = 0
      OBVIOUS
    <2>1. thr[t].id \in Ids
      BY DEF ThreadInv
    <2>2. Mine(thr[t].id)
      BY DEF Mine
    <2> QED BY <1>0, <2>1, <2>2 DEF Quiet
  <1>4. \A t \in Threads : UnsavedAt(t) => rec'[thr[t].id].state = "none"
    <2> SUFFICES ASSUME NEW t \in Threads, UnsavedAt(t) PROVE rec'[thr[t].id].state = "none"
      OBVIOUS
    <2>1. thr[t].id \in Keys /\ rec[thr[t].id].state = "none"
      BY <1>0 DEF ThreadInv, UnsavedAt
    <2>2. Fixed(thr[t].id)
      BY DEF Fixed
    <2> QED BY <2>1, <2>2 DEF Quiet
  <1>5. HasCold => rec'[thr["request"].id].state = "reserved"
    <2> SUFFICES ASSUME HasCold PROVE rec'[thr["request"].id].state = "reserved"
      OBVIOUS
    <2>1. thr["request"].id \in Keys /\ rec[thr["request"].id].state = "reserved"
      BY <1>0 DEF ThreadInv, HasCold
    <2>2. Fixed(thr["request"].id)
      BY DEF Fixed
    <2> QED BY <2>1, <2>2 DEF Quiet
  <1>6. HasWarm => rec'[thr["request"].warm].state = "ready" /\ age'[thr["request"].warm] = 0
    <2> SUFFICES ASSUME HasWarm
                 PROVE  rec'[thr["request"].warm].state = "ready" /\ age'[thr["request"].warm] = 0
      OBVIOUS
    <2>1. thr["request"].warm \in Keys /\ rec[thr["request"].warm].state = "ready"
      BY <1>0 DEF ThreadInv
    <2>2. Fixed(thr["request"].warm) /\ Mine(thr["request"].warm)
      BY DEF Fixed, Mine
    <2> QED BY <2>1, <2>2 DEF Quiet
  <1>7. HasCold \/ thr["request"].pc = "reserved" => prov'[thr["request"].id] = "none"
    <2> SUFFICES ASSUME HasCold \/ thr["request"].pc = "reserved"
                 PROVE  prov'[thr["request"].id] = "none"
      OBVIOUS
    <2>1. thr["request"].id \in Ids /\ prov[thr["request"].id] = "none"
      BY <1>0 DEF ThreadInv, HasCold
    <2> QED BY <2>1 DEF Quiet
  <1>8. ThreadInv'
    BY <1>1, <1>3, <1>4, <1>5, <1>6, <1>7 DEF ThreadInv
  <1>9. PodInv'
    <2>1. ASSUME world.pods
          PROVE  \A k \in Keys : rec'[k].state # "warm" /\ disk'[k].state # "warm"
      BY <2>1 DEF PodInv, Quiet
    <2>2. ASSUME ~world.pods PROVE \A i \in Ids : prov'[i] # "done"
      BY <2>2 DEF PodInv, Quiet
    <2>3. world.pods => thr["warm"].pc = "idle" /\ ~HasWarm
      BY DEF PodInv
    <2> QED BY <1>1, <2>1, <2>2, <2>3 DEF PodInv
  <1> QED BY <1>2, <1>8, <1>9

\* What Cleanup does to the provider.
LEMMA CleanupFacts ==
    ASSUME TypeInv, NEW k \in Keys, Cleanup(k)
    PROVE  /\ prov' \in [Ids -> {"none", "live", "done"}]
           /\ \A i \in Ids : prov'[i] \in {prov[i], "none"}
  <1>1. prov \in [Ids -> {"none", "live", "done"}]
    BY DEF TypeInv
  <1>2. prov' = prov \/ (k \in Ids /\ prov' = [prov EXCEPT ![k] = "none"])
    BY DEF Cleanup
  <1> QED BY <1>1, <1>2

\* SlotsMatch in terms of these sets, here and in the next state.
MatchFacts ==
    SlotsMatch <=> slots + Released = Cardinality(Counted) + Cardinality(UnsavedOnes)

\* It holds of every state of the right type.
LEMMA MatchFactsHold == TypeInv => MatchFacts
  BY CountFacts DEF MatchFacts

\* So of the next one.
LEMMA MatchFactsNext == ASSUME TypeInv' PROVE MatchFacts'
  BY MatchFactsHold, PTL

\* The counts after a write outside rehydration.
LEMMA CountAfter ==
    ASSUME TypeInv, TypeInv', SlotsMatch, NEW k \in Keys, NEW s, Touches(k, s), UNCHANGED thr,
           phase # "rehydrate", phase' # "rehydrate",
           \/ (s \in Accounted <=> rec[k].state \in Accounted) /\ slots' = slots
           \/ s \in Accounted /\ rec[k].state \notin Accounted /\ slots' = slots + 1
           \/ s \notin Accounted /\ rec[k].state \in Accounted /\ slots' = slots - 1
    PROVE  SlotsMatch'
  <1> DEFINE A == Counted
  <1>1. /\ IsFiniteSet(A) /\ Cardinality(A) \in Nat /\ Cardinality(UnsavedOnes) \in Nat
        /\ slots + Released = Cardinality(A) + Cardinality(UnsavedOnes)
        /\ Released \in 0 .. 1
    BY CountFacts
  <1>2. UnsavedOnes' = UnsavedOnes /\ Released' = Released
    BY DEF UnsavedOnes, UnsavedAt, Released
  <1>3. A = AccountedIn(rec) /\ Counted' = AccountedIn(rec)'
    BY DEF Counted
  <1>4. Counted' = IF s \in Accounted THEN A \cup {k} ELSE A \ {k}
    BY <1>3, TouchedRecords
  <1>5. k \in A <=> rec[k].state \in Accounted
    BY <1>3 DEF AccountedIn
  <1>6. SlotsMatch' <=> slots' + Released' = Cardinality(Counted') + Cardinality(UnsavedOnes')
    BY MatchFactsNext DEF MatchFacts
  <1>7. slots \in Int
    BY DEF TypeInv
  <1> HIDE DEF A
  <1>8. CASE (s \in Accounted <=> rec[k].state \in Accounted) /\ slots' = slots
    <2>1. Counted' = A
      BY <1>4, <1>5, <1>8
    <2> QED BY <1>1, <1>2, <1>6, <1>8, <2>1
  <1>9. CASE s \in Accounted /\ rec[k].state \notin Accounted /\ slots' = slots + 1
    <2>1. Cardinality(Counted') = Cardinality(A) + 1
      BY <1>1, <1>4, <1>5, <1>9, FS_AddElement
    <2> QED BY <1>1, <1>2, <1>6, <1>7, <1>9, <2>1
  <1>10. CASE s \notin Accounted /\ rec[k].state \in Accounted /\ slots' = slots - 1
    <2>1. Cardinality(Counted') = Cardinality(A) - 1
      BY <1>1, <1>4, <1>5, <1>10, FS_RemoveElement
    <2> QED BY <1>1, <1>2, <1>6, <1>7, <1>10, <2>1
  <1> QED BY <1>8, <1>9, <1>10

-----------------------------------------------------------------------------
(* The loops.                                                               *)

\* A loop writes one record that no thread counts on, and releases its slot
\* when the record was accounted.
LEMMA LoopWrite ==
    ASSUME Inv, Running, UNCHANGED <<world, phase, todo, max, thr, snap>>,
           NEW k \in Keys, NEW s, Touches(k, s), s # "warm", ~Fixed(k),
           age' \in {age, [age EXCEPT ![k] = 0]},
           prov' \in [Ids -> {"none", "live", "done"}],
           \A i \in Ids : prov'[i] \in {prov[i], "none"},
           \/ (s \in Accounted <=> rec[k].state \in Accounted) /\ slots' = slots
           \/ s \notin Accounted /\ rec[k].state \in Accounted /\ slots' = slots - 1
    PROVE  Inv'
  <1>0. TypeInv /\ IdleInStartup /\ ThreadInv /\ PodInv /\ StartInv /\ SlotsMatch
    BY DEF Inv
  <1>1. age \in [Keys -> 0 .. 3] /\ slots \in Int /\ max \in Nat \ {0} /\ slots <= max
    BY <1>0 DEF TypeInv
  <1>2. age' \in [Keys -> 0 .. 3] /\ \A j \in Keys : age'[j] = age[j] \/ age'[j] = 0
    BY <1>1
  <1>3. slots' \in Int /\ slots' <= max
    BY <1>1
  <1>4. TypeInv'
    BY <1>0, <1>2, <1>3 DEF TypeInv, Touches
  <1>5. \A j \in Keys : Mine(j) => age'[j] = 0
    BY <1>0, <1>2, MineFacts
  <1>6. \A j \in Keys : Fixed(j) => rec'[j].state = rec[j].state
    BY DEF Touches
  <1>7. \A j \in Keys : rec'[j].state = "warm" \/ disk'[j].state = "warm"
                          => rec[j].state = "warm" \/ disk[j].state = "warm"
    BY DEF Touches
  <1>8. Quiet
    BY <1>5, <1>6, <1>7 DEF Quiet
  <1>9. IdleInStartup' /\ ThreadInv' /\ PodInv'
    BY <1>0, <1>8, QuietKeeps
  <1>10. phase \notin Startup
    BY DEF Running, Startup
  <1>11. StartInv'
    BY <1>10 DEF StartInv, Startup
  <1>12. SlotsMatch'
    BY <1>0, <1>4, <1>10, CountAfter DEF Startup
  <1> QED BY <1>4, <1>9, <1>11, <1>12 DEF Inv

\* Release ends one record, gives its slot back and cleans up.
LEMMA LoopRelease ==
    ASSUME Inv, Running, UNCHANGED <<world, phase, todo, max, thr, snap>>,
           NEW k \in Keys, NEW s \in {"ended", "quarantined"}, Release(k, s),
           rec[k].state \in Accounted, ~Fixed(k)
    PROVE  Inv'
  <1>0. TypeInv
    BY DEF Inv
  <1>1. s \in RecordStates /\ s \notin Accounted /\ s # "warm"
    BY DEF RecordStates, Accounted
  <1>2. Touches(k, s) /\ slots' = slots - 1 /\ age' = [age EXCEPT ![k] = 0]
    BY <1>0, <1>1, MarkTouches DEF Release
  <1>3. /\ prov' \in [Ids -> {"none", "live", "done"}]
        /\ \A i \in Ids : prov'[i] \in {prov[i], "none"}
    BY <1>0, CleanupFacts DEF Release
  <1> QED BY <1>1, <1>2, <1>3, LoopWrite

\* A step that changes no record's state and no slot.
LEMMA SameRecords ==
    ASSUME Inv, TypeInv', Quiet, \A k \in Keys : rec'[k].state = rec[k].state,
           UNCHANGED <<slots, todo>>,
           phase' = phase \/ {phase, phase'} \subseteq {"up", "drain"}
    PROVE  Inv'
  <1>0. TypeInv /\ IdleInStartup /\ ThreadInv /\ PodInv /\ StartInv /\ SlotsMatch
    BY DEF Inv
  <1>1. IdleInStartup' /\ ThreadInv' /\ PodInv'
    BY <1>0, QuietKeeps
  <1>2. AccountedIn(rec)' = AccountedIn(rec)
    BY DEF AccountedIn
  <1>3. /\ Counted' = Counted /\ UnsavedOnes' = UnsavedOnes /\ Released' = Released
    BY <1>2 DEF Counted, UnsavedOnes, UnsavedAt, Released, Quiet
  <1>4. SlotsMatch'
    BY <1>0, <1>3, MatchFactsHold, MatchFactsNext DEF MatchFacts
  <1>5. StartInv'
    <2>1. Ids \subseteq Keys
      BY DEF Keys
    <2> QED BY <1>0, <1>2, <2>1 DEF StartInv
  <1> QED BY <1>1, <1>4, <1>5 DEF Inv

\* A step of the loops keeps the invariant.
LEMMA LoopInv ==
    ASSUME Inv, LoopStep
    PROVE  Inv'
  <1>0. TypeInv /\ ThreadInv /\ PodInv
    BY DEF Inv
  <1>1. Ids \subseteq Keys /\ Active \subseteq Accounted
    BY RecordFacts DEF Keys
  <1>2. \A k \in Keys : Mine(k) => age[k] = 0 /\ Held(k)
    BY <1>0, MineFacts
  <1>3. \A k \in Keys : Fixed(k) => Mine(k) /\ rec[k].state \in {"none", "reserved", "ready"}
    BY <1>0, MineFacts
  <1>4. ASSUME NEW k \in Keys, SweepExpired(k) PROVE Inv'
    <2>1. Running /\ UNCHANGED <<world, phase, todo, max, thr, snap>> /\ rec[k].state \in Accounted
      BY <1>1, <1>4 DEF SweepExpired
    <2>2. ~Fixed(k)
      BY <1>2, <1>3, <1>4 DEF SweepExpired, Unregistered
    <2>3. \E s \in {"ended", "quarantined"} : Release(k, s)
      BY <1>4 DEF SweepExpired
    <2> QED BY <2>1, <2>2, <2>3, LoopRelease
  <1>5. ASSUME NEW k \in Keys, QuarantineEnds(k) PROVE Inv'
    <2>1. /\ Running /\ UNCHANGED <<world, phase, todo, max, thr, snap>> /\ slots' = slots
          /\ rec[k].state = "quarantined" /\ MarkState(k, "ended") /\ Cleanup(k)
          /\ age' = [age EXCEPT ![k] = 0]
      BY <1>5 DEF QuarantineEnds
    <2>2. Touches(k, "ended")
      BY <1>0, <2>1, MarkTouches DEF RecordStates
    <2>3. /\ prov' \in [Ids -> {"none", "live", "done"}]
          /\ \A i \in Ids : prov'[i] \in {prov[i], "none"}
      BY <1>0, <2>1, CleanupFacts
    <2>4. ~Fixed(k) /\ (("ended" \in Accounted) <=> (rec[k].state \in Accounted))
      BY <1>3, <2>1 DEF Accounted
    <2> QED BY <2>1, <2>2, <2>3, <2>4, LoopWrite
  <1>6. ASSUME NEW k \in Keys, pruneFinished(k) PROVE Inv'
    <2>1. /\ Running /\ UNCHANGED <<world, phase, todo, max, thr, snap, slots, age, prov>>
          /\ rec[k].state \in {"ended", "quarantined"} /\ Save(k, NoRecord)
      BY <1>6 DEF pruneFinished, PruneTerminal, Save
    <2>2. Touches(k, "none")
      BY <1>0, <2>1, SaveTouches, RecordFacts
    <2>3. ~Fixed(k) /\ (("none" \in Accounted) <=> (rec[k].state \in Accounted))
      BY <1>3, <2>1 DEF Accounted
    <2>4. prov \in [Ids -> {"none", "live", "done"}]
      BY <1>0 DEF TypeInv
    <2> QED BY <2>1, <2>2, <2>3, <2>4, LoopWrite
  <1>7. ASSUME NEW i \in Ids, releaseFinishedRunner(i) PROVE Inv'
    <2>1. /\ Running /\ UNCHANGED <<world, phase, todo, max, thr, snap>> /\ prov[i] = "done"
          /\ i \in Keys
      BY <1>1, <1>7 DEF releaseFinishedRunner
    <2>2. ~Fixed(i)
      <3>1. world.pods
        BY <1>0, <2>1 DEF PodInv
      <3>2. thr["warm"].pc = "idle" /\ ~HasWarm
        BY <1>0, <3>1 DEF PodInv
      <3>3. HasCold \/ thr["request"].pc = "reserved" => thr["request"].id # i
        BY <1>0, <2>1 DEF ThreadInv
      <3> QED BY <3>2, <3>3 DEF Fixed, UnsavedAt, Threads
    <2>3. CASE rec[i].state \in Active
      BY <1>1, <1>7, <2>1, <2>2, <2>3, LoopRelease DEF releaseFinishedRunner
    <2>4. CASE rec[i].state \notin Active
      <3>1. /\ Cleanup(i) /\ UNCHANGED <<storeVars, slots, age>>
        BY <1>7, <2>4 DEF releaseFinishedRunner
      <3>2. /\ prov' \in [Ids -> {"none", "live", "done"}]
            /\ \A j \in Ids : prov'[j] \in {prov[j], "none"}
        BY <1>0, <2>1, <3>1, CleanupFacts
      <3>3. Touches(i, rec[i].state)
        BY <1>0, <3>1 DEF Touches, TypeInv, storeVars
      <3>4. rec[i].state # "warm"
        <4>1. world.pods
          BY <1>0, <2>1 DEF PodInv
        <4> QED BY <1>0, <2>1, <4>1 DEF PodInv
      <3> QED BY <2>1, <2>2, <3>1, <3>2, <3>3, <3>4, LoopWrite
    <2> QED BY <2>3, <2>4
  <1>8. ASSUME NEW i \in Ids, OrphanRelease(i) PROVE Inv'
    <2>1. /\ Running /\ UNCHANGED <<world, phase, todo, max, thr, snap>> /\ i \in Keys
          /\ rec[i].state = "ready" /\ age[i] >= 1 /\ Release(i, "ended")
      BY <1>1, <1>8 DEF OrphanRelease, Orphans
    <2>2. ~Fixed(i) /\ rec[i].state \in Accounted
      BY <1>2, <1>3, <2>1 DEF Accounted
    <2> QED BY <2>1, <2>2, LoopRelease
  <1>9. ASSUME NEW i \in Ids, recycleWarmAllocation(i) PROVE Inv'
    <2>1. /\ Running /\ UNCHANGED <<world, phase, todo, max, thr, snap>> /\ i \in Keys
          /\ rec[i].state = "warm" /\ Release(i, "ended")
      BY <1>1, <1>9 DEF recycleWarmAllocation, WarmOnes
    <2>2. ~Fixed(i) /\ rec[i].state \in Accounted
      BY <1>3, <2>1 DEF Accounted
    <2> QED BY <2>1, <2>2, LoopRelease
  <1>10. ASSUME NEW i \in Ids, Complete(i) PROVE Inv'
    <2>1. /\ Running /\ UNCHANGED <<world, phase, todo, max, thr, snap>> /\ i \in Keys
          /\ rec[i].state = "ready" /\ ~Held(i) /\ Release(i, "ended")
      BY <1>1, <1>10 DEF Complete
    <2>2. ~Fixed(i) /\ rec[i].state \in Accounted
      BY <1>2, <1>3, <2>1 DEF Accounted
    <2> QED BY <2>1, <2>2, LoopRelease
  <1>11. CASE OrphanSnapshot
    <2>1. /\ snap' = Live /\ UNCHANGED <<world, phase, todo, slots, max, age, prov, thr>>
      BY <1>11 DEF OrphanSnapshot
    <2>2. PICK run : Persist([k \in Keys |-> IF k \in run /\ rec[k].state \in Active
                                              THEN [rec[k] EXCEPT !.reg = TRUE] ELSE rec[k]])
      BY <1>11 DEF OrphanSnapshot
    <2> DEFINE m == [k \in Keys |-> IF k \in run /\ rec[k].state \in Active
                                    THEN [rec[k] EXCEPT !.reg = TRUE] ELSE rec[k]]
    <2>3. m \in [Keys -> Records] /\ \A k \in Keys : m[k].state = rec[k].state
      <3>1. \A k \in Keys : rec[k] \in Records
        BY <1>0 DEF TypeInv
      <3>2. "none" \in RecordStates
        BY DEF RecordStates
      <3>3. \A k \in Keys : [rec[k] EXCEPT !.reg = TRUE] \in Records
                          /\ [rec[k] EXCEPT !.reg = TRUE].state = rec[k].state
        BY <3>1, <3>2, RecordFacts
      <3> QED BY <3>1, <3>3
    <2>4. rec' = m /\ disk' \in {Empty, m}
      BY <2>2 DEF Persist
    <2> HIDE DEF m
    <2>5. /\ rec' \in [Keys -> Records] /\ disk' \in [Keys -> Records]
          /\ \A k \in Keys : rec'[k].state = rec[k].state
          /\ \A k \in Keys : disk'[k].state \in {"none", rec[k].state}
      BY <2>3, <2>4, RecordFacts
    <2>6. TypeInv'
      BY <1>0, <2>1, <2>5 DEF TypeInv, Live
    <2>7. Quiet
      BY <1>2, <2>1, <2>5 DEF Quiet
    <2> QED BY <2>1, <2>5, <2>6, <2>7, SameRecords
  <1>12. CASE OrphanPassEnds
    <2>1. snap' = NoPass /\ UNCHANGED <<world, storeVars, phase, todo, slots, max, age, prov, thr>>
      BY <1>12 DEF OrphanPassEnds
    <2>2. TypeInv'
      BY <1>0, <2>1 DEF TypeInv, storeVars
    <2>3. Quiet
      BY <1>2, <2>1 DEF Quiet, storeVars
    <2> QED BY <2>1, <2>2, <2>3, SameRecords DEF storeVars
  <1> QED
    BY <1>4, <1>5, <1>6, <1>7, <1>8, <1>9, <1>10, <1>11, <1>12 DEF LoopStep

-----------------------------------------------------------------------------
(* The provider, time and SIGTERM.                                          *)

\* Runners that exit or vanish, time, and a drain keep the invariant.
LEMMA AroundInv ==
    ASSUME Inv, \/ \E i \in Ids : RunnerExits(i) \/ PodVanishes(i)
                \/ \E k \in Keys : Ages(k)
                \/ BeginDrain
                \/ UNCHANGED vars
    PROVE  Inv'
  <1>0. TypeInv /\ ThreadInv /\ PodInv
    BY DEF Inv
  <1>1. \A k \in Keys : Mine(k) => age[k] = 0 /\ Held(k)
    BY <1>0, MineFacts
  <1>2. ASSUME NEW i \in Ids, RunnerExits(i) PROVE Inv'
    <2>1. /\ prov[i] = "live" /\ prov' = [prov EXCEPT ![i] = IF world.pods THEN "done" ELSE "none"]
          /\ UNCHANGED <<world, storeVars, phase, todo, slots, max, age, thr, snap>>
      BY <1>2 DEF RunnerExits
    <2>2. TypeInv'
      BY <1>0, <2>1 DEF TypeInv, storeVars
    <2>3. Quiet
      BY <1>0, <1>1, <2>1 DEF Quiet, storeVars, TypeInv
    <2> QED BY <2>1, <2>2, <2>3, SameRecords DEF storeVars
  <1>3. ASSUME NEW i \in Ids, PodVanishes(i) PROVE Inv'
    <2>1. /\ prov' = [prov EXCEPT ![i] = "none"]
          /\ UNCHANGED <<world, storeVars, phase, todo, slots, max, age, thr, snap>>
      BY <1>3 DEF PodVanishes
    <2>2. TypeInv'
      BY <1>0, <2>1 DEF TypeInv, storeVars
    <2>3. Quiet
      BY <1>0, <1>1, <2>1 DEF Quiet, storeVars, TypeInv
    <2> QED BY <2>1, <2>2, <2>3, SameRecords DEF storeVars
  <1>4. ASSUME NEW k \in Keys, Ages(k) PROVE Inv'
    <2>1. /\ ~Held(k) /\ age' = [age EXCEPT ![k] = NextAge(k)]
          /\ UNCHANGED <<world, storeVars, phase, todo, slots, max, prov, thr, snap>>
      BY <1>4 DEF Ages
    <2>2. age \in [Keys -> 0 .. 3]
      BY <1>0 DEF TypeInv
    <2>3. NextAge(k) \in 0 .. 3
      BY <2>2 DEF NextAge
    <2>4. age' \in [Keys -> 0 .. 3] /\ \A j \in Keys : j # k => age'[j] = age[j]
      BY <2>1, <2>2, <2>3
    <2>5. TypeInv'
      BY <1>0, <2>1, <2>4 DEF TypeInv, storeVars
    <2>6. Quiet
      BY <1>0, <1>1, <2>1, <2>4 DEF Quiet, storeVars
    <2> QED BY <2>1, <2>5, <2>6, SameRecords DEF storeVars
  <1>5. CASE BeginDrain
    <2>1. /\ phase = "up" /\ phase' = "drain"
          /\ UNCHANGED <<world, storeVars, todo, slots, max, age, prov, thr, snap>>
      BY <1>5 DEF BeginDrain
    <2>2. TypeInv'
      BY <1>0, <2>1 DEF TypeInv, storeVars
    <2>3. Quiet
      BY <1>0, <1>1, <2>1 DEF Quiet, storeVars, Startup
    <2> QED BY <2>1, <2>2, <2>3, SameRecords DEF storeVars
  <1>6. CASE UNCHANGED vars
    <2>1. UNCHANGED <<world, storeVars, phase, todo, slots, max, age, prov, thr, snap>>
      BY <1>6 DEF vars
    <2>2. TypeInv'
      BY <1>0, <2>1 DEF TypeInv, storeVars
    <2>3. Quiet
      BY <1>0, <1>1, <2>1 DEF Quiet, storeVars
    <2> QED BY <2>1, <2>2, <2>3, SameRecords DEF storeVars
  <1> QED BY <1>2, <1>3, <1>4, <1>5, <1>6

-----------------------------------------------------------------------------
(* Startup.                                                                 *)

\* No thread works on anything during the startup.
LEMMA StartupIsQuiet ==
    ASSUME IdleInStartup, phase \in Startup
    PROVE  /\ \A k : ~Mine(k) /\ ~Fixed(k)
           /\ UnsavedOnes = {} /\ Released = 0
  <1>1. \A t \in Threads : thr[t].pc = "idle"
    BY DEF IdleInStartup, Idle
  <1>2. "request" \in Threads
    BY DEF Threads
  <1> QED BY <1>1, <1>2 DEF Mine, Fixed, HasCold, HasWarm, UnsavedAt, UnsavedOnes, Released

\* A startup phase after the rehydration writes one record of its list.
LEMMA StartupWrite ==
    ASSUME Inv, phase \in {"terminalize", "rebuild", "gaps"},
           UNCHANGED <<world, phase, max, thr, snap>>,
           NEW k \in Keys, k \in todo, todo' = todo \ {k}, NEW s, Touches(k, s),
           s # "warm" \/ s = rec[k].state,
           age' \in [Keys -> 0 .. 3], prov' \in [Ids -> {"none", "live", "done"}],
           \A i \in Ids : prov'[i] \in {prov[i], "none"},
           \/ (s \in Accounted <=> rec[k].state \in Accounted) /\ slots' = slots
           \/ s \in Accounted /\ rec[k].state \notin Accounted /\ slots < max /\ slots' = slots + 1
           \/ s \notin Accounted /\ rec[k].state \in Accounted /\ slots' = slots - 1
    PROVE  Inv'
  <1>0. TypeInv /\ IdleInStartup /\ ThreadInv /\ PodInv /\ StartInv /\ SlotsMatch
    BY DEF Inv
  <1>1. slots \in Int /\ max \in Nat \ {0} /\ slots <= max
    BY <1>0 DEF TypeInv
  <1>2. slots' \in Int /\ slots' <= max
    BY <1>1
  <1>3. TypeInv'
    BY <1>0, <1>2 DEF TypeInv, Touches
  <1>4. \A j : ~Mine(j) /\ ~Fixed(j)
    BY <1>0, StartupIsQuiet DEF Startup
  <1>5. \A j \in Keys : rec'[j].state = "warm" \/ disk'[j].state = "warm"
                          => rec[j].state = "warm" \/ disk[j].state = "warm"
    BY DEF Touches
  <1>6. Quiet
    BY <1>4, <1>5 DEF Quiet
  <1>7. IdleInStartup' /\ ThreadInv' /\ PodInv'
    BY <1>0, <1>6, QuietKeeps
  <1>8. StartInv'
    <2>1. \A j \in todo' : rec'[j].state = rec[j].state
      BY <1>0 DEF Touches, TypeInv
    <2> QED BY <1>0, <2>1 DEF StartInv
  <1>9. SlotsMatch'
    BY <1>0, <1>3, CountAfter
  <1> QED BY <1>3, <1>7, <1>8, <1>9 DEF Inv

\* rehydrateSchedulerState takes a slot for a record of its list or ends it.
LEMMA RehydrateInv ==
    ASSUME Inv, NEW k \in Keys, rehydrateSchedulerState(k)
    PROVE  Inv'
  <1>0. TypeInv /\ IdleInStartup /\ ThreadInv /\ PodInv /\ StartInv /\ SlotsMatch
    BY DEF Inv
  <1>1. /\ phase = "rehydrate" /\ k \in todo /\ todo' = todo \ {k}
        /\ UNCHANGED <<world, phase, max, age, prov, thr, snap>>
    BY DEF rehydrateSchedulerState
  <1>2. k \in AccountedIn(rec) /\ todo \subseteq AccountedIn(rec)
    BY <1>0, <1>1 DEF StartInv
  <1>3. /\ slots \in Int /\ max \in Nat \ {0} /\ slots <= max
        /\ rec \in [Keys -> Records] /\ disk \in [Keys -> Records]
    BY <1>0 DEF TypeInv
  <1>4. \A j : ~Mine(j) /\ ~Fixed(j)
    BY <1>0, <1>1, StartupIsQuiet DEF Startup
  <1>5. UnsavedOnes' = UnsavedOnes /\ Released' = Released
    BY <1>1 DEF UnsavedOnes, UnsavedAt, Released
  <1>6. /\ IsFiniteSet(Counted) /\ Cardinality(Counted) \in Nat
        /\ Cardinality(UnsavedOnes) \in Nat /\ Released \in 0 .. 1
        /\ slots + Released = Cardinality(Counted) + Cardinality(UnsavedOnes)
    BY <1>0, CountFacts
  <1>7. Counted = AccountedIn(rec) \ todo /\ Counted' = AccountedIn(rec)' \ (todo \ {k})
    BY <1>1 DEF Counted
  <1>8. CASE expireUnrehydratable(k)
    <2>1. MarkState(k, "ended") /\ slots' = slots
      BY <1>8 DEF expireUnrehydratable
    <2>2. Touches(k, "ended") /\ "ended" \notin Accounted
      BY <1>0, <2>1, MarkTouches DEF RecordStates, Accounted
    <2>3. AccountedIn(rec)' = AccountedIn(rec) \ {k}
      BY <2>2, TouchedRecords
    <2>4. Counted' = Counted
      BY <1>1, <1>7, <2>3
    <2>5. TypeInv'
      BY <1>0, <1>1, <2>1, <2>2 DEF TypeInv, Touches
    <2>6. \A j \in Keys : rec'[j].state = "warm" \/ disk'[j].state = "warm"
                            => rec[j].state = "warm" \/ disk[j].state = "warm"
      BY <2>2 DEF Touches
    <2>7. Quiet
      BY <1>1, <1>4, <2>6 DEF Quiet
    <2>8. SlotsMatch'
      BY <1>5, <1>6, <2>1, <2>4, <2>5, MatchFactsNext DEF MatchFacts
    <2>9. StartInv'
      BY <1>1, <1>2, <2>3 DEF StartInv
    <2> QED BY <1>0, <2>5, <2>7, <2>8, <2>9, QuietKeeps DEF Inv
  <1>9. CASE slots < max /\ slots' = slots + 1 /\ UNCHANGED storeVars
    <2>1. AccountedIn(rec)' = AccountedIn(rec)
      BY <1>9 DEF AccountedIn, storeVars
    <2>2. Counted' = Counted \cup {k} /\ k \notin Counted
      BY <1>1, <1>2, <1>7, <2>1
    <2>3. Cardinality(Counted') = Cardinality(Counted) + 1
      BY <1>6, <2>2, FS_AddElement
    <2>4. slots' \in Int /\ slots' <= max
      BY <1>3, <1>9
    <2>5. TypeInv'
      BY <1>0, <1>1, <1>9, <2>4 DEF TypeInv, storeVars
    <2>6. Quiet
      BY <1>1, <1>4, <1>9 DEF Quiet, storeVars
    <2>7. SlotsMatch'
      BY <1>3, <1>5, <1>6, <1>9, <2>3, <2>5, MatchFactsNext DEF MatchFacts
    <2>8. StartInv'
      BY <1>1, <1>2, <2>1 DEF StartInv
    <2> QED BY <1>0, <2>5, <2>6, <2>7, <2>8, QuietKeeps DEF Inv
  <1>10. expireUnrehydratable(k) \/ (slots < max /\ slots' = slots + 1 /\ UNCHANGED storeVars)
    BY <1>3 DEF rehydrateSchedulerState
  <1> QED BY <1>8, <1>9, <1>10

\* terminalizeIncompleteReserved ends a reservation with its slot, or fails.
LEMMA TerminalizeInv ==
    ASSUME Inv, NEW k \in Keys, terminalizeIncompleteReserved(k)
    PROVE  Inv'
  <1>0. TypeInv /\ StartInv
    BY DEF Inv
  <1>1. /\ phase = "terminalize" /\ k \in todo /\ todo' = todo \ {k}
        /\ UNCHANGED <<world, phase, max, thr, snap>>
    BY DEF terminalizeIncompleteReserved
  <1>2. rec[k].state = "reserved"
    BY <1>0, <1>1 DEF StartInv
  <1> DEFINE labelled == [rec[k] EXCEPT !.label = TRUE]
             s == IF world.quarantine THEN "quarantined" ELSE "ended"
             over == [labelled EXCEPT !.state = s]
  <1>3. s \in RecordStates /\ s \notin Accounted /\ s # "warm"
    BY DEF RecordStates, Accounted
  <1>4. /\ age \in [Keys -> 0 .. 3] /\ rec[k] \in Records /\ rec \in [Keys -> Records]
        /\ disk \in [Keys -> Records]
        /\ prov \in [Ids -> {"none", "live", "done"}]
    BY <1>0 DEF TypeInv
  <1> HIDE DEF s
  <1>5. labelled \in Records /\ labelled.state = "reserved"
    BY <1>2, <1>3, <1>4, RecordFacts
  <1> HIDE DEF labelled
  <1>6. over \in Records /\ over.state = s
    BY <1>3, <1>5, RecordFacts
  <1> HIDE DEF over
  <1>7. "reserved" \in Accounted
    BY DEF Accounted
  <1>8. CASE /\ Save(k, over) /\ slots' = slots - 1
             /\ age' = [age EXCEPT ![k] = 0] /\ Cleanup(k)
    <2>1. Touches(k, s)
      BY <1>0, <1>6, <1>8, SaveTouches
    <2>2. /\ prov' \in [Ids -> {"none", "live", "done"}]
          /\ \A i \in Ids : prov'[i] \in {prov[i], "none"}
      BY <1>0, <1>8, CleanupFacts
    <2>3. age' \in [Keys -> 0 .. 3]
      BY <1>4, <1>8
    <2> QED BY <1>1, <1>2, <1>3, <1>7, <1>8, <2>1, <2>2, <2>3, StartupWrite
  <1>9. CASE SaveFails(k, labelled) /\ UNCHANGED <<slots, age, prov>>
    <2>1. Touches(k, "reserved")
      BY <1>0, <1>2, <1>5, <1>9, SaveFailsTouches
    <2> QED BY <1>1, <1>2, <1>4, <1>9, <2>1, StartupWrite
  <1>10. CASE /\ PersistFails(Saved(k, labelled), Saved(k, labelled), Saved(k, over))
              /\ UNCHANGED <<slots, age, prov>>
    <2>1. /\ Saved(k, labelled) \in [Keys -> Records] /\ Saved(k, over) \in [Keys -> Records]
          /\ Saved(k, labelled)[k] = labelled /\ Saved(k, over)[k] = over
          /\ \A j \in Keys \ {k} : Saved(k, labelled)[j] = rec[j] /\ Saved(k, over)[j] = rec[j]
      BY <1>0, <1>5, <1>6, SavedFacts
    <2>2. rec' = Saved(k, labelled) /\ disk' \in {Saved(k, labelled), Saved(k, over)}
      BY <1>10 DEF PersistFails
    <2>3. Touches(k, "reserved")
      BY <1>3, <1>5, <1>6, <2>1, <2>2 DEF Touches
    <2> QED BY <1>1, <1>2, <1>4, <1>10, <2>3, StartupWrite
  <1> QED BY <1>8, <1>9, <1>10 DEF terminalizeIncompleteReserved, labelled, over, s

\* rebuildLiveRunner gives a live pod a record and a slot, or leaves it.
LEMMA RebuildInv ==
    ASSUME Inv, NEW i \in Ids, rebuildLiveRunner(i)
    PROVE  Inv'
  <1>0. TypeInv /\ StartInv
    BY DEF Inv
  <1>1. /\ phase = "rebuild" /\ i \in todo /\ todo' = todo \ {i} /\ i \in Keys
        /\ UNCHANGED <<world, phase, max, thr, snap>>
    BY DEF rebuildLiveRunner, Keys
  <1>2. rec[i].state = "none" /\ "none" \notin Accounted /\ "ready" \in Accounted
    BY <1>0, <1>1 DEF StartInv, Accounted
  <1> DEFINE r == [state |-> "ready", label |-> TRUE, reg |-> TRUE]
  <1>3. r \in Records /\ r.state = "ready"
    BY DEF Records, RecordStates, Accounted
  <1> HIDE DEF r
  <1>4. /\ age \in [Keys -> 0 .. 3] /\ prov \in [Ids -> {"none", "live", "done"}]
        /\ rec \in [Keys -> Records] /\ disk \in [Keys -> Records]
    BY <1>0 DEF TypeInv
  <1>5. CASE /\ slots < max /\ Save(i, r) /\ slots' = slots + 1
             /\ age' = [age EXCEPT ![i] = IF @ = 3 THEN 2 ELSE @] /\ UNCHANGED prov
    <2>1. Touches(i, "ready")
      BY <1>0, <1>1, <1>3, <1>5, SaveTouches
    <2>2. (IF age[i] = 3 THEN 2 ELSE age[i]) \in 0 .. 3
      BY <1>1, <1>4
    <2>3. age' \in [Keys -> 0 .. 3]
      BY <1>4, <1>5, <2>2
    <2> QED BY <1>1, <1>2, <1>4, <1>5, <2>1, <2>3, StartupWrite
  <1>6. CASE SaveFails(i, r) /\ Cleanup(i) /\ UNCHANGED <<slots, age>>
    <2>1. Touches(i, "none")
      BY <1>0, <1>1, <1>2, <1>3, <1>6, SaveFailsTouches
    <2>2. /\ prov' \in [Ids -> {"none", "live", "done"}]
          /\ \A j \in Ids : prov'[j] \in {prov[j], "none"}
      BY <1>0, <1>1, <1>6, CleanupFacts
    <2> QED BY <1>1, <1>2, <1>4, <1>6, <2>1, <2>2, StartupWrite
  <1>7. CASE UNCHANGED <<storeVars, slots, age, prov>>
    <2>1. Touches(i, "none")
      BY <1>2, <1>4, <1>7 DEF Touches, storeVars
    <2> QED BY <1>1, <1>2, <1>4, <1>7, <2>1, StartupWrite
  <1> QED BY <1>5, <1>6, <1>7 DEF rebuildLiveRunner, r

\* createRestartOrphanHolds takes a slot for a new hold; one that is there has
\* its slot already when HoldsCounted holds.
LEMMA HoldInv ==
    ASSUME Inv, HoldsCounted, NEW n \in HoldIds, createRestartOrphanHold(n)
    PROVE  Inv'
  <1>0. TypeInv /\ StartInv
    BY DEF Inv
  <1>1. /\ phase = "gaps" /\ n \in todo /\ todo' = todo \ {n} /\ n \in Keys
        /\ UNCHANGED <<world, phase, max, thr, snap, prov>> /\ age' = [age EXCEPT ![n] = 0]
    BY DEF createRestartOrphanHold, Keys
  <1> DEFINE hold == [rec[n] EXCEPT !.state = "reserved"]
             mark == [hold EXCEPT !.state = "quarantined"]
  <1>2. /\ age \in [Keys -> 0 .. 3] /\ prov \in [Ids -> {"none", "live", "done"}]
        /\ rec \in [Keys -> Records] /\ disk \in [Keys -> Records] /\ rec[n] \in Records
    BY <1>0, <1>1 DEF TypeInv
  <1>3. /\ {"reserved", "quarantined", "none"} \subseteq RecordStates /\ "reserved" \in Accounted
        /\ "quarantined" \notin Accounted /\ "none" \notin Accounted
    BY DEF RecordStates, Accounted
  <1>4. hold \in Records /\ hold.state = "reserved"
    BY <1>2, <1>3, RecordFacts
  <1> HIDE DEF hold
  <1>5. mark \in Records /\ mark.state = "quarantined"
    BY <1>3, <1>4, RecordFacts
  <1> HIDE DEF mark
  <1>6. age' \in [Keys -> 0 .. 3]
    BY <1>1, <1>2
  <1>7. CASE Exists(n) /\ Save(n, hold) /\ slots' = slots
    <2>1. Touches(n, "reserved")
      BY <1>0, <1>1, <1>4, <1>7, SaveTouches
    <2>2. rec[n].state \in Accounted
      BY <1>1, <1>7 DEF HoldsCounted
    <2> QED BY <1>1, <1>2, <1>3, <1>6, <1>7, <2>1, <2>2, StartupWrite
  <1>8. CASE SaveFails(n, hold) /\ slots' = slots
    <2>1. rec' = rec /\ Touches(n, rec[n].state)
      BY <1>0, <1>1, <1>4, <1>8, SaveFailsTouches
    <2> QED BY <1>1, <1>2, <1>6, <1>8, <2>1, StartupWrite
  <1>9. CASE ~Exists(n) /\ slots < max /\ Save(n, hold) /\ slots' = slots + 1
    <2>1. Touches(n, "reserved")
      BY <1>0, <1>1, <1>4, <1>9, SaveTouches
    <2>2. rec[n].state = "none"
      BY <1>9 DEF Exists
    <2> QED BY <1>1, <1>2, <1>3, <1>6, <1>9, <2>1, <2>2, StartupWrite
  <1>10. CASE ~Exists(n) /\ Save(n, mark) /\ slots' = slots
    <2>1. Touches(n, "quarantined")
      BY <1>0, <1>1, <1>5, <1>10, SaveTouches
    <2>2. rec[n].state = "none"
      BY <1>10 DEF Exists
    <2> QED BY <1>1, <1>2, <1>3, <1>6, <1>10, <2>1, <2>2, StartupWrite
  <1>11. CASE ~Exists(n) /\ UNCHANGED storeVars /\ slots' = slots
    <2>1. rec[n].state = "none"
      BY <1>11 DEF Exists
    <2>2. Touches(n, "none")
      BY <1>2, <1>11, <2>1 DEF Touches, storeVars
    <2> QED BY <1>1, <1>2, <1>6, <1>11, <2>1, <2>2, StartupWrite
  <1> QED
    BY <1>7, <1>8, <1>9, <1>10, <1>11 DEF createRestartOrphanHold, hold, mark

\* The next phase finds its list as the records and the provider are.
LEMMA NextPhaseInv ==
    ASSUME Inv, NextPhase
    PROVE  Inv'
  <1>0. TypeInv /\ IdleInStartup /\ ThreadInv /\ PodInv /\ StartInv /\ SlotsMatch
    BY DEF Inv
  <1>1. /\ phase \in Startup /\ todo = {} /\ phase' # "rehydrate"
        /\ phase' \in Startup \cup {"up", "drain"}
        /\ UNCHANGED <<world, storeVars, slots, max, age, prov, thr, snap>>
    BY DEF NextPhase, Startup
  <1>2. \A j : ~Mine(j) /\ ~Fixed(j)
    BY <1>0, <1>1, StartupIsQuiet
  <1>3. Quiet
    BY <1>1, <1>2 DEF Quiet, storeVars
  <1>4. capacityGap \subseteq HoldIds
    <2>1. IsFiniteSet(Ids) /\ HoldIds = 0 .. (Cardinality(Ids) - 1)
      BY RecoveryAssumption
    <2>2. Live \subseteq Ids
      BY DEF Live
    <2>3. Cardinality(Live) <= Cardinality(Ids) /\ IsFiniteSet(Live)
      BY <2>1, <2>2, FS_Subset
    <2>4. Cardinality(Live) \in Nat /\ Cardinality(Ids) \in Nat
      BY <2>1, <2>3, FS_CardinalityType
    <2>5. Cardinality(AccountedIn(rec)) \in Nat
      BY <1>0, CountFacts
    <2> QED BY <2>1, <2>3, <2>4, <2>5 DEF capacityGap
  <1>5. StartInv' /\ todo' \subseteq Keys
    <2>1. CASE phase' = "terminalize" /\ todo' = incompleteReserved
      BY <1>1, <2>1 DEF StartInv, incompleteReserved, storeVars, Keys
    <2>2. CASE phase' = "rebuild" /\ todo' = IF world.pods THEN {i \in Live : ~Exists(i)} ELSE {}
      BY <1>1, <2>2 DEF StartInv, Live, Exists, storeVars, Keys
    <2>3. CASE phase' = "up" /\ todo' = {}
      BY <2>3 DEF StartInv
    <2>4. CASE phase' = "gaps" /\ todo' = capacityGap
      BY <1>4, <2>4 DEF StartInv, Keys
    <2> QED BY <2>1, <2>2, <2>3, <2>4 DEF NextPhase
  <1>6. TypeInv'
    BY <1>0, <1>1, <1>5 DEF TypeInv, storeVars
  <1>7. AccountedIn(rec)' = AccountedIn(rec)
    BY <1>1 DEF AccountedIn, storeVars
  <1>8. Counted' = Counted /\ UnsavedOnes' = UnsavedOnes /\ Released' = Released
    BY <1>1, <1>7 DEF Counted, UnsavedOnes, UnsavedAt, Released
  <1>9. SlotsMatch'
    BY <1>0, <1>1, <1>6, <1>8, MatchFactsHold, MatchFactsNext DEF MatchFacts
  <1> QED BY <1>0, <1>3, <1>5, <1>6, <1>9, QuietKeeps DEF Inv

-----------------------------------------------------------------------------
(* Requests and the warm pool.                                              *)

\* A thread's fields after Step, and an idle thread.
LEMMA ThreadFacts ==
    ASSUME TypeInv, NEW t \in Threads
    PROVE  /\ thr[t] \in ThreadRecs /\ thr[t].pc \in PCs
           /\ thr[t].id \in Ids \cup {None} /\ thr[t].warm \in Ids \cup {None}
           /\ Idle \in ThreadRecs /\ Idle.pc = "idle"
           /\ \A pc \in PCs : Step(t, pc) =>
                /\ thr' \in [Threads -> ThreadRecs]
                /\ thr'[t].pc = pc /\ thr'[t].id = thr[t].id /\ thr'[t].warm = thr[t].warm
                /\ \A u \in Threads \ {t} : thr'[u] = thr[u]
           /\ Finish(t) =>
                /\ thr' \in [Threads -> ThreadRecs] /\ thr'[t].pc = "idle"
                /\ \A u \in Threads \ {t} : thr'[u] = thr[u]
  <1>1. thr \in [Threads -> ThreadRecs]
    BY DEF TypeInv
  <1>2. /\ thr[t] \in ThreadRecs /\ thr[t].pc \in PCs
        /\ thr[t].id \in Ids \cup {None} /\ thr[t].warm \in Ids \cup {None}
    BY <1>1 DEF ThreadRecs
  <1>3. Idle \in ThreadRecs /\ Idle.pc = "idle"
    BY DEF Idle, ThreadRecs, PCs
  <1>4. ASSUME NEW pc \in PCs, Step(t, pc)
        PROVE  /\ thr' \in [Threads -> ThreadRecs]
               /\ thr'[t].pc = pc /\ thr'[t].id = thr[t].id /\ thr'[t].warm = thr[t].warm
               /\ \A u \in Threads \ {t} : thr'[u] = thr[u]
    <2> DEFINE v == [thr[t] EXCEPT !.pc = pc]
    <2>1. v \in ThreadRecs /\ v.pc = pc /\ v.id = thr[t].id /\ v.warm = thr[t].warm
      BY <1>2 DEF ThreadRecs
    <2>2. thr' = [thr EXCEPT ![t] = v]
      BY <1>1, <1>4 DEF Step
    <2> HIDE DEF v
    <2> QED BY <1>1, <2>1, <2>2
  <1>5. ASSUME Finish(t)
        PROVE  /\ thr' \in [Threads -> ThreadRecs] /\ thr'[t].pc = "idle"
               /\ \A u \in Threads \ {t} : thr'[u] = thr[u]
    BY <1>1, <1>3, <1>5 DEF Finish
  <1> QED BY <1>2, <1>3, <1>4, <1>5

\* The thread invariant, thread by thread.
RequestOK ==
    LET r == thr["request"] IN
    /\ r.pc # "idle" => r.id \in Ids /\ age[r.id] = 0
    /\ r.pc = "reserved" => rec[r.id].state = "none"
    /\ HasCold => rec[r.id].state = "reserved"
    /\ HasCold \/ r.pc = "reserved" => prov[r.id] = "none"
    /\ HasWarm => /\ r.warm \in Ids /\ r.warm # r.id
                  /\ rec[r.warm].state = "ready" /\ age[r.warm] = 0
WarmOK ==
    LET w == thr["warm"] IN
    /\ w.pc \in {"idle", "reserved", "launched"}
    /\ w.pc # "idle" => w.id \in Ids /\ age[w.id] = 0 /\ rec[w.id].state = "none"
Apart ==
    thr["request"].pc # "idle" /\ thr["warm"].pc # "idle" => thr["request"].id # thr["warm"].id
ThreadParts == ThreadInv <=> RequestOK /\ WarmOK /\ Apart

\* Together they are the invariant.
LEMMA PartsOfThreads == ThreadParts
  BY DEF ThreadParts, ThreadInv, RequestOK, WarmOK, Apart, UnsavedAt, Threads, HasCold, HasWarm

\* Also in the next state.
LEMMA PartsOfThreadsNext == ThreadParts'
  BY PartsOfThreads, PTL

\* A thread's step outside the startup: what is left to show.
LEMMA ThreadMoves ==
    ASSUME Inv, TypeInv', phase \notin Startup, UNCHANGED <<phase, todo>>,
           RequestOK', WarmOK', Apart', PodInv', SlotsMatch'
    PROVE  Inv'
  <1>1. ThreadInv'
    BY PartsOfThreadsNext DEF ThreadParts
  <1>2. IdleInStartup' /\ StartInv'
    BY DEF IdleInStartup, StartInv, Startup
  <1> QED BY <1>1, <1>2 DEF Inv

\* How the count of unsaved reservations follows a thread.
LEMMA UnsavedMoves ==
    ASSUME TypeInv, NEW t \in Threads, \A u \in Threads \ {t} : thr'[u] = thr[u]
    PROVE  /\ (UnsavedAt(t)' <=> UnsavedAt(t))
                => Cardinality(UnsavedOnes') = Cardinality(UnsavedOnes)
           /\ UnsavedAt(t)' /\ ~UnsavedAt(t)
                => Cardinality(UnsavedOnes') = Cardinality(UnsavedOnes) + 1
           /\ ~UnsavedAt(t)' /\ UnsavedAt(t)
                => Cardinality(UnsavedOnes') = Cardinality(UnsavedOnes) - 1
  <1>1. IsFiniteSet(UnsavedOnes) /\ Cardinality(UnsavedOnes) \in Nat
    BY CountFacts
  <1>2. \A u \in Threads \ {t} : UnsavedAt(u)' <=> UnsavedAt(u)
    BY DEF UnsavedAt
  <1>3. ASSUME UnsavedAt(t)' <=> UnsavedAt(t) PROVE UnsavedOnes' = UnsavedOnes
    BY <1>2, <1>3 DEF UnsavedOnes
  <1>4. ASSUME UnsavedAt(t)', ~UnsavedAt(t)
        PROVE  UnsavedOnes' = UnsavedOnes \cup {t} /\ t \notin UnsavedOnes
    BY <1>2, <1>4 DEF UnsavedOnes
  <1>5. ASSUME ~UnsavedAt(t)', UnsavedAt(t)
        PROVE  UnsavedOnes' = UnsavedOnes \ {t} /\ t \in UnsavedOnes
    BY <1>2, <1>5 DEF UnsavedOnes
  <1> QED BY <1>1, <1>3, <1>4, <1>5, FS_AddElement, FS_RemoveElement

\* How the count of accounted records follows a write outside the startup.
LEMMA CountedMoves ==
    ASSUME TypeInv, phase \notin Startup, UNCHANGED phase, NEW k \in Keys, NEW s, Touches(k, s)
    PROVE  /\ (s \in Accounted <=> rec[k].state \in Accounted)
                => Cardinality(Counted') = Cardinality(Counted)
           /\ s \in Accounted /\ rec[k].state \notin Accounted
                => Cardinality(Counted') = Cardinality(Counted) + 1
           /\ s \notin Accounted /\ rec[k].state \in Accounted
                => Cardinality(Counted') = Cardinality(Counted) - 1
  <1>1. IsFiniteSet(Counted)
    BY CountFacts
  <1>2. Counted = AccountedIn(rec) /\ Counted' = AccountedIn(rec)'
    BY DEF Counted, Startup
  <1>3. Counted' = IF s \in Accounted THEN Counted \cup {k} ELSE Counted \ {k}
    BY <1>2, TouchedRecords
  <1>4. k \in Counted <=> rec[k].state \in Accounted
    BY <1>2 DEF AccountedIn
  <1>5. ASSUME s \in Accounted <=> rec[k].state \in Accounted PROVE Counted' = Counted
    BY <1>3, <1>4, <1>5
  <1> QED BY <1>1, <1>3, <1>4, <1>5, FS_AddElement, FS_RemoveElement

\* The balance of a step.
LEMMA Balance ==
    ASSUME TypeInv, TypeInv', SlotsMatch, NEW c \in Int, NEW u \in Int,
           Cardinality(Counted') = Cardinality(Counted) + c,
           Cardinality(UnsavedOnes') = Cardinality(UnsavedOnes) + u,
           slots' + Released' = slots + Released + c + u
    PROVE  SlotsMatch'
  <1>1. slots + Released = Cardinality(Counted) + Cardinality(UnsavedOnes)
    BY CountFacts
  <1>2. Cardinality(Counted) \in Nat /\ Cardinality(UnsavedOnes) \in Nat
    BY CountFacts
  <1>3. MatchFacts'
    BY MatchFactsNext
  <1> QED BY <1>1, <1>2, <1>3 DEF MatchFacts

\* Reserve takes a slot for an id nobody knows.
LEMMA ReserveInv ==
    ASSUME Inv, NEW t \in Threads, NEW i \in Ids, Reserve(t, i)
    PROVE  Inv'
  <1>0. TypeInv /\ ThreadInv /\ PodInv /\ SlotsMatch
    BY DEF Inv
  <1>1. /\ phase = "up" /\ thr[t] = Idle /\ FreshId(i) /\ slots < max
        /\ t = "warm" => ~world.pods
        /\ slots' = slots + 1 /\ age' = [age EXCEPT ![i] = 0]
        /\ thr' = [thr EXCEPT ![t] = [pc |-> "reserved", id |-> i, warm |-> None]]
        /\ UNCHANGED <<world, storeVars, phase, todo, max, prov, snap>>
    BY DEF Reserve
  <1>2. /\ rec[i].state = "none" /\ prov[i] = "none" /\ i \in Keys
        /\ \A u \in Threads : thr[u].id # i /\ thr[u].warm # i
    BY <1>1 DEF FreshId, Exists, Held, Keys
  <1>3. phase \notin Startup /\ "request" \in Threads /\ "warm" \in Threads /\ Threads = {"request", "warm"}
    BY <1>1 DEF Startup, Threads
  <1> DEFINE v == [pc |-> "reserved", id |-> i, warm |-> None]
  <1>4. v \in ThreadRecs /\ v.pc = "reserved" /\ v.id = i /\ thr[t].pc = "idle"
    BY <1>1 DEF Idle, ThreadRecs, PCs
  <1>5. /\ thr' = [thr EXCEPT ![t] = v] /\ thr \in [Threads -> ThreadRecs]
        /\ slots \in Int /\ max \in Nat \ {0} /\ age \in [Keys -> 0 .. 3]
    BY <1>0, <1>1 DEF TypeInv
  <1> HIDE DEF v
  <1>6. /\ thr' \in [Threads -> ThreadRecs] /\ thr'[t] = v
        /\ \A u \in Threads \ {t} : thr'[u] = thr[u]
    BY <1>4, <1>5
  <1>7. slots' \in Int /\ slots' <= max /\ age' \in [Keys -> 0 .. 3]
    <2>1. slots' \in Int /\ slots' <= max
      BY <1>1, <1>5
    <2>2. age' = [age EXCEPT ![i] = 0] /\ age \in [Keys -> 0 .. 3]
      BY <1>1, <1>5
    <2>3. i \in Keys /\ 0 \in 0 .. 3
      BY <1>2
    <2>4. age' \in [Keys -> 0 .. 3]
      BY <2>2, <2>3
    <2> QED BY <2>1, <2>4
  <1>8. TypeInv'
    BY <1>0, <1>1, <1>6, <1>7 DEF TypeInv, storeVars
  <1>9. age'[i] = 0 /\ \A k \in Keys \ {i} : age'[k] = age[k]
    BY <1>1, <1>2, <1>5
  <1>10. RequestOK /\ WarmOK /\ Apart
    BY <1>0, PartsOfThreads DEF ThreadParts
  <1>11. Ids \subseteq Keys
    BY DEF Keys
  <1>12. RequestOK' /\ WarmOK' /\ Apart'
    <2>1. CASE t = "request"
      <3>1. thr'["request"] = v /\ thr'["warm"] = thr["warm"]
        BY <1>3, <1>6, <2>1
      <3>2. RequestOK'
        BY <1>1, <1>2, <1>4, <1>9, <3>1 DEF RequestOK, HasCold, HasWarm, storeVars
      <3>3. WarmOK'
        BY <1>1, <1>2, <1>3, <1>9, <1>10, <1>11, <3>1 DEF WarmOK, storeVars
      <3>4. Apart'
        BY <1>2, <1>3, <1>4, <3>1 DEF Apart
      <3> QED BY <3>2, <3>3, <3>4
    <2>2. CASE t = "warm"
      <3>1. thr'["warm"] = v /\ thr'["request"] = thr["request"]
        BY <1>3, <1>6, <2>2
      <3>2. RequestOK'
        BY <1>1, <1>2, <1>3, <1>9, <1>10, <1>11, <3>1 DEF RequestOK, HasCold, HasWarm, storeVars
      <3>3. WarmOK'
        BY <1>1, <1>2, <1>4, <1>9, <3>1 DEF WarmOK, storeVars
      <3>4. Apart'
        BY <1>2, <1>3, <1>4, <3>1 DEF Apart
      <3> QED BY <3>2, <3>3, <3>4
    <2> QED BY <1>3, <2>1, <2>2
  <1>13. PodInv'
    BY <1>0, <1>1, <1>3, <1>4, <1>6 DEF PodInv, HasWarm, storeVars
  <1>14. SlotsMatch'
    <2>1. UnsavedAt(t)' /\ ~UnsavedAt(t)
      BY <1>4, <1>6 DEF UnsavedAt
    <2>2. Cardinality(UnsavedOnes') = Cardinality(UnsavedOnes) + 1
      BY <1>0, <1>6, <2>1, UnsavedMoves
    <2>3. Counted' = Counted
      BY <1>1 DEF Counted, AccountedIn, storeVars
    <2>4. Released' = Released
      BY <1>3, <1>4, <1>6 DEF Released
    <2>5. Released \in 0 .. 1 /\ Cardinality(Counted) \in Nat
      BY <1>0, CountFacts
    <2>6. /\ Cardinality(Counted') = Cardinality(Counted) + 0
          /\ slots' + Released' = slots + Released + 0 + 1
      BY <1>1, <1>5, <2>3, <2>4, <2>5
    <2> QED BY <1>0, <1>8, <2>2, <2>6, Balance
  <1> QED BY <1>1, <1>3, <1>8, <1>12, <1>13, <1>14, ThreadMoves

\* What the thread steps share: they happen outside the startup, the records
\* and the threads have their types.
LEMMA BusyFacts ==
    ASSUME Inv, NEW t \in Threads, thr[t].pc # "idle"
    PROVE  /\ TypeInv /\ PodInv /\ SlotsMatch /\ RequestOK /\ WarmOK /\ Apart
           /\ phase \notin Startup /\ thr[t].id \in Ids /\ thr[t].id \in Keys
           /\ slots \in Int /\ max \in Nat \ {0} /\ slots <= max
           /\ rec \in [Keys -> Records] /\ disk \in [Keys -> Records]
           /\ age \in [Keys -> 0 .. 3] /\ prov \in [Ids -> {"none", "live", "done"}]
           /\ Released \in 0 .. 1 /\ Cardinality(Counted) \in Nat
           /\ Cardinality(UnsavedOnes) \in Nat
           /\ "request" \in Threads /\ "warm" \in Threads /\ Ids \subseteq Keys
           /\ \A u \in Threads \ {"request"} : u = "warm"
           /\ \A u \in Threads \ {"warm"} : u = "request"
  <1>1. TypeInv /\ PodInv /\ SlotsMatch /\ ThreadInv /\ IdleInStartup
    BY DEF Inv
  <1>2. RequestOK /\ WarmOK /\ Apart
    BY <1>1, PartsOfThreads DEF ThreadParts
  <1>3. phase \notin Startup
    BY <1>1 DEF IdleInStartup, Idle
  <1>4. thr[t].id \in Ids
    BY <1>1 DEF ThreadInv
  <1>5. Ids \subseteq Keys
    BY DEF Keys
  <1>6. /\ slots \in Int /\ max \in Nat \ {0} /\ slots <= max
        /\ rec \in [Keys -> Records] /\ disk \in [Keys -> Records]
        /\ age \in [Keys -> 0 .. 3] /\ prov \in [Ids -> {"none", "live", "done"}]
    BY <1>1 DEF TypeInv
  <1>7. /\ Released \in 0 .. 1 /\ Cardinality(Counted) \in Nat
        /\ Cardinality(UnsavedOnes) \in Nat
    BY <1>1, CountFacts
  <1>8. /\ "request" \in Threads /\ "warm" \in Threads
        /\ \A u \in Threads \ {"request"} : u = "warm"
        /\ \A u \in Threads \ {"warm"} : u = "request"
    BY DEF Threads
  <1> QED BY <1>1, <1>2, <1>3, <1>4, <1>5, <1>6, <1>7, <1>8

\* saveReservedAllocation: the reservation of the request gets its record.
LEMMA SaveReservedInv ==
    ASSUME Inv, SaveReserved
    PROVE  Inv'
  <1> DEFINE id == thr["request"].id
             r == [NoRecord EXCEPT !.state = "reserved"]
  <1>1. /\ thr["request"].pc = "reserved" /\ Step("request", "saved")
        /\ Save(id, r)
        /\ UNCHANGED <<world, phase, todo, slots, max, age, prov, snap>>
    BY DEF SaveReserved, SaveIfCapacity, Save
  <1>2. "request" \in Threads
    BY DEF Threads
  <1>3. thr["request"].pc # "idle"
    BY <1>1
  <1>4. /\ TypeInv /\ PodInv /\ SlotsMatch /\ RequestOK /\ WarmOK /\ Apart
        /\ phase \notin Startup /\ id \in Ids /\ id \in Keys
        /\ slots \in Int /\ Released \in 0 .. 1
        /\ "warm" \in Threads /\ Ids \subseteq Keys
    BY <1>2, <1>3, BusyFacts
  <1>5. r \in Records /\ r.state = "reserved"
    <2>1. "reserved" \in RecordStates
      BY DEF RecordStates, Accounted
    <2> QED BY <2>1, RecordFacts
  <1> HIDE DEF r
  <1>6. Touches(id, "reserved")
    BY <1>1, <1>4, <1>5, SaveTouches
  <1>7. /\ thr' \in [Threads -> ThreadRecs] /\ thr'["request"].pc = "saved"
        /\ thr'["request"].id = id /\ thr'["warm"] = thr["warm"]
        /\ \A u \in Threads \ {"request"} : thr'[u] = thr[u]
    BY <1>1, <1>2, <1>4, ThreadFacts DEF PCs
  <1>8. rec[id].state = "none" /\ prov[id] = "none" /\ age[id] = 0
    BY <1>1, <1>4 DEF RequestOK
  <1>9. TypeInv'
    BY <1>1, <1>4, <1>6, <1>7 DEF TypeInv, Touches
  <1>10. RequestOK'
    BY <1>1, <1>4, <1>6, <1>7, <1>8 DEF RequestOK, HasCold, HasWarm, Touches
  <1>11. WarmOK'
    <2>1. thr["warm"].pc # "idle" => thr["warm"].id # id
      BY <1>3, <1>4 DEF Apart
    <2> QED BY <1>1, <1>4, <1>6, <1>7, <2>1 DEF WarmOK, Touches
  <1>12. Apart'
    BY <1>3, <1>4, <1>7 DEF Apart
  <1>13. PodInv'
    BY <1>1, <1>4, <1>6, <1>7 DEF PodInv, Touches, HasWarm
  <1>14. SlotsMatch'
    <2>1. ~UnsavedAt("request")' /\ UnsavedAt("request")
      BY <1>1, <1>7 DEF UnsavedAt
    <2>2. Cardinality(UnsavedOnes') = Cardinality(UnsavedOnes) - 1
      BY <1>2, <1>4, <1>7, <2>1, UnsavedMoves
    <2>3. Cardinality(Counted') = Cardinality(Counted) + 1
      <3>1. "reserved" \in Accounted /\ "none" \notin Accounted
        BY DEF Accounted
      <3> QED BY <1>1, <1>4, <1>6, <1>8, <3>1, CountedMoves
    <2>4. Released' = Released
      BY <1>1, <1>7 DEF Released
    <2>5. Cardinality(UnsavedOnes) \in Nat
      BY <1>4, CountFacts
    <2>6. /\ Cardinality(UnsavedOnes') = Cardinality(UnsavedOnes) + (-1)
          /\ slots' + Released' = slots + Released + 1 + (-1)
      BY <1>1, <1>4, <2>2, <2>4, <2>5
    <2> QED BY <1>4, <1>9, <2>3, <2>6, Balance
  <1> QED BY <1>1, <1>4, <1>9, <1>10, <1>11, <1>12, <1>13, <1>14, ThreadMoves

\* consumeWarmAllocation: the request claims a warm runner.
LEMMA ConsumeWarmInv ==
    ASSUME Inv, NEW w \in Ids, ConsumeWarm(w)
    PROVE  Inv'
  <1> DEFINE id == thr["request"].id
             v == [pc |-> "claimed", id |-> id, warm |-> w]
  <1>1. /\ thr["request"].pc = "saved" /\ rec[w].state = "warm" /\ MarkState(w, "ready")
        /\ age' = [age EXCEPT ![w] = 0]
        /\ UNCHANGED <<world, phase, todo, slots, max, prov, snap>>
    BY DEF ConsumeWarm, WarmOnes
  <1>2. thr' = [thr EXCEPT !["request"] = v]
    BY DEF ConsumeWarm
  <1>3. "request" \in Threads /\ thr["request"].pc # "idle"
    BY <1>1 DEF Threads
  <1>4. /\ TypeInv /\ PodInv /\ SlotsMatch /\ RequestOK /\ WarmOK /\ Apart
        /\ phase \notin Startup /\ id \in Ids /\ id \in Keys /\ age \in [Keys -> 0 .. 3]
        /\ slots \in Int /\ Released \in 0 .. 1
        /\ "warm" \in Threads /\ w \in Keys /\ Ids \subseteq Keys
    BY <1>3, BusyFacts
  <1>5. Touches(w, "ready")
    BY <1>1, <1>4, MarkTouches DEF RecordStates, Accounted
  <1>6. v \in ThreadRecs /\ v.pc = "claimed" /\ v.id = id /\ v.warm = w
    BY <1>4 DEF ThreadRecs, PCs
  <1> HIDE DEF v
  <1>7. thr \in [Threads -> ThreadRecs]
    BY <1>4 DEF TypeInv
  <1>8. /\ thr' \in [Threads -> ThreadRecs] /\ thr'["request"] = v /\ thr'["warm"] = thr["warm"]
        /\ \A u \in Threads \ {"request"} : thr'[u] = thr[u]
    BY <1>2, <1>3, <1>4, <1>6, <1>7
  <1>9. rec[id].state = "reserved" /\ prov[id] = "none" /\ age[id] = 0
    BY <1>1, <1>4 DEF RequestOK, HasCold
  <1>10. /\ age' \in [Keys -> 0 .. 3] /\ age'[w] = 0 /\ \A k \in Keys : age[k] = 0 => age'[k] = 0
    <2>1. 0 \in 0 .. 3
      OBVIOUS
    <2> QED BY <1>1, <1>4, <2>1
  <1>11. TypeInv'
    BY <1>1, <1>4, <1>5, <1>8, <1>10 DEF TypeInv, Touches
  <1>12. RequestOK'
    BY <1>1, <1>4, <1>5, <1>6, <1>8, <1>9, <1>10 DEF RequestOK, HasCold, HasWarm, Touches
  <1>13. WarmOK'
    <2>1. thr["warm"].pc # "idle" => thr["warm"].id # w
      BY <1>1, <1>4 DEF WarmOK
    <2> QED BY <1>1, <1>4, <1>5, <1>8, <1>10, <2>1 DEF WarmOK, Touches
  <1>14. Apart'
    BY <1>3, <1>4, <1>6, <1>8 DEF Apart
  <1>15. PodInv'
    <2>1. ~world.pods
      BY <1>1, <1>4 DEF PodInv
    <2> QED BY <1>1, <1>4, <2>1 DEF PodInv
  <1>16. SlotsMatch'
    <2>1. UnsavedAt("request")' <=> UnsavedAt("request")
      BY <1>1, <1>6, <1>8 DEF UnsavedAt
    <2>2. Cardinality(UnsavedOnes') = Cardinality(UnsavedOnes)
      BY <1>3, <1>4, <1>8, <2>1, UnsavedMoves
    <2>3. Cardinality(Counted') = Cardinality(Counted)
      <3>1. "ready" \in Accounted /\ "warm" \in Accounted
        BY DEF Accounted
      <3> QED BY <1>1, <1>4, <1>5, <3>1, CountedMoves
    <2>4. Released' = Released
      BY <1>1, <1>6, <1>8 DEF Released
    <2>5. Cardinality(UnsavedOnes) \in Nat /\ Cardinality(Counted) \in Nat
      BY <1>4, CountFacts
    <2>6. /\ Cardinality(UnsavedOnes') = Cardinality(UnsavedOnes) + 0
          /\ Cardinality(Counted') = Cardinality(Counted) + 0
          /\ slots' + Released' = slots + Released + 0 + 0
      BY <1>1, <1>4, <2>2, <2>3, <2>4, <2>5
    <2> QED BY <1>4, <1>11, <2>6, Balance
  <1> QED BY <1>1, <1>4, <1>11, <1>12, <1>13, <1>14, <1>15, <1>16, ThreadMoves

\* The cold reservation of a request that got a warm runner is released.
LEMMA DropColdInv ==
    ASSUME Inv, DropCold
    PROVE  Inv'
  <1>1. /\ thr["request"].pc = "claimed" /\ slots' = slots - 1 /\ Step("request", "dropped")
        /\ UNCHANGED <<world, storeVars, phase, todo, max, age, prov, snap>>
    BY DEF DropCold
  <1>2. "request" \in Threads /\ thr["request"].pc # "idle"
    BY <1>1 DEF Threads
  <1>3. /\ TypeInv /\ PodInv /\ SlotsMatch /\ RequestOK /\ WarmOK /\ Apart
        /\ phase \notin Startup /\ slots \in Int /\ max \in Nat \ {0} /\ slots <= max
        /\ "warm" \in Threads
    BY <1>2, BusyFacts
  <1>4. /\ thr' \in [Threads -> ThreadRecs] /\ thr'["request"].pc = "dropped"
        /\ thr'["request"].id = thr["request"].id /\ thr'["request"].warm = thr["request"].warm
        /\ thr'["warm"] = thr["warm"]
        /\ \A u \in Threads \ {"request"} : thr'[u] = thr[u]
    BY <1>1, <1>2, <1>3, ThreadFacts DEF PCs
  <1>5. slots' \in Int /\ slots' <= max
    BY <1>1, <1>3
  <1>6. TypeInv'
    BY <1>1, <1>3, <1>4, <1>5 DEF TypeInv, storeVars
  <1>7. RequestOK' /\ WarmOK' /\ Apart'
    BY <1>1, <1>3, <1>4 DEF RequestOK, WarmOK, Apart, HasCold, HasWarm, storeVars
  <1>8. PodInv'
    BY <1>1, <1>3, <1>4 DEF PodInv, HasWarm, storeVars
  <1>9. SlotsMatch'
    <2>1. UnsavedAt("request")' <=> UnsavedAt("request")
      BY <1>1, <1>4 DEF UnsavedAt
    <2>2. Cardinality(UnsavedOnes') = Cardinality(UnsavedOnes)
      BY <1>2, <1>3, <1>4, <2>1, UnsavedMoves
    <2>3. Counted' = Counted
      BY <1>1 DEF Counted, AccountedIn, storeVars
    <2>4. Released' = 1 /\ Released = 0
      BY <1>1, <1>4 DEF Released
    <2>5. Cardinality(UnsavedOnes) \in Nat /\ Cardinality(Counted) \in Nat
      BY <1>3, CountFacts
    <2>6. /\ Cardinality(UnsavedOnes') = Cardinality(UnsavedOnes) + 0
          /\ Cardinality(Counted') = Cardinality(Counted) + 0
          /\ slots' + Released' = slots + Released + 0 + 0
      BY <1>1, <1>3, <2>2, <2>3, <2>4, <2>5
    <2> QED BY <1>3, <1>6, <2>6, Balance
  <1> QED BY <1>1, <1>3, <1>6, <1>7, <1>8, <1>9, ThreadMoves

\* Its record is deleted.
LEMMA DeleteColdInv ==
    ASSUME Inv, DeleteCold
    PROVE  Inv'
  <1> DEFINE id == thr["request"].id
  <1>1. /\ thr["request"].pc = "dropped" /\ Save(id, NoRecord) /\ Step("request", "handover")
        /\ UNCHANGED <<world, phase, todo, slots, max, age, prov, snap>>
    BY DEF DeleteCold, Delete, Save
  <1>2. "request" \in Threads /\ thr["request"].pc # "idle"
    BY <1>1 DEF Threads
  <1>3. /\ TypeInv /\ PodInv /\ SlotsMatch /\ RequestOK /\ WarmOK /\ Apart
        /\ phase \notin Startup /\ id \in Ids /\ id \in Keys
        /\ slots \in Int /\ "warm" \in Threads /\ Ids \subseteq Keys
    BY <1>2, BusyFacts
  <1>4. Touches(id, "none")
    BY <1>1, <1>3, SaveTouches, RecordFacts
  <1>5. /\ thr' \in [Threads -> ThreadRecs] /\ thr'["request"].pc = "handover"
        /\ thr'["request"].id = id /\ thr'["request"].warm = thr["request"].warm
        /\ thr'["warm"] = thr["warm"]
        /\ \A u \in Threads \ {"request"} : thr'[u] = thr[u]
    BY <1>1, <1>2, <1>3, ThreadFacts DEF PCs
  <1>6. TypeInv'
    BY <1>1, <1>3, <1>4, <1>5 DEF TypeInv, Touches
  <1>7. RequestOK'
    BY <1>1, <1>3, <1>4, <1>5 DEF RequestOK, HasCold, HasWarm, Touches
  <1>8. WarmOK' /\ Apart'
    BY <1>1, <1>2, <1>3, <1>4, <1>5 DEF WarmOK, Apart, Touches
  <1>9. PodInv'
    BY <1>1, <1>3, <1>4, <1>5 DEF PodInv, HasWarm, Touches
  <1>10. SlotsMatch'
    <2>1. UnsavedAt("request")' <=> UnsavedAt("request")
      BY <1>1, <1>5 DEF UnsavedAt
    <2>2. Cardinality(UnsavedOnes') = Cardinality(UnsavedOnes)
      BY <1>2, <1>3, <1>5, <2>1, UnsavedMoves
    <2>3. rec[id].state \in Accounted /\ "none" \notin Accounted
      BY <1>1, <1>3 DEF RequestOK, HasCold, Accounted
    <2>4. Cardinality(Counted') = Cardinality(Counted) - 1
      BY <1>1, <1>3, <1>4, <2>3, CountedMoves
    <2>5. Released' = 0 /\ Released = 1
      BY <1>1, <1>5 DEF Released
    <2>6. Cardinality(UnsavedOnes) \in Nat /\ Cardinality(Counted) \in Nat
      BY <1>3, CountFacts
    <2>7. /\ Cardinality(UnsavedOnes') = Cardinality(UnsavedOnes) + 0
          /\ Cardinality(Counted') = Cardinality(Counted) + (-1)
          /\ slots' + Released' = slots + Released + (-1) + 0
      BY <1>1, <1>3, <2>2, <2>4, <2>5, <2>6
    <2> QED BY <1>3, <1>6, <2>7, Balance
  <1> QED BY <1>1, <1>3, <1>6, <1>7, <1>8, <1>9, <1>10, ThreadMoves

\* The claimed warm record becomes the answer of the request.
LEMMA HandOverInv ==
    ASSUME Inv, HandOver
    PROVE  Inv'
  <1> DEFINE w == thr["request"].warm
             r == [state |-> "ready", label |-> TRUE, reg |-> TRUE]
  <1>1. /\ thr["request"].pc = "handover" /\ Save(w, r) /\ Finish("request")
        /\ age' = [age EXCEPT ![w] = 0]
        /\ UNCHANGED <<world, phase, todo, slots, max, prov, snap>>
    BY DEF HandOver
  <1>2. "request" \in Threads /\ thr["request"].pc # "idle"
    BY <1>1 DEF Threads
  <1>3. /\ TypeInv /\ PodInv /\ SlotsMatch /\ RequestOK /\ WarmOK /\ Apart
        /\ phase \notin Startup /\ age \in [Keys -> 0 .. 3]
        /\ slots \in Int /\ Released \in 0 .. 1 /\ "warm" \in Threads /\ Ids \subseteq Keys
    BY <1>2, BusyFacts
  <1>4. r \in Records /\ r.state = "ready"
    BY DEF Records, RecordStates, Accounted
  <1> HIDE DEF r
  <1>5. w \in Ids /\ w \in Keys /\ rec[w].state = "ready"
    BY <1>1, <1>3 DEF RequestOK, HasWarm
  <1>6. Touches(w, "ready")
    BY <1>1, <1>3, <1>4, <1>5, SaveTouches
  <1>7. /\ thr' \in [Threads -> ThreadRecs] /\ thr'["request"].pc = "idle"
        /\ thr'["warm"] = thr["warm"]
        /\ \A u \in Threads \ {"request"} : thr'[u] = thr[u]
    BY <1>1, <1>2, <1>3, ThreadFacts
  <1>8. /\ age' \in [Keys -> 0 .. 3] /\ \A k \in Keys : age[k] = 0 => age'[k] = 0
    <2>1. 0 \in 0 .. 3
      OBVIOUS
    <2> QED BY <1>1, <1>3, <1>5, <2>1
  <1>9. TypeInv'
    BY <1>1, <1>3, <1>6, <1>7, <1>8 DEF TypeInv, Touches
  <1>10. RequestOK' /\ Apart'
    BY <1>7 DEF RequestOK, HasCold, HasWarm, Apart
  <1>11. WarmOK'
    <2>1. thr["warm"].pc # "idle" => thr["warm"].id # w
      BY <1>3, <1>5 DEF WarmOK
    <2> QED BY <1>1, <1>3, <1>6, <1>7, <1>8, <2>1 DEF WarmOK, Touches
  <1>12. PodInv'
    <2>1. ~world.pods
      BY <1>1, <1>3 DEF PodInv, HasWarm
    <2> QED BY <1>1, <1>3, <2>1 DEF PodInv
  <1>13. SlotsMatch'
    <2>1. UnsavedAt("request")' <=> UnsavedAt("request")
      BY <1>1, <1>7 DEF UnsavedAt
    <2>2. Cardinality(UnsavedOnes') = Cardinality(UnsavedOnes)
      BY <1>2, <1>3, <1>7, <2>1, UnsavedMoves
    <2>3. Cardinality(Counted') = Cardinality(Counted)
      BY <1>1, <1>3, <1>5, <1>6, CountedMoves
    <2>4. Released' = Released
      BY <1>1, <1>7 DEF Released
    <2>5. Cardinality(UnsavedOnes) \in Nat /\ Cardinality(Counted) \in Nat
      BY <1>3, CountFacts
    <2>6. /\ Cardinality(UnsavedOnes') = Cardinality(UnsavedOnes) + 0
          /\ Cardinality(Counted') = Cardinality(Counted) + 0
          /\ slots' + Released' = slots + Released + 0 + 0
      BY <1>1, <1>3, <2>2, <2>3, <2>4, <2>5
    <2> QED BY <1>3, <1>9, <2>6, Balance
  <1> QED BY <1>1, <1>3, <1>9, <1>10, <1>11, <1>12, <1>13, ThreadMoves

\* A launch: the runner is at the provider.
LEMMA ProvisionInv ==
    ASSUME Inv, NEW t \in Threads, Provision(t)
    PROVE  Inv'
  <1> DEFINE id == thr[t].id
  <1>1. /\ thr[t].pc = IF t = "request" THEN "saved" ELSE "reserved"
        /\ prov' = [prov EXCEPT ![id] = "live"] /\ Step(t, "launched")
        /\ UNCHANGED <<world, storeVars, phase, todo, slots, max, age, snap>>
    BY DEF Provision
  <1>2. thr[t].pc # "idle"
    BY <1>1
  <1>3. /\ TypeInv /\ PodInv /\ SlotsMatch /\ RequestOK /\ WarmOK /\ Apart
        /\ phase \notin Startup /\ id \in Ids /\ id \in Keys
        /\ prov \in [Ids -> {"none", "live", "done"}]
        /\ slots \in Int /\ Released \in 0 .. 1 /\ Ids \subseteq Keys
        /\ "request" \in Threads /\ "warm" \in Threads
        /\ \A u \in Threads \ {"request"} : u = "warm"
    BY <1>2, BusyFacts
  <1>4. /\ thr' \in [Threads -> ThreadRecs] /\ thr'[t].pc = "launched"
        /\ thr'[t].id = id /\ thr'[t].warm = thr[t].warm
        /\ \A u \in Threads \ {t} : thr'[u] = thr[u]
    BY <1>1, <1>3, ThreadFacts DEF PCs
  <1>5. /\ prov' \in [Ids -> {"none", "live", "done"}] /\ prov'[id] = "live"
        /\ \A i \in Ids \ {id} : prov'[i] = prov[i]
    BY <1>1, <1>3
  <1>6. TypeInv'
    BY <1>1, <1>3, <1>4, <1>5 DEF TypeInv, storeVars
  <1>7. RequestOK' /\ WarmOK' /\ Apart' /\ PodInv'
    <2>1. CASE t = "request"
      <3>1. thr'["request"].pc = "launched" /\ thr'["warm"] = thr["warm"]
        BY <1>3, <1>4, <2>1
      <3>2. RequestOK'
        BY <1>1, <1>3, <1>4, <2>1, <3>1 DEF RequestOK, HasCold, HasWarm, storeVars
      <3>3. WarmOK' /\ Apart'
        BY <1>1, <1>2, <1>3, <1>4, <2>1, <3>1 DEF WarmOK, Apart, storeVars
      <3>4. PodInv'
        BY <1>1, <1>3, <1>5, <3>1 DEF PodInv, HasWarm, storeVars
      <3> QED BY <3>2, <3>3, <3>4
    <2>2. CASE t = "warm"
      <3>1. thr'["warm"].pc = "launched" /\ thr'["request"] = thr["request"]
        BY <1>3, <1>4, <2>2
      <3>2. RequestOK'
        <4>1. thr["request"].pc # "idle" => thr["request"].id # id
          BY <1>2, <1>3, <2>2 DEF Apart
        <4> QED BY <1>1, <1>3, <1>5, <3>1, <4>1 DEF RequestOK, HasCold, HasWarm, storeVars
      <3>3. WarmOK' /\ Apart'
        BY <1>1, <1>2, <1>3, <1>4, <2>2, <3>1 DEF WarmOK, Apart, storeVars
      <3>4. PodInv'
        <4>1. ~world.pods
          BY <1>2, <1>3, <2>2 DEF PodInv
        <4> QED BY <1>1, <1>3, <1>5, <4>1 DEF PodInv
      <3> QED BY <3>2, <3>3, <3>4
    <2> QED BY <1>3, <2>1, <2>2
  <1>8. SlotsMatch'
    <2>1. UnsavedAt(t)' <=> UnsavedAt(t)
      BY <1>1, <1>3, <1>4 DEF UnsavedAt
    <2>2. Cardinality(UnsavedOnes') = Cardinality(UnsavedOnes)
      BY <1>3, <1>4, <2>1, UnsavedMoves
    <2>3. Counted' = Counted
      BY <1>1 DEF Counted, AccountedIn, storeVars
    <2>4. Released' = Released
      <3>1. thr'["request"].pc # "dropped" <=> thr["request"].pc # "dropped"
        BY <1>1, <1>3, <1>4
      <3> QED BY <3>1 DEF Released
    <2>5. Cardinality(UnsavedOnes) \in Nat /\ Cardinality(Counted) \in Nat
      BY <1>3, CountFacts
    <2>6. /\ Cardinality(UnsavedOnes') = Cardinality(UnsavedOnes) + 0
          /\ Cardinality(Counted') = Cardinality(Counted) + 0
          /\ slots' + Released' = slots + Released + 0 + 0
      BY <1>1, <1>3, <2>2, <2>3, <2>4, <2>5
    <2> QED BY <1>3, <1>6, <2>6, Balance
  <1> QED BY <1>1, <1>3, <1>6, <1>7, <1>8, ThreadMoves

\* A failed launch of a request ends the reservation and releases its slot.
LEMMA RequestFailsInv ==
    ASSUME Inv, ProvisionFails("request")
    PROVE  Inv'
  <1> DEFINE id == thr["request"].id
  <1>1. /\ thr["request"].pc = "saved" /\ MarkState(id, "ended") /\ slots' = slots - 1
        /\ Finish("request")
        /\ UNCHANGED <<world, phase, todo, max, age, prov, snap>>
    BY DEF ProvisionFails
  <1>2. "request" \in Threads /\ thr["request"].pc # "idle"
    BY <1>1 DEF Threads
  <1>3. /\ TypeInv /\ PodInv /\ SlotsMatch /\ RequestOK /\ WarmOK /\ Apart
        /\ phase \notin Startup /\ id \in Ids /\ id \in Keys
        /\ slots \in Int /\ max \in Nat \ {0} /\ slots <= max
        /\ Released \in 0 .. 1 /\ "warm" \in Threads /\ Ids \subseteq Keys
    BY <1>2, BusyFacts
  <1>4. Touches(id, "ended")
    BY <1>1, <1>3, MarkTouches DEF RecordStates
  <1>5. /\ thr' \in [Threads -> ThreadRecs] /\ thr'["request"].pc = "idle"
        /\ thr'["warm"] = thr["warm"]
        /\ \A u \in Threads \ {"request"} : thr'[u] = thr[u]
    BY <1>1, <1>2, <1>3, ThreadFacts
  <1>6. slots' \in Int /\ slots' <= max
    BY <1>1, <1>3
  <1>7. TypeInv'
    BY <1>1, <1>3, <1>4, <1>5, <1>6 DEF TypeInv, Touches
  <1>8. RequestOK' /\ Apart'
    BY <1>5 DEF RequestOK, HasCold, HasWarm, Apart
  <1>9. WarmOK'
    <2>1. thr["warm"].pc # "idle" => thr["warm"].id # id
      BY <1>2, <1>3 DEF Apart
    <2> QED BY <1>1, <1>3, <1>4, <1>5, <2>1 DEF WarmOK, Touches
  <1>10. PodInv'
    BY <1>1, <1>3, <1>4, <1>5 DEF PodInv, HasWarm, Touches
  <1>11. SlotsMatch'
    <2>1. UnsavedAt("request")' <=> UnsavedAt("request")
      BY <1>1, <1>5 DEF UnsavedAt
    <2>2. Cardinality(UnsavedOnes') = Cardinality(UnsavedOnes)
      BY <1>2, <1>3, <1>5, <2>1, UnsavedMoves
    <2>3. rec[id].state \in Accounted /\ "ended" \notin Accounted
      BY <1>1, <1>3 DEF RequestOK, HasCold, Accounted
    <2>4. Cardinality(Counted') = Cardinality(Counted) - 1
      BY <1>1, <1>3, <1>4, <2>3, CountedMoves
    <2>5. Released' = Released
      BY <1>1, <1>5 DEF Released
    <2>6. Cardinality(UnsavedOnes) \in Nat /\ Cardinality(Counted) \in Nat
      BY <1>3, CountFacts
    <2>7. /\ Cardinality(UnsavedOnes') = Cardinality(UnsavedOnes) + 0
          /\ Cardinality(Counted') = Cardinality(Counted) + (-1)
          /\ slots' + Released' = slots + Released + (-1) + 0
      BY <1>1, <1>3, <2>2, <2>4, <2>5, <2>6
    <2> QED BY <1>3, <1>7, <2>7, Balance
  <1> QED BY <1>1, <1>3, <1>7, <1>8, <1>9, <1>10, <1>11, ThreadMoves

\* A failed launch of a warm runner releases the slot; there is no record.
LEMMA WarmFailsInv ==
    ASSUME Inv, ProvisionFails("warm")
    PROVE  Inv'
  <1>1. /\ thr["warm"].pc = "reserved" /\ slots' = slots - 1 /\ Finish("warm")
        /\ UNCHANGED <<world, storeVars, phase, todo, max, age, prov, snap>>
    BY DEF ProvisionFails
  <1>2. "warm" \in Threads /\ thr["warm"].pc # "idle"
    BY <1>1 DEF Threads
  <1>3. /\ TypeInv /\ PodInv /\ SlotsMatch /\ RequestOK /\ WarmOK /\ Apart
        /\ phase \notin Startup
        /\ slots \in Int /\ max \in Nat \ {0} /\ slots <= max
        /\ Released \in 0 .. 1 /\ "request" \in Threads
    BY <1>2, BusyFacts
  <1>4. /\ thr' \in [Threads -> ThreadRecs] /\ thr'["warm"].pc = "idle"
        /\ thr'["request"] = thr["request"]
        /\ \A u \in Threads \ {"warm"} : thr'[u] = thr[u]
    BY <1>1, <1>2, <1>3, ThreadFacts
  <1>5. slots' \in Int /\ slots' <= max
    BY <1>1, <1>3
  <1>6. TypeInv'
    BY <1>1, <1>3, <1>4, <1>5 DEF TypeInv, storeVars
  <1>7. WarmOK' /\ Apart'
    BY <1>4 DEF WarmOK, Apart
  <1>8. RequestOK' /\ PodInv'
    BY <1>1, <1>3, <1>4 DEF RequestOK, PodInv, HasCold, HasWarm, storeVars
  <1>9. SlotsMatch'
    <2>1. ~UnsavedAt("warm")' /\ UnsavedAt("warm")
      BY <1>1, <1>4 DEF UnsavedAt
    <2>2. Cardinality(UnsavedOnes') = Cardinality(UnsavedOnes) - 1
      BY <1>2, <1>3, <1>4, <2>1, UnsavedMoves
    <2>3. Counted' = Counted
      BY <1>1 DEF Counted, AccountedIn, storeVars
    <2>4. Released' = Released
      BY <1>4 DEF Released
    <2>5. Cardinality(UnsavedOnes) \in Nat /\ Cardinality(Counted) \in Nat
      BY <1>3, CountFacts
    <2>6. /\ Cardinality(UnsavedOnes') = Cardinality(UnsavedOnes) + (-1)
          /\ Cardinality(Counted') = Cardinality(Counted) + 0
          /\ slots' + Released' = slots + Released + 0 + (-1)
      BY <1>1, <1>3, <2>2, <2>3, <2>4, <2>5
    <2> QED BY <1>3, <1>6, <2>6, Balance
  <1> QED BY <1>1, <1>3, <1>6, <1>7, <1>8, <1>9, ThreadMoves

\* The launched reservation becomes ready, or its runner goes.
LEMMA CommitInv ==
    ASSUME Inv, Commit
    PROVE  Inv'
  <1> DEFINE id == thr["request"].id
             r == [rec[id] EXCEPT !.state = "ready", !.label = TRUE]
  <1>1. /\ thr["request"].pc = "launched" /\ Finish("request")
        /\ UNCHANGED <<world, phase, todo, slots, max, age, snap>>
    BY DEF Commit
  <1>2. "request" \in Threads /\ thr["request"].pc # "idle"
    BY <1>1 DEF Threads
  <1>3. /\ TypeInv /\ PodInv /\ SlotsMatch /\ RequestOK /\ WarmOK /\ Apart
        /\ phase \notin Startup /\ id \in Ids /\ id \in Keys
        /\ rec \in [Keys -> Records] /\ disk \in [Keys -> Records]
        /\ prov \in [Ids -> {"none", "live", "done"}]
        /\ slots \in Int /\ Released \in 0 .. 1 /\ "warm" \in Threads /\ Ids \subseteq Keys
    BY <1>2, BusyFacts
  <1>4. /\ thr' \in [Threads -> ThreadRecs] /\ thr'["request"].pc = "idle"
        /\ thr'["warm"] = thr["warm"]
        /\ \A u \in Threads \ {"request"} : thr'[u] = thr[u]
    BY <1>1, <1>2, <1>3, ThreadFacts
  <1>5. PICK s : /\ Touches(id, s) /\ (s # "warm" \/ s = rec[id].state)
                 /\ s \in Accounted <=> rec[id].state \in Accounted
                 /\ prov' \in [Ids -> {"none", "live", "done"}]
                 /\ \A i \in Ids : prov'[i] \in {prov[i], "none"}
    <2>1. CASE SaveIfState(id, r, "reserved") /\ UNCHANGED prov
      <3>1. rec[id] \in Records /\ rec[id].state = "reserved"
        BY <1>3, <2>1 DEF SaveIfState
      <3>2. r \in Records /\ r.state = "ready"
        BY <3>1 DEF Records, RecordStates, Accounted
      <3> HIDE DEF r
      <3>3. Save(id, r)
        BY <2>1 DEF SaveIfState, Save
      <3>4. Touches(id, "ready")
        BY <1>3, <3>2, <3>3, SaveTouches
      <3> QED BY <1>3, <2>1, <3>1, <3>4 DEF Accounted
    <2>2. CASE Cleanup(id) /\ UNCHANGED storeVars
      <3>1. Touches(id, rec[id].state)
        BY <1>3, <2>2 DEF Touches, storeVars
      <3>2. /\ prov' \in [Ids -> {"none", "live", "done"}]
            /\ \A i \in Ids : prov'[i] \in {prov[i], "none"}
        BY <1>3, <2>2, CleanupFacts
      <3> QED BY <3>1, <3>2
    <2> QED BY <2>1, <2>2 DEF Commit
  <1>6. TypeInv'
    BY <1>1, <1>3, <1>4, <1>5 DEF TypeInv, Touches
  <1>7. RequestOK' /\ Apart'
    BY <1>4 DEF RequestOK, HasCold, HasWarm, Apart
  <1>8. WarmOK'
    <2>1. thr["warm"].pc # "idle" => thr["warm"].id # id
      BY <1>2, <1>3 DEF Apart
    <2> QED BY <1>1, <1>3, <1>4, <1>5, <2>1 DEF WarmOK, Touches
  <1>9. PodInv'
    BY <1>1, <1>3, <1>4, <1>5 DEF PodInv, HasWarm, Touches
  <1>10. SlotsMatch'
    <2>1. UnsavedAt("request")' <=> UnsavedAt("request")
      BY <1>1, <1>4 DEF UnsavedAt
    <2>2. Cardinality(UnsavedOnes') = Cardinality(UnsavedOnes)
      BY <1>2, <1>3, <1>4, <2>1, UnsavedMoves
    <2>3. Cardinality(Counted') = Cardinality(Counted)
      BY <1>1, <1>3, <1>5, CountedMoves
    <2>4. Released' = Released
      BY <1>1, <1>4 DEF Released
    <2>5. Cardinality(UnsavedOnes) \in Nat /\ Cardinality(Counted) \in Nat
      BY <1>3, CountFacts
    <2>6. /\ Cardinality(UnsavedOnes') = Cardinality(UnsavedOnes) + 0
          /\ Cardinality(Counted') = Cardinality(Counted) + 0
          /\ slots' + Released' = slots + Released + 0 + 0
      BY <1>1, <1>3, <2>2, <2>3, <2>4, <2>5
    <2> QED BY <1>3, <1>6, <2>6, Balance
  <1> QED BY <1>1, <1>3, <1>6, <1>7, <1>8, <1>9, <1>10, ThreadMoves

\* createWarmAllocation saves the record of a launched warm runner.
LEMMA SaveWarmInv ==
    ASSUME Inv, SaveWarm
    PROVE  Inv'
  <1> DEFINE id == thr["warm"].id
             r == [state |-> "warm", label |-> TRUE, reg |-> FALSE]
  <1>1. /\ thr["warm"].pc = "launched" /\ Save(id, r) /\ Finish("warm")
        /\ UNCHANGED <<world, phase, todo, slots, max, age, prov, snap>>
    BY DEF SaveWarm
  <1>2. "warm" \in Threads /\ thr["warm"].pc # "idle"
    BY <1>1 DEF Threads
  <1>3. /\ TypeInv /\ PodInv /\ SlotsMatch /\ RequestOK /\ WarmOK /\ Apart
        /\ phase \notin Startup /\ id \in Ids /\ id \in Keys
        /\ slots \in Int /\ Released \in 0 .. 1 /\ "request" \in Threads /\ Ids \subseteq Keys
    BY <1>2, BusyFacts
  <1>4. r \in Records /\ r.state = "warm"
    BY DEF Records, RecordStates, Accounted
  <1> HIDE DEF r
  <1>5. Touches(id, "warm") /\ rec[id].state = "none"
    BY <1>1, <1>2, <1>3, <1>4, SaveTouches DEF WarmOK
  <1>6. /\ thr' \in [Threads -> ThreadRecs] /\ thr'["warm"].pc = "idle"
        /\ thr'["request"] = thr["request"]
        /\ \A u \in Threads \ {"warm"} : thr'[u] = thr[u]
    BY <1>1, <1>2, <1>3, ThreadFacts
  <1>7. TypeInv'
    BY <1>1, <1>3, <1>5, <1>6 DEF TypeInv, Touches
  <1>8. WarmOK' /\ Apart'
    BY <1>6 DEF WarmOK, Apart
  <1>9. RequestOK'
    <2>1. thr["request"].pc # "idle" => thr["request"].id # id
      BY <1>2, <1>3 DEF Apart
    <2>2. HasWarm => thr["request"].warm # id
      BY <1>3, <1>5 DEF RequestOK
    <2> QED BY <1>1, <1>3, <1>5, <1>6, <2>1, <2>2 DEF RequestOK, HasCold, HasWarm, Touches
  <1>10. PodInv'
    <2>1. ~world.pods
      BY <1>2, <1>3 DEF PodInv
    <2> QED BY <1>1, <1>3, <2>1 DEF PodInv
  <1>11. SlotsMatch'
    <2>1. ~UnsavedAt("warm")' /\ UnsavedAt("warm")
      BY <1>1, <1>6 DEF UnsavedAt
    <2>2. Cardinality(UnsavedOnes') = Cardinality(UnsavedOnes) - 1
      BY <1>2, <1>3, <1>6, <2>1, UnsavedMoves
    <2>3. Cardinality(Counted') = Cardinality(Counted) + 1
      <3>1. "warm" \in Accounted /\ "none" \notin Accounted
        BY DEF Accounted
      <3> QED BY <1>1, <1>3, <1>5, <3>1, CountedMoves
    <2>4. Released' = Released
      BY <1>6 DEF Released
    <2>5. Cardinality(UnsavedOnes) \in Nat /\ Cardinality(Counted) \in Nat
      BY <1>3, CountFacts
    <2>6. /\ Cardinality(UnsavedOnes') = Cardinality(UnsavedOnes) + (-1)
          /\ slots' + Released' = slots + Released + 1 + (-1)
      BY <1>1, <1>3, <2>2, <2>4, <2>5
    <2> QED BY <1>3, <1>7, <2>3, <2>6, Balance
  <1> QED BY <1>1, <1>3, <1>7, <1>8, <1>9, <1>10, <1>11, ThreadMoves

-----------------------------------------------------------------------------
(* The beginning and the end of a process.                                  *)

\* A process that has loaded its store and done nothing else.
Starting ==
    /\ phase = "rehydrate" /\ todo = AccountedIn(rec) /\ slots = 0
    /\ thr = [t \in Threads |-> Idle]
StartsWell == TypeInv /\ PodInv /\ Starting => Inv

\* It has no slot and counts no record.
LEMMA FreshStart == StartsWell
  <1> SUFFICES ASSUME TypeInv, PodInv, Starting PROVE Inv
    BY DEF StartsWell
  <1>1. phase = "rehydrate" /\ todo = AccountedIn(rec) /\ slots = 0
    BY DEF Starting
  <1>2. \A t \in Threads : thr[t] = Idle
    BY DEF Starting
  <1>3. IdleInStartup
    BY <1>2 DEF IdleInStartup
  <1>4. "request" \in Threads /\ "warm" \in Threads
    BY DEF Threads
  <1>5. \A t \in Threads : thr[t].pc = "idle"
    BY <1>2 DEF Idle
  <1>6. ThreadInv
    BY <1>4, <1>5 DEF ThreadInv, UnsavedAt, HasCold, HasWarm
  <1>7. StartInv
    BY <1>1 DEF StartInv
  <1>8. UnsavedOnes = {} /\ Released = 0
    BY <1>1, <1>3, StartupIsQuiet DEF Startup
  <1>9. Counted = {}
    BY <1>1 DEF Counted
  <1>10. SlotsMatch
    BY <1>1, <1>8, <1>9, CountFacts, FS_EmptySet
  <1> QED BY <1>3, <1>6, <1>7, <1>10 DEF Inv

\* Also in the next state.
LEMMA FreshStartNext == StartsWell'
  BY FreshStart, PTL

\* The first process finds an empty store.
LEMMA InitInv == Init => Inv
  <1> SUFFICES ASSUME Init PROVE Inv
    OBVIOUS
  <1>1. /\ world \in Worlds /\ rec = Empty /\ disk = Empty
        /\ phase = "rehydrate" /\ todo = {} /\ slots = 0 /\ max \in world.maxes
        /\ age = [k \in Keys |-> 0] /\ prov = [i \in Ids |-> "none"]
        /\ thr = [t \in Threads |-> Idle] /\ snap = NoPass
    BY DEF Init, StoreInit
  <1>2. Idle \in ThreadRecs /\ Idle.pc = "idle"
    BY DEF Idle, ThreadRecs, PCs
  <1>3. max \in Nat \ {0}
    BY <1>1, RecoveryAssumption
  <1>4. age \in [Keys -> 0 .. 3]
    BY <1>1
  <1>5. TypeInv
    BY <1>1, <1>2, <1>3, <1>4, RecordFacts DEF TypeInv, Startup
  <1>6. "request" \in Threads /\ "warm" \in Threads
    BY DEF Threads
  <1>7. thr["warm"].pc = "idle" /\ thr["request"].pc = "idle"
    BY <1>1, <1>2, <1>6
  <1>8. PodInv
    BY <1>1, <1>7, RecordFacts DEF PodInv, HasWarm
  <1>9. AccountedIn(rec) = {}
    BY <1>1, RecordFacts DEF AccountedIn, Accounted
  <1>10. Starting
    BY <1>1, <1>9 DEF Starting
  <1> QED BY <1>5, <1>8, <1>10, FreshStart DEF StartsWell

\* A new process starts with the records the old one left on disk.
LEMMA RestartInv ==
    ASSUME Inv, Restart
    PROVE  Inv'
  <1>0. TypeInv /\ PodInv
    BY DEF Inv
  <1>1. /\ rec' = disk /\ disk' = disk /\ phase' = "rehydrate" /\ todo' = AccountedIn(disk)
        /\ slots' = 0 /\ max' \in world.maxes /\ thr' = [t \in Threads |-> Idle]
        /\ snap' = NoPass /\ UNCHANGED <<world, age, prov>>
    BY DEF Restart, Load
  <1>2. Idle \in ThreadRecs /\ Idle.pc = "idle"
    BY DEF Idle, ThreadRecs, PCs
  <1>3. max' \in Nat \ {0}
    BY <1>0, <1>1, RecoveryAssumption DEF TypeInv
  <1>4. AccountedIn(disk) \subseteq Keys
    BY DEF AccountedIn
  <1>5. TypeInv'
    BY <1>0, <1>1, <1>2, <1>3, <1>4 DEF TypeInv, Startup
  <1>6. "request" \in Threads /\ "warm" \in Threads
    BY DEF Threads
  <1>7. thr'["warm"].pc = "idle" /\ thr'["request"].pc = "idle"
    BY <1>1, <1>2, <1>6
  <1>8. PodInv'
    BY <1>0, <1>1, <1>7 DEF PodInv, HasWarm
  <1>9. AccountedIn(rec)' = AccountedIn(disk)
    BY <1>1 DEF AccountedIn
  <1>10. Starting'
    BY <1>1, <1>9 DEF Starting
  <1> QED BY <1>5, <1>8, <1>10, FreshStartNext DEF StartsWell

\* Every step keeps the invariant, if no hold that has ended is taken up again.
LEMMA StepInv ==
    ASSUME Inv, HoldsCounted, [Next]_vars
    PROVE  Inv'
  <1>1. CASE StartupStep
    BY <1>1, RehydrateInv, TerminalizeInv, RebuildInv, HoldInv, NextPhaseInv DEF StartupStep
  <1>2. ASSUME NEW t \in Threads, ProvisionFails(t) PROVE Inv'
    BY <1>2, RequestFailsInv, WarmFailsInv DEF Threads
  <1>3. CASE ThreadStep
    BY <1>2, <1>3, SaveReservedInv, DropColdInv, DeleteColdInv, HandOverInv, CommitInv,
       SaveWarmInv, ConsumeWarmInv, ProvisionInv DEF ThreadStep
  <1>4. CASE LoopStep
    BY <1>4, LoopInv
  <1>5. CASE \E t \in Threads, i \in Ids : Reserve(t, i)
    BY <1>5, ReserveInv
  <1>6. CASE \/ \E i \in Ids : RunnerExits(i) \/ PodVanishes(i)
             \/ \E k \in Keys : Ages(k)
             \/ BeginDrain
             \/ UNCHANGED vars
    BY <1>6, AroundInv
  <1>7. CASE Restart
    BY <1>7, RestartInv
  <1> QED BY <1>1, <1>3, <1>4, <1>5, <1>6, <1>7 DEF Next

\* The invariant gives the types: a released slot was a slot.
LEMMA InvTypes ==
    ASSUME Inv
    PROVE  TypeOK
  <1>0. TypeInv /\ ThreadInv /\ SlotsMatch /\ IdleInStartup
    BY DEF Inv
  <1>1. slots \in Int /\ max \in Nat /\ slots <= max
    BY <1>0 DEF TypeInv
  <1>2. slots + Released = Cardinality(Counted) + Cardinality(UnsavedOnes)
    BY <1>0, CountFacts
  <1>3. /\ Cardinality(Counted) \in Nat /\ Cardinality(UnsavedOnes) \in Nat
        /\ IsFiniteSet(Counted) /\ Released \in 0 .. 1
    BY <1>0, CountFacts
  <1>4. slots >= 0
    <2>1. CASE Released = 0
      BY <1>1, <1>2, <1>3, <2>1
    <2>2. CASE thr["request"].pc = "dropped"
      <3>1. "request" \in Threads
        BY DEF Threads
      <3>2. rec[thr["request"].id].state = "reserved" /\ thr["request"].id \in Keys
        BY <1>0, <2>2, <3>1 DEF ThreadInv, HasCold, Keys
      <3>3. phase \notin Startup
        BY <1>0, <2>2, <3>1 DEF IdleInStartup, Idle
      <3>4. thr["request"].id \in Counted
        BY <3>2, <3>3 DEF Counted, AccountedIn, Accounted, Startup
      <3>5. Cardinality(Counted) # 0
        BY <1>3, <3>4, FS_EmptySet
      <3> QED BY <1>1, <1>2, <1>3, <3>5
    <2> QED BY <2>1, <2>2 DEF Released
  <1>5. slots \in 0 .. max
    BY <1>1, <1>4
  <1>6. \A t \in Threads : thr[t].pc \in PCs
    BY <1>0 DEF TypeInv, ThreadRecs
  <1> QED BY <1>0, <1>5, <1>6 DEF TypeInv, TypeOK, PCs

\* The scheduler of a restarted broker counts the accounted records of its
\* store and the reservations on their way into it, exactly, in every behaviour
\* in which createRestartOrphanHolds (service.go) takes up no hold that has ended.
THEOREM SlotsFollowRecords == Spec /\ []HoldsCounted => []SlotsMatch
  <1>1. Init => Inv
    BY InitInv
  <1>2. Inv /\ HoldsCounted /\ [Next]_vars => Inv'
    BY StepInv
  <1>3. Inv => SlotsMatch
    BY DEF Inv
  <1> QED BY <1>1, <1>2, <1>3, PTL DEF Spec

-----------------------------------------------------------------------------
(* Holds of an earlier restart.                                             *)

\* No hold is left from an earlier restart when createRestartOrphanHolds makes
\* new ones: the memory store forgets its holds, with the PostgreSQL store there
\* are none, and the file store has none before its first restart.
HoldsAreNew == world.store = "file" => restarts <= 1

\* What is known of the holds: there is none before the first restart, and none
\* in a startup that has not come to it.
HoldsInv ==
    /\ restarts \in Nat /\ restarts <= world.restarts
    /\ world.store = "memory" => disk = Empty
    /\ phase \in {"rebuild", "gaps"} => Local
    /\ restarts = 0 =>
         /\ \A n \in HoldIds : rec[n].state = "none" /\ disk[n].state = "none"
         /\ phase \in Startup => \A i \in Ids : prov[i] # "live"
         /\ phase = "gaps" => todo = {}
    /\ Local /\ phase \in {"rehydrate", "terminalize", "rebuild"}
         => \A n \in HoldIds : rec[n].state = "none"
    /\ phase = "gaps" => \A n \in todo : ~Exists(n)

\* A step that makes no hold.
NoNewHold ==
    /\ \A n \in HoldIds : rec[n].state = "none" =>
         /\ rec'[n].state = "none"
         /\ disk[n].state = "none" => disk'[n].state = "none"
    /\ world.store = "memory" /\ disk = Empty => disk' = Empty

\* A write of the whole map that makes no hold, and one that fails.
LEMMA PersistHolds ==
    ASSUME NEW m, NEW m0, NEW d,
           \A n \in HoldIds : rec[n].state = "none" =>
             /\ m[n].state = "none" /\ m0[n].state = "none"
             /\ disk[n].state = "none" => d[n].state = "none",
           Persist(m) \/ PersistFails(m0, d, m)
    PROVE  NoNewHold
  <1>1. \A n \in HoldIds : Empty[n].state = "none"
    BY RecordFacts DEF Keys
  <1>2. CASE Persist(m)
    BY <1>1, <1>2 DEF Persist, NoNewHold
  <1>3. CASE PersistFails(m0, d, m)
    <2>1. world.store # "memory" /\ rec' = m0 /\ disk' \in {d, m}
      BY <1>3 DEF PersistFails
    <2> QED BY <2>1 DEF NoNewHold
  <1> QED BY <1>2, <1>3

\* The writes of the model: to the record of a runner, or to one that exists.
LEMMA WriteHolds ==
    ASSUME TypeInv
    PROVE  /\ UNCHANGED storeVars => NoNewHold
           /\ \A i \in Ids, r \in Records : Save(i, r) \/ SaveFails(i, r) => NoNewHold
           /\ \A i \in Ids : Delete(i) => NoNewHold
           /\ \A k \in Keys, s \in RecordStates : MarkState(k, s) => NoNewHold
           /\ \A k \in Keys : PruneTerminal(k) => NoNewHold
  <1>1. rec \in [Keys -> Records] /\ disk \in [Keys -> Records] /\ Ids \subseteq Keys
        /\ \A n \in HoldIds : n \in Keys /\ n \notin Ids
    BY RecoveryAssumption DEF TypeInv, Keys
  <1>2. UNCHANGED storeVars => NoNewHold
    BY DEF storeVars, NoNewHold
  <1>3. ASSUME NEW i \in Ids, NEW r \in Records
        PROVE  \A n \in HoldIds : Saved(i, r)[n] = rec[n]
    BY <1>1 DEF Saved
  <1>4. ASSUME NEW i \in Ids, NEW r \in Records, Save(i, r) \/ SaveFails(i, r)
        PROVE  NoNewHold
    BY <1>3, <1>4, PersistHolds DEF Save, SaveFails
  <1>5. ASSUME NEW i \in Ids, Delete(i) PROVE NoNewHold
    BY <1>4, <1>5, RecordFacts DEF Delete, Save
  <1>6. ASSUME NEW k \in Keys, NEW s \in RecordStates, MarkState(k, s) PROVE NoNewHold
    <2>1. rec[k].state # "none" /\ Persist(Marked(k, s))
      BY <1>6 DEF MarkState, Exists
    <2>2. \A n \in HoldIds : n # k => Marked(k, s)[n] = rec[n]
      BY <1>1 DEF Marked
    <2> QED BY <2>1, <2>2, PersistHolds
  <1>7. ASSUME NEW k \in Keys, PruneTerminal(k) PROVE NoNewHold
    <2>1. rec[k].state # "none" /\ Persist(Saved(k, NoRecord))
      BY <1>7 DEF PruneTerminal
    <2>2. \A n \in HoldIds : n # k => Saved(k, NoRecord)[n] = rec[n]
      BY <1>1 DEF Saved
    <2> QED BY <2>1, <2>2, PersistHolds
  <1> QED BY <1>2, <1>4, <1>5, <1>6, <1>7

\* A step that makes no hold and launches no runner during the startup.
LEMMA HoldsStay ==
    ASSUME HoldsInv, NoNewHold, UNCHANGED <<world, restarts>>, todo' \subseteq todo,
           phase' = phase \/ phase' \notin Startup,
           phase \in Startup => \A i \in Ids : prov'[i] = "live" => prov[i] = "live",
           phase = "gaps" => UNCHANGED rec
    PROVE  HoldsInv'
  <1>1. phase' \in Startup => phase' = phase
    OBVIOUS
  <1> QED BY <1>1 DEF HoldsInv, NoNewHold, Local, Startup, Exists

\* Cleanup launches nothing.
LEMMA CleanupLaunchesNothing ==
    ASSUME TypeInv, NEW k, Cleanup(k)
    PROVE  \A i \in Ids : prov'[i] = "live" => prov[i] = "live"
  BY DEF Cleanup, TypeInv

\* The startup phases before the gaps make no hold.
LEMMA StartupHolds ==
    ASSUME Inv, HoldsInv,
           \/ \E k \in Keys : rehydrateSchedulerState(k) \/ terminalizeIncompleteReserved(k)
           \/ \E i \in Ids : rebuildLiveRunner(i)
    PROVE  HoldsInv'
  <1>0. TypeInv /\ StartInv
    BY DEF Inv
  <1>1. rec \in [Keys -> Records]
    BY <1>0 DEF TypeInv
  <1>2. ASSUME NEW k \in Keys, rehydrateSchedulerState(k) PROVE HoldsInv'
    <2>1. /\ phase = "rehydrate" /\ todo' = todo \ {k}
          /\ UNCHANGED <<world, phase, max, age, prov, thr, snap, restarts>>
      BY <1>2 DEF rehydrateSchedulerState
    <2>2. UNCHANGED storeVars \/ MarkState(k, "ended")
      BY <1>2 DEF rehydrateSchedulerState, expireUnrehydratable
    <2>3. NoNewHold
      BY <1>0, <2>2, WriteHolds DEF RecordStates
    <2> QED BY <2>1, <2>3, HoldsStay
  <1>3. ASSUME NEW k \in Keys, terminalizeIncompleteReserved(k) PROVE HoldsInv'
    <2> DEFINE labelled == [rec[k] EXCEPT !.label = TRUE]
               over == [labelled EXCEPT !.state = IF world.quarantine THEN "quarantined"
                                                  ELSE "ended"]
    <2>1. /\ phase = "terminalize" /\ k \in todo /\ todo' = todo \ {k}
          /\ UNCHANGED <<world, phase, max, thr, snap, restarts>>
      BY <1>3 DEF terminalizeIncompleteReserved
    <2>2. k \in Ids
      BY <1>0, <2>1 DEF StartInv
    <2>3. labelled \in Records /\ over \in Records
      BY <1>1 DEF Records, RecordStates
    <2>4. \A n \in HoldIds : Saved(k, labelled)[n] = rec[n] /\ Saved(k, over)[n] = rec[n]
      BY <1>1, <2>2, RecoveryAssumption DEF Saved, Keys
    <2>5. \/ Save(k, over) /\ Cleanup(k)
          \/ SaveFails(k, labelled) /\ UNCHANGED prov
          \/ PersistFails(Saved(k, labelled), Saved(k, labelled), Saved(k, over)) /\ UNCHANGED prov
      BY <1>3 DEF terminalizeIncompleteReserved
    <2> HIDE DEF labelled, over
    <2>6. NoNewHold
      BY <1>0, <2>2, <2>3, <2>4, <2>5, WriteHolds, PersistHolds
    <2>7. \A i \in Ids : prov'[i] = "live" => prov[i] = "live"
      BY <1>0, <2>5, CleanupLaunchesNothing
    <2> QED BY <2>1, <2>6, <2>7, HoldsStay
  <1>4. ASSUME NEW i \in Ids, rebuildLiveRunner(i) PROVE HoldsInv'
    <2> DEFINE r == [state |-> "ready", label |-> TRUE, reg |-> TRUE]
    <2>1. /\ phase = "rebuild" /\ todo' = todo \ {i}
          /\ UNCHANGED <<world, phase, max, thr, snap, restarts>>
      BY <1>4 DEF rebuildLiveRunner
    <2>2. /\ Save(i, r) \/ SaveFails(i, r) \/ UNCHANGED storeVars
          /\ Cleanup(i) \/ UNCHANGED prov
      BY <1>4 DEF rebuildLiveRunner
    <2>3. r \in Records
      BY DEF Records, RecordStates, Accounted
    <2> HIDE DEF r
    <2>4. NoNewHold
      BY <1>0, <2>2, <2>3, WriteHolds
    <2>5. \A j \in Ids : prov'[j] = "live" => prov[j] = "live"
      BY <1>0, <2>2, CleanupLaunchesNothing
    <2> QED BY <2>1, <2>4, <2>5, HoldsStay
  <1> QED BY <1>2, <1>3, <1>4

\* createRestartOrphanHolds makes the hold it comes to; the others of its list
\* are still to be made.
LEMMA GapHolds ==
    ASSUME Inv, HoldsInv, NEW n \in HoldIds, createRestartOrphanHold(n)
    PROVE  HoldsInv'
  <1>0. TypeInv
    BY DEF Inv
  <1>1. /\ phase = "gaps" /\ n \in todo /\ todo' = todo \ {n}
        /\ UNCHANGED <<world, phase, max, prov, thr, snap, restarts>>
    BY DEF createRestartOrphanHold
  <1>2. restarts # 0
    BY <1>1 DEF HoldsInv
  <1> DEFINE hold == [rec[n] EXCEPT !.state = "reserved"]
             mark == [hold EXCEPT !.state = "quarantined"]
  <1>3. \/ Save(n, hold) \/ SaveFails(n, hold) \/ Save(n, mark) \/ UNCHANGED storeVars
    BY DEF createRestartOrphanHold
  <1>4. n \in Keys /\ rec \in [Keys -> Records] /\ todo \subseteq Keys
    BY <1>0 DEF TypeInv, Keys
  <1> HIDE DEF hold, mark
  <1>5. \A j \in todo' : rec'[j] = rec[j]
    BY <1>1, <1>3, <1>4 DEF Save, Persist, SaveFails, PersistFails, Saved, storeVars
  <1>6. world.store = "memory" /\ disk = Empty => disk' = Empty
    BY <1>3 DEF Save, Persist, SaveFails, PersistFails, storeVars
  <1> QED BY <1>1, <1>2, <1>5, <1>6 DEF HoldsInv, Local, Exists

\* The first startup finds no gap, and a later one no hold.
LEMMA NextPhaseHolds ==
    ASSUME Inv, HoldsInv, NextPhase
    PROVE  HoldsInv'
  <1>0. TypeInv
    BY DEF Inv
  <1>1. /\ phase \in Startup
        /\ UNCHANGED <<world, storeVars, slots, max, age, prov, thr, snap, restarts>>
    BY DEF NextPhase
  <1>2. CASE phase' = "terminalize" \/ phase' = "up"
    <2>1. phase' = "terminalize" => phase = "rehydrate"
      BY DEF NextPhase
    <2> QED BY <1>1, <1>2, <2>1 DEF HoldsInv, Local, Startup, storeVars
  <1>3. CASE phase = "terminalize" /\ Local /\ phase' = "rebuild"
    BY <1>1, <1>3 DEF HoldsInv, Local, storeVars
  <1>4. CASE phase = "rebuild" /\ phase' = "gaps" /\ todo' = capacityGap
    <2>1. Local /\ \A n \in HoldIds : rec[n].state = "none"
      BY <1>4 DEF HoldsInv
    <2>2. todo' \subseteq HoldIds
      <3>1. StartInv'
        BY NextPhaseInv DEF Inv
      <3> QED BY <1>4, <3>1 DEF StartInv
    <2>3. restarts = 0 => todo' = {}
      <3>1. SUFFICES ASSUME restarts = 0 PROVE capacityGap = {}
        BY <1>4
      <3>2. Live = {}
        BY <1>1, <3>1 DEF HoldsInv, Live
      <3>3. Cardinality(Live) = 0
        BY <3>2, FS_EmptySet
      <3>4. Cardinality(AccountedIn(rec)) \in Nat
        BY <1>0, CountFacts
      <3> QED BY <3>3, <3>4 DEF capacityGap
    <2> QED BY <1>1, <1>4, <2>1, <2>2, <2>3 DEF HoldsInv, Local, Exists, storeVars
  <1> QED BY <1>2, <1>3, <1>4 DEF NextPhase

\* A restart: the memory store has forgotten its holds, and of the file store it
\* is the first.
LEMMA RestartHolds ==
    ASSUME Inv, HoldsInv, Restart, HoldsAreNew'
    PROVE  HoldsInv'
  <1>1. /\ restarts < world.restarts /\ restarts' = restarts + 1 /\ rec' = disk /\ disk' = disk
        /\ phase' = "rehydrate" /\ world' = world
    BY DEF Restart, Load
  <1>2. restarts \in Nat /\ world \in Worlds
    BY DEF HoldsInv, Inv, TypeInv
  <1>3. world.restarts \in Nat /\ (world.store = "file" => restarts' <= 1)
    BY <1>1, <1>2, RecoveryAssumption DEF HoldsAreNew
  <1>4. restarts' \in Nat /\ restarts' <= world.restarts /\ restarts' # 0
    BY <1>1, <1>2, <1>3
  <1>5. Local => \A n \in HoldIds : disk[n].state = "none"
    <2>1. CASE world.store = "memory"
      BY <2>1, RecordFacts DEF HoldsInv, Keys
    <2>2. CASE world.store = "file"
      <3>1. restarts = 0
        BY <1>1, <1>2, <1>3, <2>2
      <3> QED BY <3>1 DEF HoldsInv
    <2> QED BY <2>1, <2>2 DEF Local
  <1> QED BY <1>1, <1>4, <1>5 DEF HoldsInv, Local

\* The requests and the warm pool make no hold, and run after the startup.
LEMMA ThreadHolds ==
    ASSUME Inv, HoldsInv, ThreadStep
    PROVE  HoldsInv'
  <1>0. TypeInv /\ IdleInStartup /\ ThreadInv
    BY DEF Inv
  <1>1. "request" \in Threads /\ "warm" \in Threads
    BY DEF Threads
  <1>2. \E t \in Threads : thr[t].pc # "idle"
    BY <1>1 DEF ThreadStep, SaveReserved, DropCold, DeleteCold, HandOver, Commit, SaveWarm,
       ConsumeWarm, Provision, ProvisionFails
  <1>3. phase \notin Startup
    BY <1>0, <1>2 DEF IdleInStartup, Idle
  <1>4. UNCHANGED <<world, restarts, phase, todo>>
    BY DEF ThreadStep, SaveReserved, DropCold, DeleteCold, HandOver, Commit, SaveWarm,
       ConsumeWarm, Provision, ProvisionFails
  <1>5. /\ \A t \in Threads : thr[t].pc # "idle" => thr[t].id \in Ids
        /\ thr["request"].pc = "handover" => thr["request"].warm \in Ids
        /\ Ids \subseteq Keys /\ rec \in [Keys -> Records]
    BY <1>0 DEF ThreadInv, HasWarm, TypeInv, Keys
  <1>6. /\ [NoRecord EXCEPT !.state = "reserved"] \in Records
        /\ [state |-> "ready", label |-> TRUE, reg |-> TRUE] \in Records
        /\ [state |-> "warm", label |-> TRUE, reg |-> FALSE] \in Records
        /\ \A k \in Keys : [rec[k] EXCEPT !.state = "ready", !.label = TRUE] \in Records
        /\ "ready" \in RecordStates /\ "ended" \in RecordStates
    BY <1>5 DEF Records, RecordStates, Accounted, NoRecord
  <1>7. CASE SaveReserved
    <2>1. /\ thr["request"].id \in Ids
          /\ Save(thr["request"].id, [NoRecord EXCEPT !.state = "reserved"])
      BY <1>1, <1>5, <1>7 DEF SaveReserved, SaveIfCapacity, Save
    <2>2. NoNewHold
      BY <1>0, <1>6, <2>1, WriteHolds
    <2> QED BY <1>3, <1>4, <2>2, HoldsStay DEF Startup
  <1>8. CASE DropCold
    <2>1. NoNewHold
      BY <1>0, <1>8, WriteHolds DEF DropCold
    <2> QED BY <1>3, <1>4, <2>1, HoldsStay DEF Startup
  <1>9. CASE DeleteCold
    <2>1. thr["request"].id \in Ids /\ Delete(thr["request"].id)
      BY <1>1, <1>5, <1>9 DEF DeleteCold
    <2>2. NoNewHold
      BY <1>0, <2>1, WriteHolds
    <2> QED BY <1>3, <1>4, <2>2, HoldsStay DEF Startup
  <1>10. CASE HandOver
    <2>1. /\ thr["request"].warm \in Ids
          /\ Save(thr["request"].warm, [state |-> "ready", label |-> TRUE, reg |-> TRUE])
      BY <1>5, <1>10 DEF HandOver
    <2>2. NoNewHold
      BY <1>0, <1>6, <2>1, WriteHolds
    <2> QED BY <1>3, <1>4, <2>2, HoldsStay DEF Startup
  <1>11. CASE Commit
    <2> DEFINE i == thr["request"].id
    <2>1. i \in Ids
      BY <1>1, <1>5, <1>11 DEF Commit
    <2>2. \/ Save(i, [rec[i] EXCEPT !.state = "ready", !.label = TRUE])
          \/ UNCHANGED storeVars
      BY <1>11 DEF Commit, SaveIfState, Save
    <2> HIDE DEF i
    <2>3. NoNewHold
      BY <1>0, <1>5, <1>6, <2>1, <2>2, WriteHolds
    <2> QED BY <1>3, <1>4, <2>3, HoldsStay DEF Startup
  <1>12. CASE SaveWarm
    <2>1. /\ thr["warm"].id \in Ids
          /\ Save(thr["warm"].id, [state |-> "warm", label |-> TRUE, reg |-> FALSE])
      BY <1>1, <1>5, <1>12 DEF SaveWarm
    <2>2. NoNewHold
      BY <1>0, <1>6, <2>1, WriteHolds
    <2> QED BY <1>3, <1>4, <2>2, HoldsStay DEF Startup
  <1>13. CASE \E w \in Ids : ConsumeWarm(w)
    <2>1. \E w \in Keys : MarkState(w, "ready")
      BY <1>5, <1>13 DEF ConsumeWarm
    <2>2. NoNewHold
      BY <1>0, <1>6, <2>1, WriteHolds
    <2> QED BY <1>3, <1>4, <2>2, HoldsStay DEF Startup
  <1>14. CASE \E t \in Threads : Provision(t) \/ ProvisionFails(t)
    <2>1. UNCHANGED storeVars \/ \E t \in Threads : MarkState(thr[t].id, "ended") /\ thr[t].pc # "idle"
      BY <1>14 DEF Provision, ProvisionFails
    <2>2. NoNewHold
      BY <1>0, <1>5, <1>6, <2>1, WriteHolds
    <2> QED BY <1>3, <1>4, <2>2, HoldsStay DEF Startup
  <1> QED BY <1>7, <1>8, <1>9, <1>10, <1>11, <1>12, <1>13, <1>14 DEF ThreadStep

\* Neither do the loops.
LEMMA LoopHolds ==
    ASSUME Inv, HoldsInv, LoopStep
    PROVE  HoldsInv'
  <1>0. TypeInv
    BY DEF Inv
  <1>1. Running /\ UNCHANGED <<world, restarts, phase, todo>>
    BY DEF LoopStep, SweepExpired, QuarantineEnds, pruneFinished, releaseFinishedRunner,
       OrphanRelease, recycleWarmAllocation, Complete, OrphanSnapshot, OrphanPassEnds
  <1>2. phase \notin Startup
    BY <1>1 DEF Running, Startup
  <1>3. Ids \subseteq Keys /\ {"ended", "quarantined"} \subseteq RecordStates
    BY DEF Keys, RecordStates
  <1>4. \/ UNCHANGED storeVars
        \/ \E k \in Keys, s \in {"ended", "quarantined"} : MarkState(k, s)
        \/ \E k \in Keys : PruneTerminal(k)
        \/ OrphanSnapshot
    BY <1>3 DEF LoopStep, SweepExpired, QuarantineEnds, pruneFinished, releaseFinishedRunner,
       OrphanRelease, recycleWarmAllocation, Complete, OrphanPassEnds, Release
  <1>5. CASE OrphanSnapshot
    <2>1. PICK run \in {{}, Live} :
             Persist([k \in Keys |-> IF k \in run /\ rec[k].state \in Active
                                     THEN [rec[k] EXCEPT !.reg = TRUE] ELSE rec[k]])
      BY <1>5 DEF OrphanSnapshot
    <2> DEFINE m == [k \in Keys |-> IF k \in run /\ rec[k].state \in Active
                                    THEN [rec[k] EXCEPT !.reg = TRUE] ELSE rec[k]]
    <2>2. \A n \in HoldIds : m[n] = rec[n]
      BY RecoveryAssumption DEF Live, Keys
    <2>3. Persist(m)
      BY <2>1
    <2> HIDE DEF m
    <2>4. NoNewHold
      BY <2>2, <2>3, PersistHolds
    <2> QED BY <1>1, <1>2, <2>4, HoldsStay DEF Startup
  <1>6. CASE ~OrphanSnapshot
    <2>1. NoNewHold
      BY <1>0, <1>3, <1>4, <1>6, WriteHolds
    <2> QED BY <1>1, <1>2, <2>1, HoldsStay DEF Startup
  <1> QED BY <1>5, <1>6

\* Neither does the rest.
LEMMA AroundHolds ==
    ASSUME Inv, HoldsInv,
           \/ \E t \in Threads, i \in Ids : Reserve(t, i)
           \/ \E i \in Ids : RunnerExits(i) \/ PodVanishes(i)
           \/ \E k \in Keys : Ages(k)
           \/ BeginDrain
           \/ UNCHANGED vars
    PROVE  HoldsInv'
  <1>0. TypeInv
    BY DEF Inv
  <1>1. /\ UNCHANGED <<world, storeVars, todo, restarts>>
        /\ phase' = phase \/ phase' = "drain"
    BY DEF Reserve, RunnerExits, PodVanishes, Ages, BeginDrain, vars
  <1>2. \A i \in Ids : prov'[i] = "live" => prov[i] = "live"
    BY <1>0 DEF Reserve, RunnerExits, PodVanishes, Ages, BeginDrain, vars, TypeInv
  <1>3. NoNewHold
    BY <1>0, <1>1, WriteHolds
  <1> QED BY <1>1, <1>2, <1>3, HoldsStay DEF Startup, storeVars

\* Nothing is held at the beginning.
LEMMA InitHolds == Init => HoldsInv
  <1> SUFFICES ASSUME Init PROVE HoldsInv
    OBVIOUS
  <1>1. /\ world \in Worlds /\ rec = Empty /\ disk = Empty /\ phase = "rehydrate"
        /\ prov = [i \in Ids |-> "none"] /\ restarts = 0
    BY DEF Init, StoreInit
  <1>2. restarts \in Nat /\ restarts <= world.restarts
    BY <1>1, RecoveryAssumption
  <1>3. \A n \in HoldIds : Empty[n].state = "none"
    BY RecordFacts DEF Keys
  <1> QED BY <1>1, <1>2, <1>3 DEF HoldsInv

\* What is known of the holds is kept by every step.
LEMMA StepHolds ==
    ASSUME Inv, HoldsInv, [Next]_vars, HoldsAreNew'
    PROVE  HoldsInv'
  <1>1. CASE StartupStep
    BY <1>1, StartupHolds, GapHolds, NextPhaseHolds DEF StartupStep
  <1>2. CASE ~StartupStep
    BY <1>2, ThreadHolds, LoopHolds, AroundHolds, RestartHolds DEF Next
  <1> QED BY <1>1, <1>2

\* Restarts are counted, up to the bound.
RestartsInv == world \in Worlds /\ restarts \in Nat /\ restarts <= world.restarts

\* They are, and a hold that is not new does not become new.
LEMMA StepRestarts ==
    ASSUME RestartsInv, [Next]_vars
    PROVE  RestartsInv' /\ (HoldsAreNew' => HoldsAreNew)
  <1>1. world.restarts \in Nat
    BY RecoveryAssumption DEF RestartsInv
  <1>2. world' = world /\ (restarts' = restarts \/ (restarts < world.restarts /\ restarts' = restarts + 1))
    BY DEF Next, StartupStep, rehydrateSchedulerState, terminalizeIncompleteReserved,
       rebuildLiveRunner, createRestartOrphanHold, NextPhase, ThreadStep, SaveReserved, DropCold,
       DeleteCold, HandOver, Commit, SaveWarm, ConsumeWarm, Provision, ProvisionFails, LoopStep,
       SweepExpired, QuarantineEnds, pruneFinished, releaseFinishedRunner, OrphanRelease,
       recycleWarmAllocation, Complete, OrphanSnapshot, OrphanPassEnds, Reserve, RunnerExits,
       PodVanishes, Ages, BeginDrain, Restart, vars
  <1> QED BY <1>1, <1>2 DEF RestartsInv, HoldsAreNew

\* The whole invariant, as far as the holds are new.
WholeInv == RestartsInv /\ (HoldsAreNew => Inv /\ HoldsInv)

\* It is one.
LEMMA WholeInvHolds == Spec => []WholeInv
  <1>1. Init => WholeInv
    <2>1. Init => RestartsInv
      BY InitHolds DEF RestartsInv, HoldsInv, Init, StoreInit
    <2> QED BY <2>1, InitInv, InitHolds DEF WholeInv
  <1>2. HoldsInv => HoldsCounted
    BY DEF HoldsInv, HoldsCounted
  <1>3. WholeInv /\ [Next]_vars => WholeInv'
    BY <1>2, StepInv, StepHolds, StepRestarts DEF WholeInv
  <1> QED BY <1>1, <1>3, PTL DEF Spec

\* A broker that starts again, with whatever its store has kept, counts a slot
\* for every accounted record and for every reservation on its way into the
\* store, and no other: rehydrateSchedulerState, terminalizeIncompleteReserved,
\* rebuildLiveRunner, createRestartOrphanHolds, the hand-over of a warm runner
\* and every loop keep the scheduler and the records together.  With a file
\* store this holds until its second restart, which may find old holds.
THEOREM SlotsSurviveRestarts == Spec => [](HoldsAreNew => SlotsMatch)
  <1>1. WholeInv => (HoldsAreNew => SlotsMatch)
    BY DEF WholeInv, Inv
  <1> QED BY <1>1, WholeInvHolds, PTL

\* Under the same condition the state has its type; above all, the number of
\* slots stays between none and the configured limit: nothing is released twice.
THEOREM RecoveryTypesKept == Spec => [](HoldsAreNew => TypeOK)
  <1>1. WholeInv => (HoldsAreNew => TypeOK)
    BY InvTypes DEF WholeInv
  <1> QED BY <1>1, WholeInvHolds, PTL

\* The store has room for a reservation that the scheduler has admitted.
StoreAdmits ==
    thr["request"].pc = "reserved" => Cardinality(AccountedIn(rec) \ {thr["request"].id}) < max

\* saveReservedAllocation: what the scheduler of a single process admitted, the
\* store's own capacity check does not refuse.
THEOREM StoreNeverRefuses == Spec => [](HoldsAreNew => StoreAdmits)
  <1>1. ASSUME Inv PROVE StoreAdmits
    <2> SUFFICES ASSUME thr["request"].pc = "reserved"
                 PROVE  Cardinality(AccountedIn(rec) \ {thr["request"].id}) < max
      BY DEF StoreAdmits
    <2>0. TypeInv /\ IdleInStartup /\ SlotsMatch
      BY <1>1 DEF Inv
    <2>1. "request" \in Threads
      BY DEF Threads
    <2>2. phase \notin Startup
      BY <2>0, <2>1 DEF IdleInStartup, Idle
    <2>3. Counted = AccountedIn(rec)
      BY <2>2 DEF Counted, Startup
    <2>4. slots + Released = Cardinality(Counted) + Cardinality(UnsavedOnes)
      BY <2>0, CountFacts
    <2>5. /\ IsFiniteSet(Counted) /\ Cardinality(Counted) \in Nat
          /\ IsFiniteSet(UnsavedOnes) /\ Cardinality(UnsavedOnes) \in Nat
      BY <2>0, CountFacts
    <2>6. Released = 0
      BY DEF Released
    <2>7. Cardinality(UnsavedOnes) # 0
      <3>1. "request" \in UnsavedOnes
        BY <2>1 DEF UnsavedOnes, UnsavedAt
      <3> QED BY <2>5, <3>1, FS_EmptySet
    <2>8. slots \in Int /\ max \in Nat /\ slots <= max
      BY <2>0 DEF TypeInv
    <2>9. Cardinality(AccountedIn(rec)) < max
      BY <2>3, <2>4, <2>5, <2>6, <2>7, <2>8
    <2>10. /\ Cardinality(AccountedIn(rec) \ {thr["request"].id}) <= Cardinality(AccountedIn(rec))
           /\ IsFiniteSet(AccountedIn(rec) \ {thr["request"].id})
      BY <2>3, <2>5, FS_Subset
    <2>11. Cardinality(AccountedIn(rec) \ {thr["request"].id}) \in Nat
      BY <2>10, FS_CardinalityType
    <2> QED BY <2>3, <2>5, <2>8, <2>9, <2>10, <2>11
  <1>2. WholeInv => (HoldsAreNew => StoreAdmits)
    BY <1>1 DEF WholeInv
  <1> QED BY <1>2, WholeInvHolds, PTL

-----------------------------------------------------------------------------
(* The runners the provider has and the store forgot.                       *)

\* While createRestartOrphanHolds walks through the gap, the slots taken and the
\* holds to come are as many as the live runners, or the limit is reached.
GapInv ==
    /\ badWrites \in Nat /\ badWrites <= world.badWrites
    /\ phase = "gaps" /\ world.capacity /\ badWrites = world.badWrites
         => slots = max \/ slots + Cardinality(todo) >= Cardinality(Live)

\* The writes that may still fail become fewer.
LEMMA StepWrites ==
    ASSUME [Next]_vars
    PROVE  badWrites' = badWrites \/ (badWrites > 0 /\ badWrites' = badWrites - 1)
  <1>1. CASE StartupStep
    BY <1>1 DEF StartupStep, rehydrateSchedulerState, terminalizeIncompleteReserved,
       rebuildLiveRunner, createRestartOrphanHold, NextPhase, expireUnrehydratable, MarkState,
       Save, SaveFails, Persist, PersistFails, storeVars
  <1>2. CASE ThreadStep
    BY <1>2 DEF ThreadStep, SaveReserved, DropCold, DeleteCold, HandOver, Commit, SaveWarm,
       ConsumeWarm, Provision, ProvisionFails, MarkState, Save, SaveIfCapacity, SaveIfState,
       Delete, Persist, storeVars
  <1>3. CASE LoopStep
    BY <1>3 DEF LoopStep, SweepExpired, QuarantineEnds, pruneFinished, releaseFinishedRunner,
       OrphanRelease, recycleWarmAllocation, Complete, OrphanSnapshot, OrphanPassEnds, Release,
       MarkState, PruneTerminal, Persist, storeVars
  <1>4. CASE ~StartupStep /\ ~ThreadStep /\ ~LoopStep
    BY <1>4 DEF Next, Reserve, RunnerExits, PodVanishes, Ages, BeginDrain, Restart, Load, vars,
       storeVars
  <1> QED BY <1>1, <1>2, <1>3, <1>4

\* Holds are made, runners end, time passes: nothing else happens in this phase.
LEMMA StepsInGaps ==
    ASSUME Inv, [Next]_vars, phase' = "gaps"
    PROVE  \/ phase = "rebuild" /\ NextPhase
           \/ phase = "gaps" /\ \E n \in HoldIds : createRestartOrphanHold(n)
           \/ /\ phase = "gaps" /\ UNCHANGED <<todo, slots, max, badWrites, world>>
              /\ \A i \in Ids : prov'[i] = "live" => prov[i] = "live"
  <1>0. TypeInv /\ IdleInStartup
    BY DEF Inv
  <1>1. CASE StartupStep
    BY <1>1 DEF StartupStep, rehydrateSchedulerState, terminalizeIncompleteReserved,
       rebuildLiveRunner, createRestartOrphanHold, NextPhase
  <1>2. CASE ThreadStep
    <2>1. "request" \in Threads /\ "warm" \in Threads
      BY DEF Threads
    <2>2. \E t \in Threads : thr[t].pc # "idle"
      BY <1>2, <2>1 DEF ThreadStep, SaveReserved, DropCold, DeleteCold, HandOver, Commit,
         SaveWarm, ConsumeWarm, Provision, ProvisionFails
    <2>3. phase' = phase
      BY <1>2 DEF ThreadStep, SaveReserved, DropCold, DeleteCold, HandOver, Commit, SaveWarm,
         ConsumeWarm, Provision, ProvisionFails
    <2> QED BY <1>0, <2>2, <2>3 DEF IdleInStartup, Idle, Startup
  <1>3. CASE LoopStep
    BY <1>3 DEF LoopStep, SweepExpired, QuarantineEnds, pruneFinished, releaseFinishedRunner,
       OrphanRelease, recycleWarmAllocation, Complete, OrphanSnapshot, OrphanPassEnds, Running
  <1>4. CASE ~StartupStep /\ ~ThreadStep /\ ~LoopStep
    BY <1>0, <1>4 DEF Next, Reserve, RunnerExits, PodVanishes, Ages, BeginDrain, Restart, vars,
       storeVars, TypeInv
  <1> QED BY <1>1, <1>2, <1>3, <1>4

\* Fewer live runners when none is launched.
LEMMA LiveShrinks ==
    ASSUME \A i \in Ids : prov'[i] = "live" => prov[i] = "live"
    PROVE  /\ Cardinality(Live) \in Nat /\ Cardinality(Live)' \in Nat
           /\ Cardinality(Live)' <= Cardinality(Live)
  <1>1. IsFiniteSet(Ids) /\ Live \subseteq Ids
    BY RecoveryAssumption DEF Live
  <1>2. IsFiniteSet(Live)
    BY <1>1, FS_Subset
  <1>3. Live' \subseteq Live
    BY DEF Live
  <1>4. IsFiniteSet(Live') /\ Cardinality(Live') <= Cardinality(Live)
    BY <1>2, <1>3, FS_Subset
  <1> QED BY <1>2, <1>4, FS_CardinalityType

\* Every step keeps the gap covered.
LEMMA StepGap ==
    ASSUME RestartsInv, Inv, HoldsInv, GapInv, [Next]_vars
    PROVE  GapInv'
  <1>0. TypeInv /\ IdleInStartup /\ StartInv /\ SlotsMatch
    BY DEF Inv
  <1>1. world.badWrites \in Nat /\ world' = world
    BY StepRestarts, RecoveryAssumption DEF RestartsInv, Next, StartupStep,
       rehydrateSchedulerState, terminalizeIncompleteReserved, rebuildLiveRunner,
       createRestartOrphanHold, NextPhase, ThreadStep, SaveReserved, DropCold, DeleteCold,
       HandOver, Commit, SaveWarm, ConsumeWarm, Provision, ProvisionFails, LoopStep,
       SweepExpired, QuarantineEnds, pruneFinished, releaseFinishedRunner, OrphanRelease,
       recycleWarmAllocation, Complete, OrphanSnapshot, OrphanPassEnds, Reserve, RunnerExits,
       PodVanishes, Ages, BeginDrain, Restart, vars
  <1>2. badWrites' \in Nat /\ badWrites' <= world'.badWrites
        /\ (badWrites' = world'.badWrites => badWrites' = badWrites /\ badWrites = world.badWrites)
    BY <1>1, StepWrites DEF GapInv
  <1> SUFFICES ASSUME phase' = "gaps", world.capacity, badWrites' = world.badWrites
               PROVE  slots' = max' \/ slots' + Cardinality(todo)' >= Cardinality(Live)'
    BY <1>1, <1>2 DEF GapInv
  <1>3. badWrites' = badWrites /\ badWrites = world.badWrites
    BY <1>1, <1>2
  <1>4. slots \in Int /\ max \in Nat /\ slots <= max
    BY <1>0 DEF TypeInv
  <1>5. CASE phase = "rebuild" /\ NextPhase
    <2>1. /\ todo' = capacityGap /\ UNCHANGED <<slots, max, prov, world, rec>>
      BY <1>5 DEF NextPhase, storeVars
    <2>2. Live' = Live
      BY <2>1 DEF Live
    <2>3. Cardinality(Live) \in Nat
      BY <2>1, LiveShrinks
    <2>4. UnsavedOnes = {} /\ Released = 0
      BY <1>0, <1>5, StartupIsQuiet DEF Startup
    <2>5. Counted = AccountedIn(rec)
      BY <1>5 DEF Counted
    <2>6. Cardinality(AccountedIn(rec)) \in Nat /\ slots = Cardinality(AccountedIn(rec))
      BY <1>0, <1>4, <2>4, <2>5, CountFacts, FS_EmptySet
    <2> DEFINE used == Cardinality(Live)
               known == Cardinality(AccountedIn(rec))
    <2>7. todo' = IF used > known THEN 0 .. (used - known - 1) ELSE {}
      BY <2>1 DEF capacityGap
    <2> HIDE DEF used, known
    <2>8. used \in Nat /\ known \in Nat /\ slots = known /\ Cardinality(Live') = used
      BY <2>2, <2>3, <2>6 DEF used, known
    <2>9. CASE used > known
      <3>1. todo' = 0 .. (used - known - 1) /\ used - known - 1 \in Int
        BY <2>7, <2>8, <2>9
      <3>2. Cardinality(todo') = used - known
        BY <2>8, <2>9, <3>1, FS_Interval
      <3> QED BY <2>1, <2>8, <3>2
    <2>10. CASE ~(used > known)
      <3>1. Cardinality(todo') = 0
        BY <2>7, <2>10, FS_EmptySet
      <3> QED BY <2>1, <2>8, <2>10, <3>1
    <2> QED BY <2>9, <2>10
  <1>6. IsFiniteSet(todo) /\ Cardinality(todo) \in Nat
    <2>1. IsFiniteSet(Keys) /\ todo \subseteq Keys
      BY <1>0, CountFacts DEF TypeInv
    <2> QED BY <2>1, FS_Subset, FS_CardinalityType
  <1>7. ASSUME phase = "gaps", NEW n \in HoldIds, createRestartOrphanHold(n)
        PROVE  slots' = max' \/ slots' + Cardinality(todo)' >= Cardinality(Live)'
    <2> DEFINE hold == [rec[n] EXCEPT !.state = "reserved"]
    <2>1. /\ n \in todo /\ todo' = todo \ {n} /\ UNCHANGED <<max, prov>>
      BY <1>7 DEF createRestartOrphanHold
    <2>2. ~Exists(n)
      BY <1>7, <2>1 DEF HoldsInv
    <2>3. ~SaveFails(n, hold)
      <3>1. SaveFails(n, hold) => badWrites' = badWrites - 1
        BY DEF SaveFails, PersistFails
      <3> QED BY <1>1, <1>3, <3>1
    <2>4. \/ slots < max /\ slots' = slots + 1
          \/ slots >= max /\ slots' = slots
      BY <1>7, <2>2, <2>3 DEF createRestartOrphanHold
    <2>5. Cardinality(todo') = Cardinality(todo) - 1
      BY <1>6, <2>1, FS_RemoveElement
    <2>6. Cardinality(Live)' = Cardinality(Live) /\ Cardinality(Live) \in Nat
      <3>1. Live' = Live
        BY <2>1 DEF Live
      <3> QED BY <2>1, <3>1, LiveShrinks
    <2>7. slots = max \/ slots + Cardinality(todo) >= Cardinality(Live)
      BY <1>3, <1>7 DEF GapInv
    <2> QED BY <1>4, <1>6, <2>1, <2>4, <2>5, <2>6, <2>7
  <1>8. CASE /\ phase = "gaps" /\ UNCHANGED <<todo, slots, max, badWrites, world>>
             /\ \A i \in Ids : prov'[i] = "live" => prov[i] = "live"
    <2>1. /\ Cardinality(Live) \in Nat /\ Cardinality(Live)' \in Nat
          /\ Cardinality(Live)' <= Cardinality(Live)
      BY <1>8, LiveShrinks
    <2>2. slots = max \/ slots + Cardinality(todo) >= Cardinality(Live)
      BY <1>3, <1>8 DEF GapInv
    <2> QED BY <1>4, <1>6, <1>8, <2>1, <2>2
  <1> QED BY <1>5, <1>7, <1>8, StepsInGaps

\* A process-local broker that can ask its provider admits its first request
\* with as many slots taken as the provider has live runners, or with none left,
\* whatever its store has forgotten.  (reconcileProviderCapacityGaps and
\* createRestartOrphanHolds, as long as no write failed.)
THEOREM RestartDoesNotOverAdmit == Spec => StartupCoversProvider
  <1> DEFINE CoverInv == WholeInv /\ (HoldsAreNew => GapInv)
  <1>1. Init => GapInv
    BY RecoveryAssumption DEF GapInv, Init, StoreInit
  <1>2. WholeInv /\ CoverInv /\ WholeInv' /\ [Next]_vars => CoverInv'
    BY StepGap, StepRestarts DEF WholeInv
  <1>3. CoverInv /\ [Next]_vars =>
         [/\ phase = "gaps" /\ phase' = "up" /\ world.capacity
          /\ badWrites = world.badWrites
          /\ world.store = "memory" \/ restarts <= 1
          => slots = max \/ slots >= Cardinality(Live)]_vars
    <2> SUFFICES ASSUME CoverInv, [Next]_vars, phase = "gaps", phase' = "up", world.capacity,
                        badWrites = world.badWrites, world.store = "memory" \/ restarts <= 1
                 PROVE  slots = max \/ slots >= Cardinality(Live)
      OBVIOUS
    <2>1. HoldsAreNew
      BY DEF HoldsAreNew
    <2>2. Inv /\ GapInv
      BY <2>1 DEF WholeInv
    <2>3. todo = {}
      <3>1. NextPhase
        BY DEF Next, StartupStep, rehydrateSchedulerState, terminalizeIncompleteReserved,
           rebuildLiveRunner, createRestartOrphanHold, ThreadStep, SaveReserved, DropCold,
           DeleteCold, HandOver, Commit, SaveWarm, ConsumeWarm, Provision, ProvisionFails,
           LoopStep, SweepExpired, QuarantineEnds, pruneFinished, releaseFinishedRunner,
           OrphanRelease, recycleWarmAllocation, Complete, OrphanSnapshot, OrphanPassEnds,
           Reserve, RunnerExits, PodVanishes, Ages, BeginDrain, Restart, vars
      <3> QED BY <3>1 DEF NextPhase
    <2>4. Cardinality(todo) = 0 /\ slots \in Int
      BY <2>2, <2>3, FS_EmptySet DEF Inv, TypeInv
    <2>5. slots = max \/ slots + Cardinality(todo) >= Cardinality(Live)
      BY <2>2 DEF GapInv
    <2> QED BY <2>4, <2>5
  <1>4. Spec => []CoverInv
    <2>1. Init => (HoldsAreNew => GapInv)
      BY <1>1
    <2> HIDE DEF CoverInv
    <2>2. Init /\ WholeInv => CoverInv
      BY <2>1 DEF CoverInv
    <2> QED BY <1>2, <2>2, WholeInvHolds, PTL DEF Spec
  <1> HIDE DEF CoverInv
  <1> QED BY <1>3, <1>4, PTL DEF Spec, StartupCoversProvider

-----------------------------------------------------------------------------
(* The orphan pass.                                                         *)

\* A live runner that an orphan pass has not seen is younger than the grace:
\* it was launched by a thread whose allocation is fresh.
PassInv ==
    /\ age \in [Keys -> 0 .. 3] /\ prov \in [Ids -> {"none", "live", "done"}]
    /\ thr \in [Threads -> ThreadRecs]
    /\ phase \in Startup => snap = NoPass /\ \A t \in Threads : thr[t] = Idle
    /\ \A t \in Threads : thr[t].pc # "idle" => thr[t].id \in Ids /\ age[thr[t].id] = 0
    /\ snap # NoPass => \A i \in Ids \ snap : prov[i] = "live" => age[i] = 0

\* No record gets older, and the runners are of their type.
Younger ==
    /\ age' \in [Keys -> 0 .. 3] /\ \A k \in Keys : age'[k] = age[k] \/ age'[k] = 0
    /\ prov' \in [Ids -> {"none", "live", "done"}]
    /\ \A i \in Ids : prov'[i] = "live" => prov[i] = "live"

\* The ways in which a step changes ages and runners.
LEMMA YoungerFacts ==
    ASSUME PassInv
    PROVE  /\ \A k \in Keys : (age' = [age EXCEPT ![k] = 0] \/ age' = age) /\ prov' = prov => Younger
           /\ \A k \in Keys : (age' = [age EXCEPT ![k] = 0] \/ age' = age) /\ Cleanup(k) => Younger
           /\ \A k \in Keys : \A s : Release(k, s) => Younger
  <1>1. /\ age \in [Keys -> 0 .. 3] /\ prov \in [Ids -> {"none", "live", "done"}]
    BY DEF PassInv
  <1>2. ASSUME NEW k \in Keys, age' = [age EXCEPT ![k] = 0] \/ age' = age
        PROVE  age' \in [Keys -> 0 .. 3] /\ \A j \in Keys : age'[j] = age[j] \/ age'[j] = 0
    <2>1. 0 \in 0 .. 3
      OBVIOUS
    <2> QED BY <1>1, <1>2, <2>1
  <1>3. ASSUME NEW k \in Keys, Cleanup(k)
        PROVE  /\ prov' \in [Ids -> {"none", "live", "done"}]
               /\ \A i \in Ids : prov'[i] = "live" => prov[i] = "live"
    BY <1>1, <1>3 DEF Cleanup
  <1>4. ASSUME NEW k \in Keys, NEW s, Release(k, s) PROVE Younger
    BY <1>2, <1>3, <1>4 DEF Release, Younger
  <1> QED BY <1>1, <1>2, <1>3, <1>4 DEF Younger

\* A step beside the threads and the pass.
LEMMA PassStays ==
    ASSUME PassInv, Younger, UNCHANGED <<thr, snap>>, phase' = phase \/ phase' \notin Startup
    PROVE  PassInv'
  <1>1. \A t \in Threads : thr[t].pc # "idle" => thr[t].id \in Ids /\ age'[thr[t].id] = 0
    BY DEF PassInv, Younger, Keys
  <1>2. snap # NoPass => \A i \in Ids \ snap : prov'[i] = "live" => age'[i] = 0
    BY DEF PassInv, Younger, Keys
  <1> QED BY <1>1, <1>2 DEF PassInv, Younger

\* A step of the startup: nobody runs yet.
LEMMA StartupPass ==
    ASSUME PassInv, StartupStep
    PROVE  PassInv'
  <1>0. age \in [Keys -> 0 .. 3] /\ prov \in [Ids -> {"none", "live", "done"}]
    BY DEF PassInv
  <1>1. phase \in Startup /\ UNCHANGED <<thr, snap>>
    BY DEF StartupStep, rehydrateSchedulerState, terminalizeIncompleteReserved,
       rebuildLiveRunner, createRestartOrphanHold, NextPhase, Startup
  <1>2. snap = NoPass /\ \A t \in Threads : thr[t] = Idle
    BY <1>1 DEF PassInv
  <1>3. \/ \E k \in Keys : age' = [age EXCEPT ![k] = 0] \/ age' = age
        \/ \E i \in Ids : age' = [age EXCEPT ![i] = IF @ = 3 THEN 2 ELSE @]
        \/ age' = age
    BY DEF StartupStep, rehydrateSchedulerState, terminalizeIncompleteReserved,
       rebuildLiveRunner, createRestartOrphanHold, NextPhase, Keys
  <1>4. age' \in [Keys -> 0 .. 3]
    <2>1. 0 \in 0 .. 3 /\ 2 \in 0 .. 3
      OBVIOUS
    <2> QED BY <1>0, <1>3, <2>1 DEF Keys
  <1>5. prov' = prov \/ \E k \in Keys : Cleanup(k)
    BY DEF StartupStep, rehydrateSchedulerState, terminalizeIncompleteReserved,
       rebuildLiveRunner, createRestartOrphanHold, NextPhase, Keys
  <1>6. prov' \in [Ids -> {"none", "live", "done"}]
    BY <1>0, <1>5 DEF Cleanup
  <1>7. \A t \in Threads : thr[t].pc = "idle"
    BY <1>2 DEF Idle
  <1> QED BY <1>1, <1>2, <1>4, <1>6, <1>7 DEF PassInv

\* A thread that goes on works on a fresh allocation, and launches its runner.
LEMMA ThreadPass ==
    ASSUME PassInv, ThreadStep
    PROVE  PassInv'
  <1>0. /\ age \in [Keys -> 0 .. 3] /\ prov \in [Ids -> {"none", "live", "done"}]
        /\ thr \in [Threads -> ThreadRecs]
        /\ \A t \in Threads : thr[t].pc # "idle" => thr[t].id \in Ids /\ age[thr[t].id] = 0
    BY DEF PassInv
  <1>1. "request" \in Threads /\ "warm" \in Threads /\ Ids \subseteq Keys
    BY DEF Threads, Keys
  <1>2. /\ \E t \in Threads : thr[t].pc # "idle"
        /\ UNCHANGED <<phase, snap>>
    BY <1>1 DEF ThreadStep, SaveReserved, DropCold, DeleteCold, HandOver, Commit, SaveWarm,
       ConsumeWarm, Provision, ProvisionFails
  <1>3. phase \notin Startup
    BY <1>2 DEF PassInv, Idle
  <1>4. PICK t \in Threads : /\ thr[t].pc # "idle"
                             /\ \/ \E pc \in PCs : Step(t, pc)
                                \/ Finish(t)
                                \/ \E w \in Ids : thr' = [thr EXCEPT ![t] =
                                     [pc |-> "claimed", id |-> @.id, warm |-> w]]
    BY <1>1 DEF ThreadStep, SaveReserved, DropCold, DeleteCold, HandOver, Commit, SaveWarm,
       ConsumeWarm, Provision, ProvisionFails, PCs
  <1>5. /\ thr' \in [Threads -> ThreadRecs]
        /\ \A u \in Threads : thr'[u].pc # "idle" => thr[u].pc # "idle" /\ thr'[u].id = thr[u].id
    <2>1. thr[t] \in ThreadRecs
      BY <1>0
    <2>2. ASSUME NEW pc \in PCs, Step(t, pc)
          PROVE  \E v \in ThreadRecs : v.id = thr[t].id /\ thr' = [thr EXCEPT ![t] = v]
      <3> DEFINE v == [thr[t] EXCEPT !.pc = pc]
      <3>1. v \in ThreadRecs /\ v.id = thr[t].id
        BY <2>1 DEF ThreadRecs
      <3>2. thr' = [thr EXCEPT ![t] = v]
        BY <1>0, <2>2 DEF Step
      <3> QED BY <3>1, <3>2
    <2>3. ASSUME NEW w \in Ids,
                 thr' = [thr EXCEPT ![t] = [pc |-> "claimed", id |-> @.id, warm |-> w]]
          PROVE  \E v \in ThreadRecs : v.id = thr[t].id /\ thr' = [thr EXCEPT ![t] = v]
      <3> DEFINE v == [pc |-> "claimed", id |-> thr[t].id, warm |-> w]
      <3>1. v \in ThreadRecs /\ v.id = thr[t].id
        BY <2>1 DEF ThreadRecs, PCs
      <3>2. thr' = [thr EXCEPT ![t] = v]
        BY <1>0, <2>3
      <3> QED BY <3>1, <3>2
    <2>4. Idle \in ThreadRecs /\ Idle.pc = "idle"
      BY DEF Idle, ThreadRecs, PCs
    <2>5. CASE Finish(t)
      BY <1>0, <2>4, <2>5 DEF Finish
    <2>6. CASE \E v \in ThreadRecs : v.id = thr[t].id /\ thr' = [thr EXCEPT ![t] = v]
      BY <1>0, <1>4, <2>6
    <2> QED BY <1>4, <2>2, <2>3, <2>5, <2>6
  <1>6. /\ age' \in [Keys -> 0 .. 3] /\ \A k \in Keys : age'[k] = age[k] \/ age'[k] = 0
    <2>1. age' = age \/ (\E k : age' = [age EXCEPT ![k] = 0])
      BY DEF ThreadStep, SaveReserved, DropCold, DeleteCold, HandOver, Commit, SaveWarm,
         ConsumeWarm, Provision, ProvisionFails
    <2>2. 0 \in 0 .. 3
      OBVIOUS
    <2> QED BY <1>0, <2>1, <2>2
  <1>7. /\ prov' \in [Ids -> {"none", "live", "done"}]
        /\ \A i \in Ids : prov'[i] = "live" => prov[i] = "live" \/ age[i] = 0
    <2>1. \/ prov' = prov
          \/ \E k \in Ids : Cleanup(k)
          \/ \E u \in Threads : thr[u].pc # "idle" /\ prov' = [prov EXCEPT ![thr[u].id] = "live"]
      BY <1>0, <1>1 DEF ThreadStep, SaveReserved, DropCold, DeleteCold, HandOver, Commit,
         SaveWarm, ConsumeWarm, Provision, ProvisionFails
    <2> QED BY <1>0, <2>1 DEF Cleanup
  <1>8. \A u \in Threads : thr'[u].pc # "idle" => thr'[u].id \in Ids /\ age'[thr'[u].id] = 0
    BY <1>0, <1>1, <1>5, <1>6
  <1>9. snap # NoPass => \A i \in Ids \ snap : prov'[i] = "live" => age'[i] = 0
    BY <1>1, <1>6, <1>7 DEF PassInv
  <1> QED BY <1>2, <1>3, <1>5, <1>6, <1>7, <1>8, <1>9 DEF PassInv

\* A step of the loops.
LEMMA LoopPass ==
    ASSUME PassInv, LoopStep
    PROVE  PassInv'
  <1>1. Running /\ UNCHANGED <<phase, thr>>
    BY DEF LoopStep, SweepExpired, QuarantineEnds, pruneFinished, releaseFinishedRunner,
       OrphanRelease, recycleWarmAllocation, Complete, OrphanSnapshot, OrphanPassEnds
  <1>2. phase \notin Startup
    BY <1>1 DEF Running, Startup
  <1>3. CASE OrphanSnapshot \/ OrphanPassEnds
    <2>1. (snap' = Live \/ snap' = NoPass) /\ UNCHANGED <<age, prov>>
      BY <1>3 DEF OrphanSnapshot, OrphanPassEnds
    <2> QED BY <1>1, <1>2, <2>1 DEF PassInv, Live
  <1>4. CASE ~OrphanSnapshot /\ ~OrphanPassEnds
    <2>1. snap' = snap
      BY <1>4 DEF LoopStep, SweepExpired, QuarantineEnds, pruneFinished, releaseFinishedRunner,
         OrphanRelease, recycleWarmAllocation, Complete
    <2>2. \/ \E k \in Keys, s \in {"ended", "quarantined"} : Release(k, s)
          \/ \E k \in Keys : (age' = [age EXCEPT ![k] = 0] \/ age' = age) /\ Cleanup(k)
          \/ \E k \in Keys : age' = age /\ prov' = prov
      BY <1>4 DEF LoopStep, SweepExpired, QuarantineEnds, pruneFinished, releaseFinishedRunner,
         OrphanRelease, recycleWarmAllocation, Complete, Keys
    <2>3. Younger
      BY <2>2, YoungerFacts
    <2> QED BY <1>1, <2>1, <2>3, PassStays
  <1> QED BY <1>3, <1>4

\* A new reservation is fresh, and time does not pass for what is held or while
\* a pass goes on.
LEMMA AroundPass ==
    ASSUME PassInv,
           \/ \E t \in Threads, i \in Ids : Reserve(t, i)
           \/ \E i \in Ids : RunnerExits(i) \/ PodVanishes(i)
           \/ \E k \in Keys : Ages(k)
           \/ BeginDrain \/ Restart
           \/ UNCHANGED vars
    PROVE  PassInv'
  <1>0. /\ age \in [Keys -> 0 .. 3] /\ prov \in [Ids -> {"none", "live", "done"}]
        /\ thr \in [Threads -> ThreadRecs]
    BY DEF PassInv
  <1>1. Ids \subseteq Keys /\ 0 \in 0 .. 3
    BY DEF Keys
  <1>2. ASSUME NEW t \in Threads, NEW i \in Ids, Reserve(t, i) PROVE PassInv'
    <2> DEFINE v == [pc |-> "reserved", id |-> i, warm |-> None]
    <2>1. /\ phase = "up" /\ thr' = [thr EXCEPT ![t] = v] /\ age' = [age EXCEPT ![i] = 0]
          /\ UNCHANGED <<phase, prov, snap>>
      BY <1>2 DEF Reserve
    <2>2. v \in ThreadRecs /\ v.id = i
      BY DEF ThreadRecs, PCs
    <2> HIDE DEF v
    <2>3. age' \in [Keys -> 0 .. 3] /\ \A k \in Keys : age'[k] = age[k] \/ age'[k] = 0
      BY <1>0, <1>1, <2>1
    <2>4. thr' \in [Threads -> ThreadRecs] /\ thr'[t] = v /\ \A u \in Threads \ {t} : thr'[u] = thr[u]
      BY <1>0, <2>1, <2>2
    <2>5. age'[i] = 0
      BY <1>0, <1>1, <2>1
    <2>6. \A u \in Threads : thr'[u].pc # "idle" => thr'[u].id \in Ids /\ age'[thr'[u].id] = 0
      BY <1>1, <2>2, <2>3, <2>4, <2>5 DEF PassInv
    <2>7. snap # NoPass => \A j \in Ids \ snap : prov[j] = "live" => age'[j] = 0
      BY <1>1, <2>3 DEF PassInv
    <2> QED BY <1>0, <2>1, <2>3, <2>4, <2>6, <2>7 DEF PassInv, Startup
  <1>3. ASSUME NEW i \in Ids, RunnerExits(i) \/ PodVanishes(i) PROVE PassInv'
    <2>1. /\ UNCHANGED <<phase, age, thr, snap>>
          /\ \E s \in {"none", "done"} : prov' = [prov EXCEPT ![i] = s]
      BY <1>3 DEF RunnerExits, PodVanishes
    <2>2. Younger
      BY <1>0, <2>1 DEF Younger
    <2> QED BY <2>1, <2>2, PassStays
  <1>4. ASSUME NEW k \in Keys, Ages(k) PROVE PassInv'
    <2>1. /\ ~Held(k) /\ snap = NoPass /\ age' = [age EXCEPT ![k] = NextAge(k)]
          /\ UNCHANGED <<phase, prov, thr, snap>>
      BY <1>4 DEF Ages
    <2>2. NextAge(k) \in 0 .. 3
      BY <1>0 DEF NextAge
    <2>3. age' \in [Keys -> 0 .. 3] /\ \A j \in Keys : j # k => age'[j] = age[j]
      BY <1>0, <2>1, <2>2
    <2>4. \A t \in Threads : thr[t].id # k
      BY <2>1 DEF Held
    <2> QED BY <1>1, <2>1, <2>3, <2>4 DEF PassInv
  <1>5. CASE BeginDrain \/ UNCHANGED vars
    <2>1. UNCHANGED <<age, prov, thr, snap>> /\ (phase' = phase \/ phase' = "drain")
      BY <1>5 DEF BeginDrain, vars
    <2>2. Younger
      BY <1>0, <2>1 DEF Younger
    <2> QED BY <2>1, <2>2, PassStays DEF Startup
  <1>6. CASE Restart
    <2>1. /\ phase' = "rehydrate" /\ thr' = [t \in Threads |-> Idle] /\ snap' = NoPass
          /\ UNCHANGED <<age, prov>>
      BY <1>6 DEF Restart
    <2>2. Idle \in ThreadRecs /\ Idle.pc = "idle"
      BY DEF Idle, ThreadRecs, PCs
    <2> QED BY <1>0, <2>1, <2>2 DEF PassInv
  <1> QED BY <1>2, <1>3, <1>4, <1>5, <1>6

\* The orphan pass of ReconcileOrphanedAllocations never ends an allocation whose
\* runner is alive, although runners are launched while it works through its
\* list and although requests, the warm pool and the reaper go on: the grace
\* period covers what the list was too early for.
THEOREM OrphanPassIsSafe == Spec => OrphanPassSparesLiveRunners
  <1>1. Init => PassInv
    <2> SUFFICES ASSUME Init PROVE PassInv
      OBVIOUS
    <2>1. /\ phase = "rehydrate" /\ age = [k \in Keys |-> 0] /\ prov = [i \in Ids |-> "none"]
          /\ thr = [t \in Threads |-> Idle] /\ snap = NoPass
      BY DEF Init
    <2>2. Idle \in ThreadRecs /\ Idle.pc = "idle"
      BY DEF Idle, ThreadRecs, PCs
    <2>3. age \in [Keys -> 0 .. 3]
      BY <2>1
    <2> QED BY <2>1, <2>2, <2>3 DEF PassInv
  <1>2. PassInv /\ [Next]_vars => PassInv'
    BY StartupPass, ThreadPass, LoopPass, AroundPass DEF Next
  <1>3. PassInv =>
         \A i \in Ids : (snap # NoPass /\ snap' = snap /\ rec[i].state = "ready"
                         /\ rec'[i].state = "ended" /\ i \in Orphans) => prov[i] # "live"
    BY DEF PassInv, Orphans
  <1> QED BY <1>1, <1>2, <1>3, PTL DEF Spec, OrphanPassSparesLiveRunners

=============================================================================
