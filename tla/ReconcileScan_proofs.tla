------------------------ MODULE ReconcileScan_proofs -------------------------
(***************************************************************************)
(* Three results about the GitHub scan, for every budget, every repository  *)
(* list and every order of calls, deadlines and rate limits: the deep scan  *)
(* is never stopped by the budget before it had its reserve; a deep pass    *)
(* that closes over a steady list is done with all it owes; and a pass of   *)
(* all ages stays one, if its age limit leaves a cycle for each try.        *)
(***************************************************************************)
EXTENDS ReconcileScan, FiniteSetTheorems, TLAPS

-----------------------------------------------------------------------------
(* The share of the deep scan.                                              *)

\* The verdict "budget" of the deep scan ends the cycle's work: nothing is spent
\* between it and the next cycle.
ShareInv ==
    /\ spent \in Nat /\ recentSpent \in Nat
    /\ world \in Worlds
    /\ stop = <<"deep", "budget">> => pc = "end" /\ spent - recentSpent >= DeepReserve

\* The limit of the deep scan leaves it its reserve, however far a listing of
\* many pages pushed the recent scan past its own limit.
LEMMA DeepLimit ==
    ASSUME recentSpent \in Nat
    PROVE  deepScanLimit >= recentSpent + DeepReserve /\ deepScanLimit \in Nat
  <1>1. Budget \in Nat /\ DeepReserve \in Nat
    BY ScanAssumption DEF ScanAssumption
  <1> QED BY <1>1 DEF deepScanLimit

\* Every cycle step, and every step of the world, keeps the share.
LEMMA ShareStep == ShareInv /\ [Next]_vars => ShareInv'
  <1> SUFFICES ASSUME ShareInv, [Next]_vars PROVE ShareInv'
    OBVIOUS
  <1> USE ScanAssumption DEF ShareInv, ScanAssumption
  <1>pages. world.pages \in Nat
    OBVIOUS
  <1>1. CASE UNCHANGED vars
    BY <1>1 DEF vars, envVars, passVars
  <1>2. CASE StoreChanges
    BY <1>2 DEF StoreChanges
  <1>3. CASE RateLimitChanges
    BY <1>3 DEF RateLimitChanges
  <1>4. CASE Begin
    BY <1>4 DEF Begin, envVars
  <1>5. CASE Rescue
    BY <1>5, <1>pages DEF Rescue, envVars
  <1>6. CASE Repositories
    BY <1>6, <1>pages DEF Repositories
  <1>7. CASE RepositoriesFail
    BY <1>7 DEF RepositoriesFail
  <1>8. CASE OpenPass
    BY <1>8 DEF OpenPass, envVars
  <1>9. CASE EndCycle
    BY <1>9 DEF EndCycle, envVars
  <1>10. ASSUME NEW s \in Scans, SkipRepo(s) \/ RepoDone(s) PROVE ShareInv'
    BY <1>10 DEF SkipRepo, RepoDone, envVars
  <1>11. ASSUME NEW s \in Scans, ListRuns(s) \/ ProcessRun(s) PROVE ShareInv'
    BY <1>11, <1>pages DEF ListRuns, ProcessRun, Spend, envVars, Working, Scans
  <1>12. ASSUME NEW s \in Scans, CutOff(s) PROVE ShareInv'
    BY <1>12, <1>pages DEF CutOff, Spend, AfterScan, envVars, Working, Scans
  <1>13. ASSUME NEW s \in Scans, ScanStops(s) PROVE ShareInv'
    <2>1. /\ spent' = spent /\ world' = world
          /\ recentSpent' \in {spent, recentSpent} /\ pc = s
          /\ \E err \in {"none", "rate", "budget", "deadline"} :
               /\ stop' = <<s, err>>
               /\ pc' = IF s = "recent" /\ deepOpen /\ err # "rate" THEN "deep" ELSE "end"
               /\ recentSpent' = IF s = "recent" THEN spent ELSE recentSpent
               /\ err = "budget" => spent >= Limit(s)
      BY <1>13 DEF ScanStops, AfterScan, envVars
    <2>2. CASE s = "deep"
      BY <2>1, <2>2, DeepLimit DEF Limit
    <2>3. CASE s = "recent"
      BY <2>1, <2>3
    <2> QED BY <2>2, <2>3 DEF Scans
  <1> QED BY <1>1, <1>2, <1>3, <1>4, <1>5, <1>6, <1>7, <1>8, <1>9, <1>10, <1>11, <1>12, <1>13
         DEF Next, CycleStep

\* When the budget stops the deep scan, at least DeepReserve calls were made
\* after the recent scan (reconcileDeepReserve and deepScanLimit).
THEOREM DeepShareKept == Spec => []DeepGetsItsShare
  <1>1. Init => ShareInv
    BY DEF Init, ShareInv
  <1>2. ShareInv => DeepGetsItsShare
    BY DEF ShareInv, DeepGetsItsShare
  <1> QED BY <1>1, <1>2, ShareStep, PTL DEF Spec

-----------------------------------------------------------------------------
(* What a closed deep pass has covered.                                     *)

Scanner == [cursor : Nat, repo : Nat, runs : Seq(Nat), pos : Nat, remaining : Nat]

\* Repositories the scanner d has still to begin, of n; the one in progress was
\* taken from the cursor but still counts in remaining.
Left(d) == IF d.repo = NoRepo THEN d.remaining ELSE d.remaining - 1
Ahead(d, n, r) == \/ r > d.cursor /\ r <= d.cursor + Left(d)
                  \/ r <= d.cursor + Left(d) - n

\* Of the repository in progress the listing is done, and each run of its window
\* is done or is behind the scanner's position.
InProgress(d, S, r) ==
    \A u \in Window(r) : u \in S \/ \E k \in 1 .. Len(d.runs) : k > d.pos /\ u = <<r, d.runs[k]>>

Covers(d, n, S) ==
    \A r \in world.accepts \cap 1 .. n :
        \/ Ahead(d, n, r)
        \/ r = d.repo /\ InProgress(d, S, r)
        \/ r # d.repo /\ Window(r) \subseteq S

\* The scanner d walks a list of n repositories.
Walks(d, n) ==
    /\ d.remaining <= n
    /\ d.repo # NoRepo => d.repo = d.cursor

CoverInv ==
    /\ world \in Worlds
    /\ sc \in [Scans -> Scanner]
    /\ repos # None => repos \in world.sizes
    /\ pc \in {"open"} \cup Scans => repos # None /\ repos > 0
    /\ deepOpen => repos # None
    /\ \A s \in Scans : sc[s].repo # NoRepo => sc[s].remaining > 0
    /\ Steady => IF repos = None THEN sc["deep"].cursor = 0 ELSE sc["deep"].cursor <= repos
    /\ Steady /\ deepOpen => Walks(sc["deep"], repos) /\ Covers(sc["deep"], repos, seen)

\* SetToSeq lists a finite set: nothing else, and every element somewhere.
LEMMA SetToSeqLists ==
    ASSUME NEW S, IsFiniteSet(S)
    PROVE  /\ SetToSeq(S) \in Seq(S) /\ Len(SetToSeq(S)) = Cardinality(S)
           /\ \A x \in S : \E k \in 1 .. Len(SetToSeq(S)) : SetToSeq(S)[k] = x
  <1> DEFINE n == Cardinality(S)
             f == SetToSeq(S)
  <1>1. n \in Nat /\ ExistsBijection(1 .. n, S)
    BY FS_CardinalityType
  <1>2. \E g \in [1 .. n -> S] : IsInjective(g)
    BY <1>1 DEF ExistsBijection, Bijection, Injection, IsInjective
  <1>3. f \in [1 .. n -> S] /\ IsInjective(f)
    BY <1>2 DEF SetToSeq
  <1>4. f \in Surjection(1 .. n, S)
    <2>1. f \in Injection(1 .. n, S)
      BY <1>3 DEF Injection
    <2>2. IsFiniteSet(1 .. n) /\ Cardinality(1 .. n) = n
      BY <1>1, FS_Interval
    <2> QED BY <2>1, <2>2, FS_Injection
  <1>5. f \in Seq(S) /\ Len(f) = n
    BY <1>1, <1>3
  <1> QED BY <1>4, <1>5 DEF Surjection

\* The cursor walks the list round-robin.
LEMMA RoundRobin ==
    ASSUME NEW n \in Nat \ {0}, NEW c \in 0 .. n
    PROVE  (c % n) + 1 = IF c = n THEN 1 ELSE c + 1
  OBVIOUS

\* A steady world has one list.
LEMMA SteadyList ==
    ASSUME world \in Worlds, Steady, NEW m \in world.sizes, NEW n \in world.sizes
    PROVE  m = n
  <1>1. IsFiniteSet(world.sizes)
    <2>1. MaxRepos \in Nat /\ world.sizes \in SUBSET (0 .. MaxRepos)
      BY ScanAssumption DEF ScanAssumption
    <2>2. IsFiniteSet(0 .. MaxRepos)
      BY <2>1, FS_Interval
    <2> QED BY <2>1, <2>2, FS_Subset
  <1>2. PICK x : world.sizes = {x}
    BY <1>1, FS_Singleton DEF Steady
  <1> QED BY <1>2

\* The runs a listing returns are runs of the repository, and all those of the
\* window are among them.
LEMMA ListingIsComplete ==
    ASSUME world \in Worlds, NEW repo \in 1 .. MaxRepos, NEW s \in Scans
    PROVE  LET L == ListQueuedWorkflowRuns(s, repo) IN
           /\ L \in Seq(Nat)
           /\ s = "deep" => \A u \in Window(repo) : \/ u = <<repo, 0>>
                                                    \/ \E k \in 1 .. Len(L) : u = <<repo, L[k]>>
  <1> DEFINE S == {i \in DOMAIN world.runs[repo] : world.runs[repo][i] \in Ages(s)}
  <1>1. PICK n \in 0 .. MaxRuns : DOMAIN world.runs[repo] = 1 .. n
    BY ScanAssumption DEF ScanAssumption
  <1>2. n \in Nat
    BY ScanAssumption DEF ScanAssumption
  <1>3. IsFiniteSet(1 .. n) /\ S \in SUBSET (1 .. n)
    BY <1>1, <1>2, FS_Interval
  <1>4. IsFiniteSet(S)
    BY <1>3, FS_Subset
  <1>5. /\ SetToSeq(S) \in Seq(S)
        /\ \A x \in S : \E k \in 1 .. Len(SetToSeq(S)) : SetToSeq(S)[k] = x
    BY <1>4, SetToSeqLists
  <1>6. S \subseteq Nat
    BY <1>2, <1>3
  <1>7. s = "deep" => Window(repo) = {repo} \X ({0} \cup S)
    BY DEF Window
  <1>8. ListQueuedWorkflowRuns(s, repo) = SetToSeq(S)
    BY DEF ListQueuedWorkflowRuns
  <1> DEFINE L == SetToSeq(S)
  <1> HIDE DEF S, L
  <1>9. L \in Seq(S) /\ \A x \in S : \E k \in 1 .. Len(L) : L[k] = x
    BY <1>5 DEF L
  <1>10. L \in Seq(Nat)
    <2>1. Len(L) \in Nat /\ L \in [1 .. Len(L) -> S]
      BY <1>9
    <2>2. L \in [1 .. Len(L) -> Nat]
      BY <2>1, <1>6
    <2> QED BY <2>1, <2>2
  <1>11. ASSUME s = "deep", NEW u \in Window(repo)
         PROVE  u = <<repo, 0>> \/ \E k \in 1 .. Len(L) : u = <<repo, L[k]>>
    <2>1. u \in {repo} \X ({0} \cup S)
      BY <1>7, <1>11
    <2>2. u = <<repo, u[2]>> /\ u[2] \in {0} \cup S
      BY <2>1
    <2> QED BY <2>2, <1>9
  <1>12. ListQueuedWorkflowRuns(s, repo) = L
    BY <1>8 DEF L
  <1> QED BY <1>10, <1>11, <1>12

\* Nothing has to be done yet when all of the list lies ahead.
LEMMA FreshCovers ==
    ASSUME NEW n \in Nat, NEW c \in 0 .. n, NEW S, NEW d \in Scanner,
           d.cursor = c, d.remaining = n, d.repo = NoRepo
    PROVE  Walks(d, n) /\ Covers(d, n, S)
  BY DEF Walks, Covers, Ahead, Left, Scanner, NoRepo

\* Giving the repository at the cursor up for this pass, its window done.
LEMMA PassCovers ==
    ASSUME NEW n \in Nat \ {0}, NEW d \in Scanner, NEW S, NEW T,
           d.repo = NoRepo, d.remaining > 0, d.cursor <= n,
           Walks(d, n), Covers(d, n, S), S \subseteq T,
           NEW next, next = (d.cursor % n) + 1,
           next \in world.accepts => Window(next) \subseteq T,
           NEW e \in Scanner,
           e = [d EXCEPT !.cursor = next, !.remaining = @ - 1]
    PROVE  e.cursor <= n /\ Walks(e, n) /\ Covers(e, n, T)
  <1>1. next = IF d.cursor = n THEN 1 ELSE d.cursor + 1
    BY RoundRobin DEF Scanner
  <1>2. /\ d.cursor \in Nat /\ d.remaining \in Nat
        /\ e.cursor = next /\ e.remaining = d.remaining - 1 /\ e.repo = NoRepo
    BY DEF Scanner
  <1>3. d.remaining <= n
    BY DEF Walks
  <1>4. e.cursor <= n /\ Walks(e, n)
    BY <1>1, <1>2, <1>3 DEF Walks, NoRepo
  <1>5. ASSUME NEW r \in world.accepts \cap 1 .. n, ~Ahead(e, n, r)
        PROVE  Window(r) \subseteq T
    <2>1. r = next \/ ~Ahead(d, n, r)
      BY <1>1, <1>2, <1>3, <1>5 DEF Ahead, Left
    <2>2. r # d.repo
      BY DEF NoRepo
    <2> QED BY <2>1, <2>2 DEF Covers
  <1> QED BY <1>2, <1>4, <1>5 DEF Covers, NoRepo

\* Taking the repository at the cursor up, its listing done.
LEMMA ListCovers ==
    ASSUME NEW n \in Nat \ {0}, NEW d \in Scanner, NEW S, NEW T,
           d.repo = NoRepo, d.remaining > 0, d.cursor <= n,
           Walks(d, n), Covers(d, n, S), S \subseteq T,
           NEW next, next = (d.cursor % n) + 1, NEW L \in Seq(Nat),
           \A u \in Window(next) : u \in T \/ \E k \in 1 .. Len(L) : u = <<next, L[k]>>,
           NEW e \in Scanner,
           e = [d EXCEPT !.cursor = next, !.repo = next, !.pos = 0, !.runs = L]
    PROVE  e.cursor <= n /\ Walks(e, n) /\ Covers(e, n, T)
  <1>1. next = IF d.cursor = n THEN 1 ELSE d.cursor + 1
    BY RoundRobin DEF Scanner
  <1>2. /\ d.cursor \in Nat /\ d.remaining \in Nat
        /\ e.cursor = next /\ e.remaining = d.remaining /\ e.repo = next /\ e.pos = 0 /\ e.runs = L
    BY DEF Scanner
  <1>3. d.remaining <= n
    BY DEF Walks
  <1>4. e.cursor <= n /\ Walks(e, n)
    BY <1>1, <1>2, <1>3 DEF Walks, NoRepo
  <1>5. InProgress(e, T, next)
    BY <1>2 DEF InProgress
  <1>6. ASSUME NEW r \in world.accepts \cap 1 .. n, ~Ahead(e, n, r), r # next
        PROVE  Window(r) \subseteq T
    <2>1. ~Ahead(d, n, r)
      BY <1>1, <1>2, <1>3, <1>6 DEF Ahead, Left, NoRepo
    <2>2. r # d.repo
      BY DEF NoRepo
    <2> QED BY <2>1, <2>2 DEF Covers
  <1> QED BY <1>2, <1>4, <1>5, <1>6 DEF Covers

\* One more run of the repository in progress is done.
LEMMA RunCovers ==
    ASSUME NEW n \in Nat \ {0}, NEW d \in Scanner, NEW S, NEW T,
           d.repo # NoRepo, d.pos < Len(d.runs),
           Walks(d, n), Covers(d, n, S), T = S \cup {<<d.repo, d.runs[d.pos + 1]>>},
           NEW e \in Scanner, e = [d EXCEPT !.pos = @ + 1]
    PROVE  Walks(e, n) /\ Covers(e, n, T)
  <1>1. /\ d.cursor \in Nat /\ d.remaining \in Nat /\ d.pos \in Nat /\ Len(d.runs) \in Nat
        /\ e.cursor = d.cursor /\ e.remaining = d.remaining /\ e.repo = d.repo
        /\ e.pos = d.pos + 1 /\ e.runs = d.runs
    BY DEF Scanner
  <1>2. Walks(e, n)
    BY <1>1 DEF Walks
  <1>3. ASSUME InProgress(d, S, d.repo) PROVE InProgress(e, T, e.repo)
    <2> SUFFICES ASSUME NEW u \in Window(e.repo), u \notin T
                 PROVE  \E k \in 1 .. Len(e.runs) : k > e.pos /\ u = <<e.repo, e.runs[k]>>
      BY DEF InProgress
    <2>1. PICK k \in 1 .. Len(d.runs) : k > d.pos /\ u = <<d.repo, d.runs[k]>>
      BY <1>1, <1>3 DEF InProgress
    <2>2. k # d.pos + 1
      BY <2>1
    <2> QED BY <1>1, <2>1, <2>2
  <1> QED BY <1>1, <1>2, <1>3 DEF Covers, Ahead, Left

\* The repository in progress has no run left.
LEMMA RepoDoneCovers ==
    ASSUME NEW n \in Nat \ {0}, NEW d \in Scanner, NEW S,
           d.repo # NoRepo, d.remaining > 0, ~(d.pos < Len(d.runs)),
           Walks(d, n), Covers(d, n, S),
           NEW e \in Scanner,
           e = [d EXCEPT !.repo = NoRepo, !.runs = <<>>, !.pos = 0, !.remaining = @ - 1]
    PROVE  Walks(e, n) /\ Covers(e, n, S)
  <1>1. /\ d.cursor \in Nat /\ d.remaining \in Nat /\ d.pos \in Nat /\ Len(d.runs) \in Nat
        /\ e.cursor = d.cursor /\ e.remaining = d.remaining - 1 /\ e.repo = NoRepo
    BY DEF Scanner
  <1>2. Walks(e, n)
    BY <1>1 DEF Walks
  <1>3. \A r : InProgress(d, S, r) => Window(r) \subseteq S
    BY <1>1 DEF InProgress
  <1> QED BY <1>1, <1>2, <1>3 DEF Covers, Ahead, Left, NoRepo


\* A step of scanner s alone, from d to e: the deep scanner has to answer for
\* what it did, the recent one for nothing but its type.
LEMMA ScannerStep ==
    ASSUME CoverInv, NEW s \in Scans, pc = s, NEW e \in Scanner,
           sc' = [sc EXCEPT ![s] = e],
           UNCHANGED <<world, repos, allAges>>, pc' \in {pc, "deep", "end"}, deepOpen' => deepOpen,
           e.repo # NoRepo => e.remaining > 0,
           s = "recent" => seen' = seen,
           s = "deep" => /\ Steady => e.cursor <= repos
                         /\ Steady /\ deepOpen => Walks(e, repos) /\ Covers(e, repos, seen')
    PROVE  CoverInv'
  <1> USE DEF Scans
  <1>1. /\ sc' \in [Scans -> Scanner]
        /\ sc'[s] = e /\ \A t \in Scans : t # s => sc'[t] = sc[t]
    BY DEF CoverInv
  <1>2. Steady' <=> Steady
    BY DEF Steady
  <1>4. \A r : Window(r)' = Window(r)
    BY DEF Window, Ages
  <1>5. ASSUME Walks(sc'["deep"], repos), Covers(sc'["deep"], repos, seen')
        PROVE  Walks(sc["deep"], repos)' /\ Covers(sc["deep"], repos, seen)'
    BY <1>4, <1>5 DEF Walks, Covers, Ahead, Left, InProgress
  <1>6. CASE s = "deep"
    BY <1>1, <1>2, <1>5, <1>6 DEF CoverInv
  <1>7. CASE s = "recent"
    BY <1>1, <1>2, <1>5, <1>7 DEF CoverInv
  <1> QED BY <1>6, <1>7

\* What a scan has to work with.
LEMMA ScanFacts ==
    ASSUME CoverInv, NEW s \in Scans, pc = s
    PROVE  /\ repos \in 1 .. MaxRepos /\ MaxRepos \in Nat /\ MaxRuns \in Nat
           /\ sc[s] \in Scanner
           /\ NextRepo(s) \in 1 .. repos
  <1>1. repos \in world.sizes /\ repos > 0
    BY DEF CoverInv
  <1>2. repos \in 1 .. MaxRepos /\ MaxRepos \in Nat /\ MaxRuns \in Nat
    BY <1>1, ScanAssumption DEF CoverInv, ScanAssumption
  <1>3. sc[s] \in Scanner /\ sc[s].cursor \in Nat
    BY DEF CoverInv, Scanner
  <1>4. \A c, n \in Nat : n # 0 => (c % n) + 1 \in 1 .. n
    OBVIOUS
  <1> QED BY <1>2, <1>3, <1>4 DEF NextRepo

\* A scanner stays a scanner when its fields get values of their types.
LEMMA ScannerFields ==
    ASSUME NEW d \in Scanner
    PROVE  /\ \A c, m \in Nat : [d EXCEPT !.cursor = c, !.remaining = m] \in Scanner
           /\ \A m \in Nat : [d EXCEPT !.remaining = m] \in Scanner
           /\ \A p \in Nat : [d EXCEPT !.pos = p] \in Scanner
           /\ \A c, r \in Nat, L \in Seq(Nat) :
                [d EXCEPT !.cursor = c, !.repo = r, !.pos = 0, !.runs = L] \in Scanner
           /\ \A m \in Nat :
                [d EXCEPT !.repo = NoRepo, !.runs = <<>>, !.pos = 0, !.remaining = m] \in Scanner
           /\ \A c, m \in Nat : [FreshScanner EXCEPT !.cursor = c, !.remaining = m] \in Scanner
           /\ FreshScanner \in Scanner
  <1> DEFINE Q == Seq(Nat)
  <1>1. <<>> \in Q /\ Scanner = [cursor : Nat, repo : Nat, runs : Q, pos : Nat, remaining : Nat]
    BY DEF Scanner
  <1>2. Seq(Nat) = Q
    OBVIOUS
  <1> HIDE DEF Q
  <1> QED BY <1>1, <1>2 DEF FreshScanner, NoRepo

\* The repository at the cursor is passed: skipped, failed, or cut off too often.
LEMMA PassStep ==
    ASSUME CoverInv, NEW s \in Scans, Working(s), sc[s].repo = NoRepo, sc' = PassRepo(s),
           UNCHANGED <<world, repos, allAges>>, pc' \in {pc, "deep", "end"}, deepOpen' => deepOpen,
           s = "recent" => seen' = seen,
           s = "deep" => /\ seen \subseteq seen'
                         /\ NextRepo(s) \in world.accepts => Window(NextRepo(s)) \subseteq seen'
    PROVE  CoverInv'
  <1> DEFINE d == sc[s]
             e == [d EXCEPT !.cursor = NextRepo(s), !.remaining = @ - 1]
  <1>1. pc = s /\ d.remaining > 0
    BY DEF Working
  <1>2. /\ repos \in 1 .. MaxRepos /\ MaxRepos \in Nat /\ d \in Scanner /\ NextRepo(s) \in 1 .. repos
    BY <1>1, ScanFacts
  <1>3. e \in Scanner /\ e.cursor = NextRepo(s) /\ e.repo = NoRepo
    <2>1. d.remaining - 1 \in Nat /\ NextRepo(s) \in Nat
      BY <1>1, <1>2 DEF Scanner
    <2>2. e \in Scanner
      BY <1>2, <2>1, ScannerFields
    <2> QED BY <1>2, <2>2 DEF Scanner
  <1>4. sc' = [sc EXCEPT ![s] = e]
    BY DEF PassRepo, CoverInv
  <1>5. s = "deep" /\ Steady => e.cursor <= repos
    BY <1>2, <1>3
  <1>6. ASSUME s = "deep", Steady, deepOpen
        PROVE  Walks(e, repos) /\ Covers(e, repos, seen')
    <2>1. d.cursor <= repos /\ Walks(d, repos) /\ Covers(d, repos, seen)
      BY <1>6, <1>1, <1>2 DEF CoverInv, Scans
    <2>2. NextRepo(s) = (d.cursor % repos) + 1 /\ repos \in Nat \ {0}
      BY <1>2 DEF NextRepo
    <2>3. e = [d EXCEPT !.cursor = NextRepo(s), !.remaining = @ - 1]
      OBVIOUS
    <2> HIDE DEF d, e
    <2>4. d.repo = NoRepo
      BY DEF d
    <2>5. /\ seen \subseteq seen'
          /\ NextRepo(s) \in world.accepts => Window(NextRepo(s)) \subseteq seen'
      BY <1>6
    <2> QED BY <1>1, <1>2, <1>3, <2>1, <2>2, <2>3, <2>4, <2>5, PassCovers
  <1>7. e.repo # NoRepo => e.remaining > 0
    BY <1>3
  <1> HIDE DEF e
  <1> QED BY <1>1, <1>3, <1>4, <1>5, <1>6, <1>7, ScannerStep

\* One more run is done: its jobs were looked at, or it was cut off too often.
LEMMA RunStep ==
    ASSUME CoverInv, NEW s \in Scans, Working(s), sc[s].repo # NoRepo, HasUnit(s),
           sc' = [sc EXCEPT ![s].pos = @ + 1],
           UNCHANGED <<world, repos, allAges>>, pc' \in {pc, "deep", "end"}, deepOpen' => deepOpen,
           Covered(s, {NextUnit(s)})
    PROVE  CoverInv'
  <1> DEFINE d == sc[s]
             e == [d EXCEPT !.pos = @ + 1]
  <1>1. pc = s
    BY DEF Working
  <1>2. repos \in 1 .. MaxRepos /\ MaxRepos \in Nat /\ d \in Scanner
    BY <1>1, ScanFacts
  <1>3. e \in Scanner /\ e.cursor = d.cursor /\ e.repo = d.repo /\ e.remaining = d.remaining
    <2>1. d.pos + 1 \in Nat
      BY <1>2 DEF Scanner
    <2>2. e \in Scanner
      BY <1>2, <2>1, ScannerFields
    <2> QED BY <1>2, <2>2 DEF Scanner
  <1>4. sc' = [sc EXCEPT ![s] = e]
    BY DEF CoverInv
  <1>5. s = "deep" /\ Steady => e.cursor <= repos
    BY <1>1, <1>2, <1>3 DEF CoverInv, Scans
  <1>6. ASSUME s = "deep", Steady, deepOpen
        PROVE  Walks(e, repos) /\ Covers(e, repos, seen')
    <2>1. Walks(d, repos) /\ Covers(d, repos, seen)
      BY <1>6 DEF CoverInv
    <2>2. d.pos < Len(d.runs) /\ repos \in Nat \ {0}
      BY <1>2 DEF HasUnit
    <2>3. seen' = seen \cup {<<d.repo, d.runs[d.pos + 1]>>}
      BY <1>6 DEF Covered, NextUnit
    <2>4. e = [d EXCEPT !.pos = @ + 1]
      OBVIOUS
    <2> HIDE DEF d, e
    <2> QED BY <1>2, <1>3, <2>1, <2>2, <2>3, <2>4, RunCovers DEF d
  <1>7. e.repo # NoRepo => e.remaining > 0
    BY <1>3 DEF CoverInv
  <1>8. s = "recent" => seen' = seen
    BY DEF Covered
  <1> HIDE DEF e
  <1> QED BY <1>1, <1>3, <1>4, <1>5, <1>6, <1>7, <1>8, ScannerStep

\* A step that moves no scanner, changes neither list nor pass, nor takes back
\* anything that was done.
LEMMA StillStep ==
    ASSUME CoverInv, UNCHANGED <<world, repos, allAges, sc, seen>>, deepOpen' => deepOpen,
           pc' \in {"open"} \cup Scans => repos # None /\ repos > 0
    PROVE  CoverInv'
  <1>1. Steady' <=> Steady
    BY DEF Steady
  <1>2. \A r : Window(r)' = Window(r)
    BY DEF Window, Ages
  <1>3. ASSUME Walks(sc["deep"], repos), Covers(sc["deep"], repos, seen)
        PROVE  Walks(sc["deep"], repos)' /\ Covers(sc["deep"], repos, seen)'
    BY <1>2, <1>3 DEF Walks, Covers, Ahead, Left, InProgress
  <1> QED BY <1>1, <1>3 DEF CoverInv

\* Every unit of work keeps the account of what is done, whether it finishes,
\* fails or is cut off.
LEMMA ScanStep ==
    ASSUME CoverInv, NEW s \in Scans,
           SkipRepo(s) \/ ListRuns(s) \/ ProcessRun(s) \/ RepoDone(s) \/ ScanStops(s) \/ CutOff(s)
    PROVE  CoverInv'
  <1>pc. pc = s
    BY DEF SkipRepo, ListRuns, ProcessRun, RepoDone, ScanStops, CutOff, Working
  <1>f. /\ repos \in 1 .. MaxRepos /\ MaxRepos \in Nat /\ MaxRuns \in Nat
        /\ sc[s] \in Scanner /\ NextRepo(s) \in 1 .. repos
    BY <1>pc, ScanFacts
  <1>all. \A n \in 1 .. MaxRepos : Window(n) \subseteq UnitsOf(n)
    <2> SUFFICES ASSUME NEW n \in 1 .. MaxRepos, NEW u \in Window(n) PROVE u \in UnitsOf(n)
      OBVIOUS
    <2>1. PICK m \in 0 .. MaxRuns : DOMAIN world.runs[n] = 1 .. m
      BY ScanAssumption DEF ScanAssumption, CoverInv
    <2>2. u[1] = n /\ u[2] \in 0 .. MaxRuns /\ u = <<u[1], u[2]>>
      BY <2>1, <1>f DEF Window
    <2> QED BY <2>2 DEF UnitsOf
  <1>1. CASE SkipRepo(s)
    BY <1>1, PassStep DEF SkipRepo, envVars, passVars
  <1>2. CASE ListRuns(s)
    <2> DEFINE d == sc[s]
               next == NextRepo(s)
               L == ListQueuedWorkflowRuns(s, next)
               e == [d EXCEPT !.cursor = next, !.repo = next, !.pos = 0, !.runs = L]
    <2>1. /\ d.repo = NoRepo /\ d.remaining > 0 /\ Working(s)
          /\ UNCHANGED <<world, repos, allAges, deepOpen, pc>>
      BY <1>2 DEF ListRuns, Working, envVars, passVars
    <2>2. CASE sc' = PassRepo(s) /\ Covered(s, UnitsOf(next))
      <3>1. s = "deep" => seen \subseteq seen' /\ Window(next) \subseteq seen'
        BY <2>2, <1>f, <1>all DEF Covered
      <3>2. s = "recent" => seen' = seen
        BY <2>2 DEF Covered
      <3> QED BY <2>1, <2>2, <3>1, <3>2, PassStep
    <2>3. CASE /\ sc' = [sc EXCEPT ![s].cursor = next, ![s].repo = next, ![s].pos = 0, ![s].runs = L]
               /\ Covered(s, {<<next, 0>>})
      <3>1. /\ L \in Seq(Nat)
            /\ s = "deep" => \A u \in Window(next) : \/ u = <<next, 0>>
                                                     \/ \E k \in 1 .. Len(L) : u = <<next, L[k]>>
        <4>1. world \in Worlds /\ next \in 1 .. MaxRepos
          BY <1>f DEF CoverInv
        <4> HIDE DEF next
        <4> QED BY <4>1, ListingIsComplete
      <3> HIDE DEF L
      <3>2. e \in Scanner
        <4>1. next \in Nat
          BY <1>f
        <4> HIDE DEF next, d
        <4>2. d \in Scanner
          BY <1>f DEF d
        <4> QED BY <3>1, <4>1, <4>2, ScannerFields
      <3>3. e.cursor = next /\ e.repo = next /\ e.remaining = d.remaining
        BY <1>f DEF Scanner
      <3>4. sc' = [sc EXCEPT ![s] = e]
        BY <2>3 DEF CoverInv
      <3>5. ASSUME s = "deep", Steady, deepOpen
            PROVE  Walks(e, repos) /\ Covers(e, repos, seen')
        <4>1. d.cursor <= repos /\ Walks(d, repos) /\ Covers(d, repos, seen)
          BY <3>5, <1>pc DEF CoverInv, Scans
        <4>2. next = (d.cursor % repos) + 1 /\ repos \in Nat \ {0} /\ d \in Scanner
          BY <1>f DEF NextRepo
        <4>3. seen \subseteq seen' /\ <<next, 0>> \in seen'
          BY <2>3, <3>5 DEF Covered
        <4>4. \A u \in Window(next) : u \in seen' \/ \E k \in 1 .. Len(L) : u = <<next, L[k]>>
          BY <3>1, <3>5, <4>3
        <4>5. e = [d EXCEPT !.cursor = next, !.repo = next, !.pos = 0, !.runs = L]
          OBVIOUS
        <4> HIDE DEF d, e, next
        <4> QED BY <2>1, <3>1, <3>2, <4>1, <4>2, <4>3, <4>4, <4>5, ListCovers
      <3>6. e.repo # NoRepo => e.remaining > 0
        BY <2>1, <3>3
      <3>7. s = "deep" /\ Steady => e.cursor <= repos
        BY <1>f, <3>3
      <3>8. s = "recent" => seen' = seen
        BY <2>3 DEF Covered
      <3> HIDE DEF e
      <3> QED BY <1>pc, <2>1, <3>2, <3>4, <3>5, <3>6, <3>7, <3>8, ScannerStep
    <2> QED BY <1>2, <2>2, <2>3 DEF ListRuns
  <1>3. CASE ProcessRun(s)
    BY <1>3, RunStep DEF ProcessRun, envVars, passVars
  <1>4. CASE RepoDone(s)
    <2> DEFINE d == sc[s]
               e == [d EXCEPT !.repo = NoRepo, !.runs = <<>>, !.pos = 0, !.remaining = @ - 1]
    <2>1. /\ d.repo # NoRepo /\ ~(d.pos < Len(d.runs))
          /\ sc' = [sc EXCEPT ![s].repo = NoRepo, ![s].runs = <<>>, ![s].pos = 0, ![s].remaining = @ - 1]
          /\ UNCHANGED <<world, repos, allAges, deepOpen, pc, seen>>
      BY <1>4 DEF RepoDone, HasUnit, envVars, passVars
    <2>2. d.remaining > 0
      BY <2>1 DEF CoverInv
    <2>3. e \in Scanner
      <3>1. d.remaining - 1 \in Nat
        BY <1>f, <2>2 DEF Scanner
      <3> HIDE DEF d
      <3>2. d \in Scanner
        BY <1>f DEF d
      <3> QED BY <3>1, <3>2, ScannerFields
    <2>4. e.cursor = d.cursor /\ e.repo = NoRepo
      BY <1>f DEF Scanner
    <2>5. sc' = [sc EXCEPT ![s] = e]
      BY <2>1 DEF CoverInv
    <2>6. ASSUME s = "deep", Steady, deepOpen
          PROVE  Walks(e, repos) /\ Covers(e, repos, seen')
      <3>1. Walks(d, repos) /\ Covers(d, repos, seen) /\ seen' = seen
        BY <2>1, <2>6 DEF CoverInv
      <3>2. repos \in Nat \ {0} /\ d \in Scanner
        BY <1>f
      <3>3. e = [d EXCEPT !.repo = NoRepo, !.runs = <<>>, !.pos = 0, !.remaining = @ - 1]
        OBVIOUS
      <3> HIDE DEF d, e
      <3> QED BY <2>1, <2>2, <2>3, <3>1, <3>2, <3>3, RepoDoneCovers
    <2>7. s = "deep" /\ Steady => e.cursor <= repos
      BY <1>f, <1>pc, <2>4 DEF CoverInv, Scans
    <2> HIDE DEF e
    <2> QED BY <1>pc, <2>1, <2>3, <2>4, <2>5, <2>6, <2>7, ScannerStep
  <1>5. CASE ScanStops(s)
    <2>1. /\ UNCHANGED <<world, repos, allAges, sc, seen>> /\ (deepOpen' => deepOpen)
          /\ pc' \in {"deep", "end"}
      BY <1>5 DEF ScanStops, AfterScan, envVars
    <2>2. repos # None /\ repos > 0
      BY <1>pc DEF CoverInv
    <2> QED BY <2>1, <2>2, StillStep
  <1>6. CASE CutOff(s)
    <2> DEFINE u == NextUnit(s)
               skip == cutoffs[<<s, u>>] + 1 >= MaxCutoffs
    <2>1. /\ UNCHANGED <<world, repos, allAges>> /\ (deepOpen' => deepOpen)
          /\ pc' \in {"deep", "end"} /\ Working(s) /\ HasUnit(s)
      BY <1>6 DEF CutOff, AfterScan, envVars
    <2>2. CASE ~skip
      <3>1. sc' = sc /\ seen' = seen
        BY <1>6, <2>2 DEF CutOff, Covered
      <3>2. repos # None /\ repos > 0
        BY <1>pc DEF CoverInv
      <3> QED BY <2>1, <3>1, <3>2, StillStep
    <2>3. CASE skip /\ sc[s].repo = NoRepo
      <3>1. sc' = PassRepo(s) /\ Covered(s, UnitsOf(NextRepo(s)))
        <4>1. u[1] = NextRepo(s)
          BY <2>3 DEF NextUnit
        <4> QED BY <1>6, <2>3, <4>1 DEF CutOff
      <3>2. s = "deep" => seen \subseteq seen' /\ Window(NextRepo(s)) \subseteq seen'
        BY <3>1, <1>f, <1>all DEF Covered
      <3>3. s = "recent" => seen' = seen
        BY <3>1 DEF Covered
      <3> QED BY <2>1, <2>3, <3>1, <3>2, <3>3, PassStep
    <2>4. CASE skip /\ sc[s].repo # NoRepo
      <3>1. sc' = [sc EXCEPT ![s].pos = @ + 1] /\ Covered(s, {u})
        BY <1>6, <2>4 DEF CutOff
      <3> QED BY <2>1, <2>4, <3>1, RunStep
    <2> QED BY <2>2, <2>3, <2>4
  <1> QED BY <1>1, <1>2, <1>3, <1>4, <1>5, <1>6

\* The listing of the repositories, a new pass, and all else that can happen.
LEMMA CoverStep == CoverInv /\ [Next]_vars => CoverInv'
  <1> SUFFICES ASSUME CoverInv, [Next]_vars PROVE CoverInv'
    OBVIOUS
  <1>a. MaxRepos \in Nat /\ None \notin Nat /\ world.sizes \subseteq 0 .. MaxRepos
    BY ScanAssumption DEF ScanAssumption, CoverInv
  <1>1. CASE UNCHANGED vars
    <2>1. pc \in {"open"} \cup Scans => repos # None /\ repos > 0
      BY DEF CoverInv
    <2> QED BY <1>1, <2>1, StillStep DEF vars, envVars, passVars
  <1>2. CASE StoreChanges
    BY <1>2, StillStep DEF StoreChanges, passVars, Scans
  <1>3. CASE RateLimitChanges
    <2>1. pc \in {"open"} \cup Scans => repos # None /\ repos > 0
      BY DEF CoverInv
    <2> QED BY <1>3, <2>1, StillStep DEF RateLimitChanges, passVars
  <1>4. CASE Begin
    BY <1>4, StillStep DEF Begin, envVars, passVars, Scans
  <1>5. CASE Rescue
    BY <1>5, StillStep DEF Rescue, envVars, passVars, Scans
  <1>6. CASE RepositoriesFail
    BY <1>6, StillStep DEF RepositoriesFail, passVars, Scans
  <1>7. CASE EndCycle
    BY <1>7, StillStep DEF EndCycle, envVars, Scans
  <1>8. CASE Repositories
    <2>1. /\ world' = world /\ seen' = seen /\ allAges' = allAges
          /\ repos' \in world.sizes /\ repos' # None /\ repos' \in Nat
      BY <1>8, <1>a DEF Repositories, CoverInv, passVars
    <2>2. Steady' <=> Steady
      BY <2>1 DEF Steady
    <2>3. Steady /\ repos # None => repos' = repos
      BY <2>1, SteadyList DEF CoverInv
    <2>4. CASE repos' > 0
      <3>1. sc' = sc /\ deepOpen' = deepOpen /\ pc' = "open"
        BY <1>8, <2>4 DEF Repositories, passVars
      <3>2. \A r : Window(r)' = Window(r)
        BY <2>1 DEF Window, Ages
      <3>3. ASSUME Steady, deepOpen
            PROVE  Walks(sc["deep"], repos)' /\ Covers(sc["deep"], repos, seen)'
        <4>1. repos' = repos /\ Walks(sc["deep"], repos) /\ Covers(sc["deep"], repos, seen)
          BY <2>3, <3>3 DEF CoverInv
        <4> QED BY <2>1, <3>1, <3>2, <4>1 DEF Walks, Covers, Ahead, Left, InProgress
      <3>4. Steady => sc["deep"].cursor <= repos'
        BY <2>1, <2>3 DEF CoverInv
      <3> QED BY <2>1, <2>2, <2>4, <3>1, <3>3, <3>4 DEF CoverInv
    <2>5. CASE ~(repos' > 0)
      <3>1. sc' = [s \in Scans |-> FreshScanner] /\ ~deepOpen' /\ pc' = "end"
        BY <1>8, <2>5 DEF Repositories
      <3>2. FreshScanner \in Scanner
        BY ScannerFields DEF CoverInv, Scans
      <3>3. sc' \in [Scans -> Scanner]
        BY <3>1, <3>2
      <3>4. \A s \in Scans : sc'[s].cursor = 0 /\ sc'[s].repo = NoRepo
        BY <3>1 DEF FreshScanner
      <3> QED BY <2>1, <3>1, <3>3, <3>4 DEF CoverInv, Scans
    <2> QED BY <2>4, <2>5
  <1>9. CASE OpenPass
    <2> DEFINE stateReset == empty /\ saw
               restart == deepOpen /\ (stateReset \/ openFor >= DeepMaxOpen)
               opens == restart \/ (~deepOpen /\ (stateReset \/ sinceDeep >= DeepInterval))
               cursor == IF restart THEN 0 ELSE sc["deep"].cursor
               r2 == [sc["recent"] EXCEPT !.remaining = repos]
               d2 == [FreshScanner EXCEPT !.cursor = cursor, !.remaining = repos]
    <2>1. /\ UNCHANGED <<world, repos>> /\ pc' = "recent" /\ pc = "open"
          /\ deepOpen' = (deepOpen \/ opens)
          /\ allAges' = IF opens THEN empty ELSE allAges
          /\ seen' = IF opens THEN {} ELSE seen
          /\ sc' = [recent |-> r2, deep |-> IF opens THEN d2 ELSE sc["deep"]]
      BY <1>9 DEF OpenPass, envVars
    <2> HIDE DEF opens
    <2>2. repos \in 1 .. MaxRepos
      BY <2>1, <1>a DEF CoverInv
    <2>3. repos \in Nat /\ cursor \in Nat
      BY <2>2, <1>a DEF CoverInv, Scanner, Scans
    <2>4. r2 \in Scanner /\ d2 \in Scanner /\ sc["deep"] \in Scanner
      <3>1. sc["recent"] \in Scanner /\ sc["deep"] \in Scanner
        BY DEF CoverInv, Scans
      <3> HIDE DEF cursor
      <3> QED BY <2>3, <3>1, ScannerFields
    <2>5. sc'["recent"] = r2 /\ sc'["deep"] = IF opens THEN d2 ELSE sc["deep"]
      BY <2>1
    <2>6. sc' \in [Scans -> Scanner]
      <3> HIDE DEF r2, d2
      <3> QED BY <2>1, <2>4 DEF Scans
    <2>7. r2.remaining = repos /\ d2.remaining = repos /\ d2.cursor = cursor /\ d2.repo = NoRepo
      <3>1. sc["recent"] \in Scanner
        BY DEF CoverInv, Scans
      <3> QED BY <3>1 DEF Scanner, FreshScanner
    <2>8. Steady' <=> Steady
      BY <2>1 DEF Steady
    <2>9. Steady => cursor <= repos
      BY <2>1, <2>2 DEF CoverInv
    <2> HIDE DEF r2, d2, cursor
    <2>10. \A s \in Scans : sc'[s].repo # NoRepo => sc'[s].remaining > 0
      BY <2>2, <2>5, <2>7 DEF CoverInv, Scans
    <2>11. CASE opens
      <3>1. Steady => Walks(d2, repos) /\ Covers(d2, repos, seen')
        BY <2>3, <2>4, <2>7, <2>9, FreshCovers
      <3>2. Steady => \A r \in 1 .. repos : Ahead(d2, repos, r)
        BY <2>3, <2>7, <2>9 DEF Ahead, Left
      <3>3. Steady => Walks(sc["deep"], repos)' /\ Covers(sc["deep"], repos, seen)'
        BY <2>1, <2>5, <2>11, <3>1, <3>2 DEF Walks, Covers, Ahead, Left
      <3> QED BY <2>1, <2>2, <2>5, <2>6, <2>7, <2>8, <2>9, <2>10, <2>11, <3>3, <1>a DEF CoverInv, Scans
    <2>12. CASE ~opens
      <3>1. \A r : Window(r)' = Window(r)
        BY <2>1, <2>12 DEF Window, Ages
      <3>2. ASSUME Steady, deepOpen
            PROVE  Walks(sc["deep"], repos)' /\ Covers(sc["deep"], repos, seen)'
        <4>1. Walks(sc["deep"], repos) /\ Covers(sc["deep"], repos, seen)
          BY <3>2 DEF CoverInv
        <4> QED BY <2>1, <2>5, <2>12, <3>1, <4>1 DEF Walks, Covers, Ahead, Left, InProgress
      <3> QED BY <2>1, <2>2, <2>5, <2>6, <2>8, <2>10, <2>12, <3>2, <1>a DEF CoverInv, Scans
    <2> QED BY <2>11, <2>12
  <1> QED BY <1>1, <1>2, <1>3, <1>4, <1>5, <1>6, <1>7, <1>8, <1>9, ScanStep DEF Next, CycleStep

\* A deep pass is closed by a scan that has nothing left, or by an empty list.
LEMMA CloseStep ==
    ASSUME CoverInv, [Next]_vars, deepOpen, ~deepOpen', repos' > 0, Steady,
           NEW n \in world.accepts \cap 1 .. repos
    PROVE  Window(n) \subseteq seen'
  <1>1. PICK s \in Scans : s = "deep" /\ ScanStops(s) /\ ~Working(s) /\ sc["deep"].remaining = 0
    BY DEF Next, CycleStep, vars, passVars, StoreChanges, RateLimitChanges, Begin, Rescue,
           Repositories, RepositoriesFail, OpenPass, EndCycle, SkipRepo, ListRuns, ProcessRun,
           RepoDone, ScanStops, CutOff, AfterScan
  <1>2. seen' = seen /\ pc = "deep"
    BY <1>1 DEF ScanStops
  <1>3. sc["deep"].repo = NoRepo
    BY <1>1, <1>2 DEF Working
  <1>4. /\ repos \in Nat /\ sc["deep"] \in Scanner /\ sc["deep"].cursor <= repos
        /\ Covers(sc["deep"], repos, seen)
    <2>1. repos \in 1 .. MaxRepos /\ MaxRepos \in Nat /\ sc["deep"] \in Scanner
      BY <1>1, <1>2, ScanFacts
    <2> QED BY <1>2, <2>1 DEF CoverInv, Scans
  <1>5. ~Ahead(sc["deep"], repos, n) /\ n # sc["deep"].repo
    BY <1>1, <1>3, <1>4 DEF Ahead, Left, Scanner, NoRepo
  <1> QED BY <1>2, <1>4, <1>5 DEF Covers

\* When a deep pass closes over a steady list, every accepted repository's listing
\* and every queued run of the pass's window was looked at, failed, or was cut off
\* MaxCutoffs times in a row (scanRepos, and the end of
\* ReconcileQueuedGitHubJobs).
THEOREM ClosedPassIsComplete == Spec => ClosedPassCoversEverything
  <1>1. Init => CoverInv
    <2>1. FreshScanner \in Scanner
      <3> DEFINE Q == Seq(Nat)
      <3>1. <<>> \in Q /\ Scanner = [cursor : Nat, repo : Nat, runs : Q, pos : Nat, remaining : Nat]
        BY DEF Scanner
      <3> HIDE DEF Q
      <3> QED BY <3>1 DEF FreshScanner, NoRepo
    <2> HIDE DEF Scanner
    <2>2. FreshScanner.cursor = 0 /\ FreshScanner.repo = NoRepo
      BY DEF FreshScanner
    <2> QED BY <2>1, <2>2 DEF Init, CoverInv, Scans
  <1>2. CoverInv /\ [Next]_vars
        => [(deepOpen /\ ~deepOpen' /\ repos' > 0 /\ Steady)
              => \A n \in world.accepts \cap 1 .. repos : Window(n) \subseteq seen']_vars
    BY CloseStep
  <1> QED BY <1>1, <1>2, CoverStep, PTL DEF Spec, ClosedPassCoversEverything

-----------------------------------------------------------------------------
(* How long a deep pass can stay open.                                      *)

\* What a pass may have to try: each unit is cut off at most MaxCutoffs times,
\* and a repository has its listing and at most MaxRuns runs.
RepoWork == MaxCutoffs * (MaxRuns + 1)
PassWork == MaxRepos * RepoWork

\* The scanner d has a unit left, and the tries that may be left in all.
Pending(d) == IF d.repo = NoRepo THEN d.remaining > 0 ELSE d.pos < Len(d.runs)
WorkOf(d) == IF d.repo = NoRepo THEN d.remaining * RepoWork
             ELSE (d.remaining - 1) * RepoWork + (Len(d.runs) - d.pos) * MaxCutoffs

\* The unit the scanner d works on next, of a list of n repositories, and the
\* deadlines it has met in a row.
UnitOf(d, n) == IF d.repo = NoRepo THEN <<(d.cursor % n) + 1, 0>>
                ELSE <<d.repo, d.runs[d.pos + 1]>>
TriesOf(d, cut, n) == IF Pending(d) THEN cut[<<"deep", UnitOf(d, n)>>] ELSE 0

\* The repository in progress and what its listing can have returned.
Listed(d) == /\ d.repo \in 0 .. MaxRepos /\ d.pos <= Len(d.runs) /\ Len(d.runs) <= MaxRuns
             /\ \A k \in 1 .. Len(d.runs) : d.runs[k] \in 0 .. MaxRuns

CutoffCounts == [Scans \X Units -> 0 .. MaxCutoffs - 1]

PaceTypes ==
    /\ faults \in [limits : Nat, resets : Nat, lists : Nat]
    /\ openFor \in Nat
    /\ cutoffs \in CutoffCounts
    /\ Listed(sc["deep"])
    /\ deepOpen => repos > 0

\* Every cycle of an open pass has used up a try, and so has the current one
\* once it is ahead by one.
Pace(ahead) ==
    openFor + WorkOf(sc["deep"]) - TriesOf(sc["deep"], cutoffs, repos) + ahead <= PassWork

PaceInv ==
    /\ PaceTypes
    /\ Steady => ~limited
    /\ pc = "repos" => spent <= RescueLimit - 1 + world.pages
    /\ Steady /\ deepOpen =>
         /\ pc \in {"idle", "rescue", "repos", "open", "recent"} => Pace(0)
         /\ pc = "deep" => Pace(IF moved THEN 1 ELSE 0) /\ (~moved => spent = recentSpent)
         /\ pc = "end" => Pace(1)

\* The deadline of a pass leaves time for one try a cycle, and the rescue leaves
\* calls for the listing of the repositories.
PassFits ==
    /\ DeepMaxOpen > PassWork
    /\ \A w \in Worlds : w.limits = 0 /\ Cardinality(w.sizes) = 1
                         => RescueLimit - 1 + w.pages < Budget

\* The tries of a repository and of a pass, as numbers.
LEMMA WorkNumbers ==
    /\ MaxCutoffs \in Nat \ {0} /\ MaxRuns \in Nat /\ MaxRepos \in Nat
    /\ RepoWork \in Nat /\ RepoWork >= MaxCutoffs /\ PassWork \in Nat
    /\ \A m \in Nat : m * RepoWork \in Nat
    /\ \A m \in Nat \ {0} : (m - 1) * RepoWork = m * RepoWork - RepoWork
    /\ \A m \in Nat : m <= MaxRepos => m * RepoWork <= PassWork
    /\ \A k \in Nat : k * MaxCutoffs \in Nat
    /\ \A k \in Nat \ {0} : (k - 1) * MaxCutoffs = k * MaxCutoffs - MaxCutoffs
    /\ \A k \in Nat : k <= MaxRuns => k * MaxCutoffs <= RepoWork - MaxCutoffs
  <1>1. MaxCutoffs \in Nat \ {0} /\ MaxRuns \in Nat /\ MaxRepos \in Nat
    BY ScanAssumption DEF ScanAssumption
  <1>2. \A a, b \in Nat : a * b \in Nat
    OBVIOUS
  <1>3. \A a \in Nat \ {0}, b \in Nat : (a - 1) * b = a * b - b
    OBVIOUS
  <1>4. \A a, b, c \in Nat : a <= b => a * c <= b * c
    <2> SUFFICES ASSUME NEW a \in Nat, NEW b \in Nat, NEW c \in Nat, a <= b PROVE a * c <= b * c
      OBVIOUS
    <2>1. (b - a) * c \in Nat
      BY <1>2
    <2>2. (b - a) * c = b * c - a * c
      OBVIOUS
    <2> QED BY <2>1, <2>2, <1>2
  <1>5. RepoWork \in Nat /\ RepoWork = MaxRuns * MaxCutoffs + MaxCutoffs
    BY <1>1, <1>2 DEF RepoWork
  <1>6. MaxRuns * MaxCutoffs \in Nat
    BY <1>1, <1>2
  <1>7. RepoWork >= MaxCutoffs /\ PassWork \in Nat
    BY <1>1, <1>2, <1>5, <1>6 DEF PassWork
  <1>8. \A k \in Nat : k <= MaxRuns => k * MaxCutoffs <= RepoWork - MaxCutoffs
    <2> SUFFICES ASSUME NEW k \in Nat, k <= MaxRuns PROVE k * MaxCutoffs <= RepoWork - MaxCutoffs
      OBVIOUS
    <2>1. k * MaxCutoffs <= MaxRuns * MaxCutoffs /\ k * MaxCutoffs \in Nat
      BY <1>1, <1>2, <1>4
    <2> QED BY <1>1, <1>5, <1>6, <2>1
  <1>9. \A m \in Nat : m <= MaxRepos => m * RepoWork <= PassWork
    BY <1>1, <1>4, <1>5 DEF PassWork
  <1> QED BY <1>1, <1>2, <1>3, <1>5, <1>7, <1>8, <1>9

\* What a scanner has left is a number, and a unit that is left is worth all its
\* tries.
LEMMA WorkType ==
    ASSUME NEW d \in Scanner, Listed(d), d.repo # NoRepo => d.remaining > 0
    PROVE  /\ WorkOf(d) \in Nat
           /\ Pending(d) => WorkOf(d) >= MaxCutoffs
  <1> DEFINE k == Len(d.runs) - d.pos
  <1>1. d.remaining \in Nat /\ d.pos \in Nat /\ Len(d.runs) \in Nat
    BY DEF Scanner
  <1>2. CASE d.repo = NoRepo
    <2>1. d.remaining * RepoWork \in Nat
      BY <1>1, WorkNumbers
    <2>2. d.remaining > 0 => d.remaining * RepoWork >= RepoWork
      <3>1. d.remaining > 0 => d.remaining - 1 \in Nat
        BY <1>1
      <3> QED BY <1>1, <2>1, <3>1, WorkNumbers
    <2> QED BY <1>2, <2>1, <2>2, WorkNumbers DEF WorkOf, Pending
  <1>3. CASE d.repo # NoRepo
    <2>1. d.remaining - 1 \in Nat /\ k \in Nat
      BY <1>1, <1>3 DEF Listed
    <2>2. (d.remaining - 1) * RepoWork \in Nat /\ k * MaxCutoffs \in Nat
      BY <2>1, WorkNumbers
    <2>3. k > 0 => k * MaxCutoffs >= MaxCutoffs
      <3>1. k > 0 => (k - 1) * MaxCutoffs \in Nat /\ (k - 1) * MaxCutoffs = k * MaxCutoffs - MaxCutoffs
        <4>1. k > 0 => k - 1 \in Nat /\ k \in Nat \ {0}
          BY <2>1
        <4> HIDE DEF k
        <4> QED BY <4>1, WorkNumbers
      <3> HIDE DEF k
      <3> QED BY <2>2, <3>1, WorkNumbers
    <2>4. WorkOf(d) = (d.remaining - 1) * RepoWork + k * MaxCutoffs /\ (Pending(d) => k > 0)
      BY <1>1, <1>3 DEF WorkOf, Pending
    <2> HIDE DEF k
    <2> QED BY <2>2, <2>3, <2>4, WorkNumbers
  <1> QED BY <1>2, <1>3

\* A unit that is done, failed or given up takes its tries with it.
LEMMA WorkFalls ==
    ASSUME NEW d \in Scanner, Listed(d), d.repo # NoRepo => d.remaining > 0
    PROVE  /\ \A c \in Nat : d.repo = NoRepo /\ d.remaining > 0
                => WorkOf([d EXCEPT !.cursor = c, !.remaining = @ - 1]) <= WorkOf(d) - MaxCutoffs
           /\ \A c \in Nat \ {0}, L \in Seq(Nat) :
                d.repo = NoRepo /\ d.remaining > 0 /\ Len(L) <= MaxRuns
                => WorkOf([d EXCEPT !.cursor = c, !.repo = c, !.pos = 0, !.runs = L]) <= WorkOf(d) - MaxCutoffs
           /\ d.repo # NoRepo /\ d.pos < Len(d.runs)
                => WorkOf([d EXCEPT !.pos = @ + 1]) <= WorkOf(d) - MaxCutoffs
           /\ d.repo # NoRepo /\ ~(d.pos < Len(d.runs))
                => WorkOf([d EXCEPT !.repo = NoRepo, !.runs = <<>>, !.pos = 0, !.remaining = @ - 1]) <= WorkOf(d)
  <1>1. d.remaining \in Nat /\ d.pos \in Nat /\ Len(d.runs) \in Nat
    BY DEF Scanner
  <1>2. ASSUME NEW c \in Nat, d.repo = NoRepo, d.remaining > 0
        PROVE  WorkOf([d EXCEPT !.cursor = c, !.remaining = @ - 1]) <= WorkOf(d) - MaxCutoffs
    <2> DEFINE e == [d EXCEPT !.cursor = c, !.remaining = @ - 1]
    <2>1. e.repo = NoRepo /\ e.remaining = d.remaining - 1
      BY <1>2 DEF Scanner
    <2>2. WorkOf(e) = (d.remaining - 1) * RepoWork /\ WorkOf(d) = d.remaining * RepoWork
      BY <1>2, <2>1 DEF WorkOf
    <2>3. (d.remaining - 1) * RepoWork = d.remaining * RepoWork - RepoWork /\ d.remaining * RepoWork \in Nat
      BY <1>1, <1>2, WorkNumbers
    <2> HIDE DEF e
    <2> QED BY <2>2, <2>3, WorkNumbers DEF e
  <1>3. ASSUME NEW c \in Nat \ {0}, NEW L \in Seq(Nat), d.repo = NoRepo, d.remaining > 0, Len(L) <= MaxRuns
        PROVE  WorkOf([d EXCEPT !.cursor = c, !.repo = c, !.pos = 0, !.runs = L]) <= WorkOf(d) - MaxCutoffs
    <2> DEFINE e == [d EXCEPT !.cursor = c, !.repo = c, !.pos = 0, !.runs = L]
    <2>1. e.repo = c /\ e.remaining = d.remaining /\ e.pos = 0 /\ e.runs = L /\ c # NoRepo
      BY <1>3 DEF Scanner, NoRepo
    <2>2. Len(L) \in Nat /\ Len(L) - 0 = Len(L)
      OBVIOUS
    <2>3. WorkOf(e) = (d.remaining - 1) * RepoWork + Len(L) * MaxCutoffs /\ WorkOf(d) = d.remaining * RepoWork
      BY <1>3, <2>1, <2>2 DEF WorkOf
    <2>4. (d.remaining - 1) * RepoWork = d.remaining * RepoWork - RepoWork /\ d.remaining * RepoWork \in Nat
      BY <1>1, <1>3, WorkNumbers
    <2>5. Len(L) * MaxCutoffs <= RepoWork - MaxCutoffs /\ Len(L) * MaxCutoffs \in Nat
      BY <1>3, <2>2, WorkNumbers
    <2> HIDE DEF e
    <2>6. WorkOf(e) <= WorkOf(d) - MaxCutoffs
      BY <2>3, <2>4, <2>5, WorkNumbers
    <2> QED BY <2>6 DEF e
  <1>4. ASSUME d.repo # NoRepo, d.pos < Len(d.runs)
        PROVE  WorkOf([d EXCEPT !.pos = @ + 1]) <= WorkOf(d) - MaxCutoffs
    <2> DEFINE e == [d EXCEPT !.pos = @ + 1]
               k == Len(d.runs) - d.pos
    <2>1. e.repo = d.repo /\ e.remaining = d.remaining /\ e.pos = d.pos + 1 /\ e.runs = d.runs
      BY DEF Scanner
    <2>2. Len(d.runs) - (d.pos + 1) = k - 1 /\ k \in Nat \ {0}
      BY <1>1, <1>4
    <2>3. /\ WorkOf(e) = (d.remaining - 1) * RepoWork + (k - 1) * MaxCutoffs
          /\ WorkOf(d) = (d.remaining - 1) * RepoWork + k * MaxCutoffs
      BY <1>4, <2>1, <2>2 DEF WorkOf
    <2> HIDE DEF k, e
    <2>4. (k - 1) * MaxCutoffs = k * MaxCutoffs - MaxCutoffs /\ k * MaxCutoffs \in Nat
      BY <2>2, WorkNumbers
    <2>5. (d.remaining - 1) * RepoWork \in Nat
      <3>1. d.remaining - 1 \in Nat
        BY <1>1, <1>4
      <3> QED BY <3>1, WorkNumbers
    <2> QED BY <2>3, <2>4, <2>5, WorkNumbers DEF e
  <1>5. ASSUME d.repo # NoRepo, ~(d.pos < Len(d.runs))
        PROVE  WorkOf([d EXCEPT !.repo = NoRepo, !.runs = <<>>, !.pos = 0, !.remaining = @ - 1]) <= WorkOf(d)
    <2> DEFINE e == [d EXCEPT !.repo = NoRepo, !.runs = <<>>, !.pos = 0, !.remaining = @ - 1]
               k == Len(d.runs) - d.pos
    <2>1. e.repo = NoRepo /\ e.remaining = d.remaining - 1
      BY DEF Scanner
    <2>2. /\ WorkOf(e) = (d.remaining - 1) * RepoWork
          /\ WorkOf(d) = (d.remaining - 1) * RepoWork + k * MaxCutoffs
      BY <1>5, <2>1 DEF WorkOf
    <2>3. k \in Nat /\ d.remaining - 1 \in Nat
      BY <1>1, <1>5 DEF Listed
    <2> HIDE DEF k, e
    <2>4. k * MaxCutoffs \in Nat /\ (d.remaining - 1) * RepoWork \in Nat
      BY <2>3, WorkNumbers
    <2> QED BY <2>2, <2>4 DEF e
  <1> QED BY <1>2, <1>3, <1>4, <1>5, Zenon

\* The next unit is one of the repositories' units, and has not yet been cut off
\* MaxCutoffs times.
LEMMA TriesType ==
    ASSUME NEW d \in Scanner, Listed(d), NEW n \in 1 .. MaxRepos, NEW cut \in CutoffCounts
    PROVE  /\ Pending(d) => <<"deep", UnitOf(d, n)>> \in Scans \X Units
           /\ TriesOf(d, cut, n) \in 0 .. MaxCutoffs - 1
  <1>1. MaxRepos \in Nat /\ MaxRuns \in Nat /\ MaxCutoffs \in Nat \ {0}
    BY WorkNumbers
  <1>2. ASSUME Pending(d) PROVE UnitOf(d, n) \in Units
    <2>1. CASE d.repo = NoRepo
      <3>1. (d.cursor % n) + 1 \in 1 .. n
        BY <1>1 DEF Scanner
      <3> QED BY <1>1, <2>1, <3>1 DEF UnitOf, Units
    <2>2. CASE d.repo # NoRepo
      <3>1. d.pos + 1 \in 1 .. Len(d.runs)
        <4>1. d.pos \in Nat /\ Len(d.runs) \in Nat
          BY DEF Scanner
        <4> QED BY <1>2, <2>2, <4>1 DEF Pending
      <3>2. d.runs[d.pos + 1] \in 0 .. MaxRuns /\ d.repo \in 1 .. MaxRepos
        BY <1>1, <2>2, <3>1 DEF Listed, NoRepo
      <3> QED BY <2>2, <3>2 DEF UnitOf, Units
    <2> QED BY <2>1, <2>2
  <1>3. Pending(d) => <<"deep", UnitOf(d, n)>> \in Scans \X Units
    BY <1>2 DEF Scans
  <1>4. TriesOf(d, cut, n) \in 0 .. MaxCutoffs - 1
    <2> DEFINE X == Scans \X Units
    <2>1. cut \in [X -> 0 .. MaxCutoffs - 1] /\ (Pending(d) => <<"deep", UnitOf(d, n)>> \in X)
      BY <1>3 DEF CutoffCounts
    <2> HIDE DEF X
    <2> QED BY <1>1, <2>1 DEF TriesOf
  <1> QED BY <1>3, <1>4

\* A counter that is reset or goes up below its limit.
LEMMA CountsKept ==
    ASSUME NEW cut \in CutoffCounts, NEW k, NEW v,
           k \in Scans \X Units => v \in 0 .. MaxCutoffs - 1
    PROVE  [cut EXCEPT ![k] = v] \in CutoffCounts
  <1> DEFINE X == Scans \X Units
  <1>1. cut \in [X -> 0 .. MaxCutoffs - 1] /\ (k \in X => v \in 0 .. MaxCutoffs - 1)
    BY DEF CutoffCounts
  <1>2. CutoffCounts = [X -> 0 .. MaxCutoffs - 1]
    BY DEF CutoffCounts
  <1> HIDE DEF X
  <1> QED BY <1>1, <1>2

\* The scanner after a step of the deep scan, one shape for each kind of step.
Passed(d, n) == [d EXCEPT !.cursor = (d.cursor % n) + 1, !.remaining = @ - 1]
Began(d, n, L) == [d EXCEPT !.cursor = (d.cursor % n) + 1, !.repo = (d.cursor % n) + 1, !.pos = 0, !.runs = L]
RanOne(d) == [d EXCEPT !.pos = @ + 1]
Ended(d) == [d EXCEPT !.repo = NoRepo, !.runs = <<>>, !.pos = 0, !.remaining = @ - 1]

\* All of them are scanners within the list, and a unit that is over takes its
\* tries with it.
LEMMA ShapesFall ==
    ASSUME NEW d \in Scanner, Listed(d), d.repo # NoRepo => d.remaining > 0,
           NEW n \in 1 .. MaxRepos
    PROVE  /\ d.repo = NoRepo /\ d.remaining > 0
              => Listed(Passed(d, n)) /\ WorkOf(Passed(d, n)) <= WorkOf(d) - MaxCutoffs
           /\ \A L \in Seq(Nat) :
                /\ d.repo = NoRepo /\ d.remaining > 0 /\ Len(L) <= MaxRuns
                /\ \A k \in 1 .. Len(L) : L[k] \in 0 .. MaxRuns
                => Listed(Began(d, n, L)) /\ WorkOf(Began(d, n, L)) <= WorkOf(d) - MaxCutoffs
           /\ d.repo # NoRepo /\ d.pos < Len(d.runs)
              => Listed(RanOne(d)) /\ WorkOf(RanOne(d)) <= WorkOf(d) - MaxCutoffs
           /\ d.repo # NoRepo /\ ~(d.pos < Len(d.runs))
              => Listed(Ended(d)) /\ WorkOf(Ended(d)) <= WorkOf(d)
  <1>1. MaxRepos \in Nat /\ MaxRuns \in Nat
    BY WorkNumbers
  <1>2. (d.cursor % n) + 1 \in 1 .. n /\ d.pos \in Nat /\ Len(d.runs) \in Nat
    BY <1>1 DEF Scanner
  <1> DEFINE c == (d.cursor % n) + 1
  <1>3. c \in Nat \ {0} /\ c \in Nat /\ c \in 0 .. MaxRepos
    BY <1>1, <1>2
  <1> HIDE DEF c
  <1>4. Passed(d, n) = [d EXCEPT !.cursor = c, !.remaining = @ - 1]
    BY DEF Passed, c
  <1>5. \A L : Began(d, n, L) = [d EXCEPT !.cursor = c, !.repo = c, !.pos = 0, !.runs = L]
    BY DEF Began, c
  <1>6. Listed(Passed(d, n))
    BY <1>4 DEF Listed, Scanner
  <1>7. ASSUME NEW L \in Seq(Nat), Len(L) <= MaxRuns, \A k \in 1 .. Len(L) : L[k] \in 0 .. MaxRuns
        PROVE  Listed(Began(d, n, L))
    <2>1. Began(d, n, L).repo = c /\ Began(d, n, L).pos = 0 /\ Began(d, n, L).runs = L
      BY DEF Scanner, Began, c
    <2> QED BY <1>3, <1>7, <2>1 DEF Listed
  <1>8. d.pos < Len(d.runs) => Listed(RanOne(d))
    BY <1>2 DEF Listed, RanOne, Scanner
  <1>9. Listed(Ended(d))
    BY <1>1 DEF Listed, Ended, Scanner, NoRepo
  <1>10. d.repo = NoRepo /\ d.remaining > 0 => WorkOf(Passed(d, n)) <= WorkOf(d) - MaxCutoffs
    BY <1>3, <1>4, WorkFalls, Zenon
  <1>11. ASSUME NEW L \in Seq(Nat), d.repo = NoRepo, d.remaining > 0, Len(L) <= MaxRuns
         PROVE  WorkOf(Began(d, n, L)) <= WorkOf(d) - MaxCutoffs
    BY <1>3, <1>5, <1>11, WorkFalls, Zenon
  <1>12. d.repo # NoRepo /\ d.pos < Len(d.runs) => WorkOf(RanOne(d)) <= WorkOf(d) - MaxCutoffs
    BY WorkFalls, Zenon DEF RanOne
  <1>13. d.repo # NoRepo /\ ~(d.pos < Len(d.runs)) => WorkOf(Ended(d)) <= WorkOf(d)
    BY WorkFalls, Zenon DEF Ended
  <1> QED BY <1>6, <1>7, <1>8, <1>9, <1>10, <1>11, <1>12, <1>13

\* A listing returns at most MaxRuns runs.
LEMMA ListingIsShort ==
    ASSUME world \in Worlds, NEW repo \in 1 .. MaxRepos, NEW s \in Scans
    PROVE  LET L == ListQueuedWorkflowRuns(s, repo) IN
           /\ L \in Seq(Nat) /\ Len(L) <= MaxRuns
           /\ \A k \in 1 .. Len(L) : L[k] \in 0 .. MaxRuns
  <1> DEFINE S == {i \in DOMAIN world.runs[repo] : world.runs[repo][i] \in Ages(s)}
             L == SetToSeq(S)
  <1>1. PICK n \in 0 .. MaxRuns : DOMAIN world.runs[repo] = 1 .. n
    BY ScanAssumption DEF ScanAssumption
  <1>2. n \in Nat /\ MaxRuns \in Nat /\ n <= MaxRuns
    BY WorkNumbers
  <1>3. IsFiniteSet(1 .. n) /\ Cardinality(1 .. n) = n /\ S \in SUBSET (1 .. n)
    BY <1>1, <1>2, FS_Interval
  <1>4. IsFiniteSet(S) /\ Cardinality(S) <= n /\ Cardinality(S) \in Nat
    BY <1>3, FS_Subset, FS_CardinalityType
  <1>5. L \in Seq(S) /\ Len(L) = Cardinality(S)
    BY <1>4, SetToSeqLists
  <1>6. ListQueuedWorkflowRuns(s, repo) = L
    BY DEF ListQueuedWorkflowRuns
  <1>7. S \subseteq 0 .. MaxRuns /\ S \subseteq Nat
    BY <1>2, <1>3
  <1> HIDE DEF S, L
  <1>8. L \in [1 .. Len(L) -> S] /\ Len(L) \in Nat
    BY <1>5
  <1>9. L \in [1 .. Len(L) -> Nat]
    BY <1>7, <1>8
  <1>10. L \in Seq(Nat)
    BY <1>8, <1>9
  <1> QED BY <1>2, <1>4, <1>5, <1>6, <1>7, <1>8, <1>10

\* What a step of the deep scan does to its scanner and its counters.
LEMMA DeepShapes ==
    ASSUME CoverInv, pc = "deep"
    PROVE  LET d == sc["deep"]
               e == sc'["deep"]
               u == <<"deep", UnitOf(d, repos)>>
               Resets == cutoffs' = [cutoffs EXCEPT ![u] = 0]
               AtRepo == d.repo = NoRepo /\ d.remaining > 0
               AtRun == d.repo # NoRepo /\ d.pos < Len(d.runs)
           IN  /\ SkipRepo("deep") => AtRepo /\ e = Passed(d, repos) /\ cutoffs' = cutoffs
               /\ ListRuns("deep")
                  => /\ AtRepo /\ Resets
                     /\ \/ e = Passed(d, repos)
                        \/ e = Began(d, repos, ListQueuedWorkflowRuns("deep", NextRepo("deep")))
               /\ ProcessRun("deep") => AtRun /\ Resets /\ e = RanOne(d)
               /\ RepoDone("deep") => /\ d.repo # NoRepo /\ ~(d.pos < Len(d.runs))
                                      /\ e = Ended(d) /\ cutoffs' = cutoffs
               /\ CutOff("deep")
                  => \/ AtRepo /\ Resets /\ e = Passed(d, repos)
                     \/ AtRun /\ Resets /\ e = RanOne(d)
                     \/ /\ AtRepo \/ AtRun
                        /\ e = d /\ ~(cutoffs[u] + 1 >= MaxCutoffs)
                        /\ cutoffs' = [cutoffs EXCEPT ![u] = cutoffs[u] + 1]
  <1> DEFINE d == sc["deep"]
             e == sc'["deep"]
             u == <<"deep", UnitOf(d, repos)>>
  <1>1. sc \in [Scans -> Scanner] /\ "deep" \in Scans /\ d \in Scanner
    BY DEF CoverInv, Scans
  <1>2. NextUnit("deep") = UnitOf(d, repos) /\ NextRepo("deep") = (d.cursor % repos) + 1
    BY DEF NextUnit, UnitOf, NextRepo
  <1>3. PassRepo("deep")["deep"] = Passed(d, repos)
    BY <1>1, <1>2 DEF PassRepo, Passed
  <1>4. Working("deep") /\ d.repo = NoRepo => d.remaining > 0
    BY DEF Working
  <1>5. SkipRepo("deep") => d.repo = NoRepo /\ d.remaining > 0 /\ e = Passed(d, repos) /\ cutoffs' = cutoffs
    BY <1>3, <1>4 DEF SkipRepo
  <1>6. ASSUME ListRuns("deep")
        PROVE  /\ d.repo = NoRepo /\ d.remaining > 0 /\ cutoffs' = [cutoffs EXCEPT ![u] = 0]
               /\ \/ e = Passed(d, repos)
                  \/ e = Began(d, repos, ListQueuedWorkflowRuns("deep", NextRepo("deep")))
    <2>1. d.repo = NoRepo /\ d.remaining > 0 /\ cutoffs' = [cutoffs EXCEPT ![u] = 0]
      BY <1>2, <1>4, <1>6 DEF ListRuns
    <2> DEFINE r == NextRepo("deep")
               L == ListQueuedWorkflowRuns("deep", r)
    <2>2. \/ sc' = [sc EXCEPT !["deep"].cursor = r, !["deep"].repo = r, !["deep"].pos = 0, !["deep"].runs = L]
          \/ sc' = PassRepo("deep")
      BY <1>6 DEF ListRuns
    <2> HIDE DEF L
    <2>3. CASE sc' = [sc EXCEPT !["deep"].cursor = r, !["deep"].repo = r, !["deep"].pos = 0, !["deep"].runs = L]
      <3>1. e = Began(d, repos, L)
        BY <1>1, <1>2, <2>3 DEF Began
      <3> QED BY <2>1, <3>1 DEF L
    <2> QED BY <1>3, <2>1, <2>2, <2>3
  <1>7. ASSUME ProcessRun("deep")
        PROVE  /\ d.repo # NoRepo /\ d.pos < Len(d.runs) /\ cutoffs' = [cutoffs EXCEPT ![u] = 0]
               /\ e = RanOne(d)
    BY <1>1, <1>2, <1>7 DEF ProcessRun, HasUnit, RanOne
  <1>8. ASSUME RepoDone("deep")
        PROVE  d.repo # NoRepo /\ ~(d.pos < Len(d.runs)) /\ e = Ended(d) /\ cutoffs' = cutoffs
    BY <1>1, <1>8 DEF RepoDone, HasUnit, Ended
  <1>9. ASSUME CutOff("deep")
        PROVE  \/ d.repo = NoRepo /\ d.remaining > 0 /\ cutoffs' = [cutoffs EXCEPT ![u] = 0] /\ e = Passed(d, repos)
               \/ d.repo # NoRepo /\ d.pos < Len(d.runs) /\ cutoffs' = [cutoffs EXCEPT ![u] = 0] /\ e = RanOne(d)
               \/ /\ (d.repo = NoRepo /\ d.remaining > 0) \/ (d.repo # NoRepo /\ d.pos < Len(d.runs))
                  /\ e = d /\ ~(cutoffs[u] + 1 >= MaxCutoffs)
                  /\ cutoffs' = [cutoffs EXCEPT ![u] = cutoffs[u] + 1]
    <2> DEFINE skip == cutoffs[u] + 1 >= MaxCutoffs
    <2>1. /\ Working("deep") /\ HasUnit("deep")
          /\ cutoffs' = [cutoffs EXCEPT ![u] = IF skip THEN 0 ELSE cutoffs[u] + 1]
          /\ sc' = IF ~skip THEN sc ELSE IF d.repo = NoRepo THEN PassRepo("deep")
                   ELSE [sc EXCEPT !["deep"].pos = @ + 1]
      BY <1>2, <1>9 DEF CutOff
    <2>2. d.repo # NoRepo => d.pos < Len(d.runs)
      BY <2>1 DEF HasUnit
    <2> HIDE DEF u
    <2>3. CASE ~skip
      BY <1>4, <2>1, <2>2, <2>3
    <2>4. CASE skip /\ d.repo = NoRepo
      BY <1>3, <1>4, <2>1, <2>4
    <2>5. CASE skip /\ d.repo # NoRepo
      <3>1. e = RanOne(d)
        BY <1>1, <2>1, <2>5 DEF RanOne
      <3> QED BY <2>1, <2>2, <2>5, <3>1
    <2> QED BY <2>3, <2>4, <2>5
  <1> QED BY <1>5, <1>6, <1>7, <1>8, <1>9, Zenon

\* A step of the deep scan keeps its lists and counters in order and, but for the
\* end of a repository, uses up a try.
LEMMA DeepUnit ==
    ASSUME CoverInv, CoverInv', PaceTypes, pc = "deep",
           \/ SkipRepo("deep") \/ ListRuns("deep") \/ ProcessRun("deep") \/ RepoDone("deep")
           \/ CutOff("deep")
    PROVE  LET d == sc["deep"]
               e == sc'["deep"]
               before == WorkOf(d) - TriesOf(d, cutoffs, repos)
               after == WorkOf(e) - TriesOf(e, cutoffs', repos)
           IN  /\ cutoffs' \in CutoffCounts /\ Listed(e)
               /\ after <= before
               /\ after <= before - 1 \/ RepoDone("deep")
  <1> DEFINE d == sc["deep"]
             e == sc'["deep"]
             u == <<"deep", UnitOf(d, repos)>>
  <1>1. /\ d \in Scanner /\ e \in Scanner /\ Listed(d) /\ cutoffs \in CutoffCounts
        /\ d.repo # NoRepo => d.remaining > 0
        /\ e.repo # NoRepo => e.remaining > 0
    BY DEF CoverInv, PaceTypes, Scans
  <1>2. repos \in 1 .. MaxRepos /\ NextRepo("deep") \in 1 .. MaxRepos
    <2>1. "deep" \in Scans
      BY DEF Scans
    <2> QED BY <2>1, ScanFacts
  <1>n. MaxCutoffs \in Nat \ {0}
    BY WorkNumbers
  <1>3. [cutoffs EXCEPT ![u] = 0] \in CutoffCounts
    <2>1. 0 \in 0 .. MaxCutoffs - 1
      BY <1>n
    <2> HIDE DEF u
    <2> QED BY <1>1, <2>1, CountsKept
  <1> DEFINE L == ListQueuedWorkflowRuns("deep", NextRepo("deep"))
  <1>4. L \in Seq(Nat) /\ Len(L) <= MaxRuns /\ \A k \in 1 .. Len(L) : L[k] \in 0 .. MaxRuns
    <2>1. world \in Worlds /\ "deep" \in Scans
      BY DEF CoverInv, Scans
    <2> QED BY <1>2, <2>1, ListingIsShort
  <1> HIDE DEF L
  <1>5. CASE /\ cutoffs' \in CutoffCounts
             /\ \/ d.repo = NoRepo /\ d.remaining > 0 /\ e \in {Passed(d, repos), Began(d, repos, L)}
                \/ d.repo # NoRepo /\ d.pos < Len(d.runs) /\ e = RanOne(d)
    <2>1. Listed(e) /\ WorkOf(e) <= WorkOf(d) - MaxCutoffs
      <3> HIDE DEF d, e
      <3> QED BY <1>1, <1>2, <1>4, <1>5, ShapesFall
    <2>2. WorkOf(d) \in Nat /\ WorkOf(e) \in Nat
      <3> HIDE DEF d, e
      <3> QED BY <1>1, <2>1, WorkType
    <2>3. /\ TriesOf(d, cutoffs, repos) \in 0 .. MaxCutoffs - 1
          /\ TriesOf(e, cutoffs', repos) \in 0 .. MaxCutoffs - 1
      <3> HIDE DEF d, e
      <3> QED BY <1>1, <1>2, <1>5, <2>1, TriesType
    <2> HIDE DEF d, e
    <2>4. WorkOf(e) - TriesOf(e, cutoffs', repos) <= WorkOf(d) - TriesOf(d, cutoffs, repos) - 1
      BY <1>n, <2>1, <2>2, <2>3
    <2>5. WorkOf(e) - TriesOf(e, cutoffs', repos) <= WorkOf(d) - TriesOf(d, cutoffs, repos)
      BY <1>n, <2>1, <2>2, <2>3
    <2> QED BY <1>5, <2>1, <2>4, <2>5 DEF d, e
  <1>6. CASE SkipRepo("deep")
    BY <1>1, <1>5, <1>6, DeepShapes
  <1>7. CASE ListRuns("deep")
    BY <1>3, <1>5, <1>7, DeepShapes DEF L
  <1>8. CASE ProcessRun("deep")
    BY <1>3, <1>5, <1>8, DeepShapes
  <1>9. CASE RepoDone("deep")
    <2>1. d.repo # NoRepo /\ ~(d.pos < Len(d.runs)) /\ e = Ended(d) /\ cutoffs' = cutoffs
      BY <1>9, DeepShapes
    <2>2. Listed(e) /\ WorkOf(e) <= WorkOf(d)
      <3> HIDE DEF d, e
      <3> QED BY <1>1, <1>2, <2>1, ShapesFall
    <2>3. WorkOf(d) \in Nat /\ WorkOf(e) \in Nat
      <3> HIDE DEF d, e
      <3> QED BY <1>1, <2>2, WorkType
    <2>4. TriesOf(d, cutoffs, repos) = 0 /\ TriesOf(e, cutoffs', repos) \in 0 .. MaxCutoffs - 1
      <3> HIDE DEF d, e
      <3>1. ~Pending(d)
        BY <2>1 DEF Pending
      <3> QED BY <1>1, <1>2, <2>1, <2>2, <3>1, TriesType DEF TriesOf
    <2> HIDE DEF d, e
    <2>5. WorkOf(e) - TriesOf(e, cutoffs', repos) <= WorkOf(d) - TriesOf(d, cutoffs, repos)
      BY <1>n, <2>2, <2>3, <2>4
    <2> QED BY <1>1, <1>9, <2>1, <2>2, <2>5 DEF d, e
  <1>10. CASE CutOff("deep")
    <2>1. CASE /\ (d.repo = NoRepo /\ d.remaining > 0) \/ (d.repo # NoRepo /\ d.pos < Len(d.runs))
               /\ e = d /\ ~(cutoffs[u] + 1 >= MaxCutoffs)
               /\ cutoffs' = [cutoffs EXCEPT ![u] = cutoffs[u] + 1]
      <3> HIDE DEF d, e
      <3>1. Pending(d)
        BY <2>1 DEF Pending
      <3>2. u \in Scans \X Units
        BY <1>1, <1>2, <3>1, TriesType
      <3>3. cutoffs[u] \in 0 .. MaxCutoffs - 1 /\ cutoffs[u] = TriesOf(d, cutoffs, repos)
        BY <1>1, <1>2, <3>1, TriesType DEF TriesOf
      <3>4. cutoffs[u] + 1 \in 0 .. MaxCutoffs - 1
        BY <1>n, <2>1, <3>3
      <3>5. cutoffs' \in CutoffCounts
        BY <1>1, <2>1, <3>4, CountsKept
      <3>6. cutoffs'[u] = cutoffs[u] + 1
        BY <1>1, <2>1, <3>2 DEF CutoffCounts
      <3>7. TriesOf(e, cutoffs', repos) = TriesOf(d, cutoffs, repos) + 1
        BY <2>1, <3>1, <3>3, <3>6 DEF TriesOf
      <3>8. WorkOf(d) \in Nat /\ WorkOf(e) = WorkOf(d)
        BY <1>1, <2>1, WorkType
      <3>9. /\ WorkOf(e) - TriesOf(e, cutoffs', repos) <= WorkOf(d) - TriesOf(d, cutoffs, repos) - 1
            /\ WorkOf(e) - TriesOf(e, cutoffs', repos) <= WorkOf(d) - TriesOf(d, cutoffs, repos)
        BY <1>n, <3>3, <3>7, <3>8
      <3> QED BY <1>1, <2>1, <3>5, <3>9 DEF d, e
    <2>2. CASE \/ d.repo = NoRepo /\ d.remaining > 0 /\ cutoffs' = [cutoffs EXCEPT ![u] = 0] /\ e = Passed(d, repos)
               \/ d.repo # NoRepo /\ d.pos < Len(d.runs) /\ cutoffs' = [cutoffs EXCEPT ![u] = 0] /\ e = RanOne(d)
      BY <1>3, <1>5, <2>2
    <2> QED BY <1>10, <2>1, <2>2, DeepShapes, Zenon
  <1> QED BY <1>6, <1>7, <1>8, <1>9, <1>10

\* The recent scan leaves the deep scanner and its counters alone.
LEMMA RecentUnit ==
    ASSUME CoverInv, PaceTypes, pc = "recent",
           \/ SkipRepo("recent") \/ ListRuns("recent") \/ ProcessRun("recent")
           \/ RepoDone("recent") \/ ScanStops("recent") \/ CutOff("recent")
    PROVE  /\ sc'["deep"] = sc["deep"] /\ cutoffs' \in CutoffCounts
           /\ \A u \in Units : cutoffs'[<<"deep", u>>] = cutoffs[<<"deep", u>>]
  <1>1. sc \in [Scans -> Scanner] /\ cutoffs \in CutoffCounts /\ MaxCutoffs \in Nat \ {0}
    BY WorkNumbers DEF CoverInv, PaceTypes
  <1>2. sc'["deep"] = sc["deep"]
    BY <1>1 DEF SkipRepo, ListRuns, ProcessRun, RepoDone, ScanStops, CutOff, PassRepo, Scans
  <1> DEFINE r == <<"recent", NextUnit("recent")>>
             n == cutoffs[r] + 1
             v == IF n >= MaxCutoffs THEN 0 ELSE n
  <1>3. cutoffs' = cutoffs \/ cutoffs' = [cutoffs EXCEPT ![r] = 0] \/ cutoffs' = [cutoffs EXCEPT ![r] = v]
    BY DEF SkipRepo, ListRuns, ProcessRun, RepoDone, ScanStops, CutOff
  <1>4. \A u : <<"deep", u>> # r
    OBVIOUS
  <1>5. r \in Scans \X Units => v \in 0 .. MaxCutoffs - 1
    BY <1>1 DEF CutoffCounts
  <1>6. 0 \in 0 .. MaxCutoffs - 1
    BY <1>1
  <1> HIDE DEF r, v
  <1>7. [cutoffs EXCEPT ![r] = 0] \in CutoffCounts /\ [cutoffs EXCEPT ![r] = v] \in CutoffCounts
    BY <1>1, <1>5, <1>6, CountsKept
  <1>8. ASSUME NEW u \in Units PROVE cutoffs'[<<"deep", u>>] = cutoffs[<<"deep", u>>]
    <2> DEFINE X == Scans \X Units
               k == <<"deep", u>>
    <2>1. k \in X /\ k # r /\ cutoffs \in [X -> 0 .. MaxCutoffs - 1]
      BY <1>1, <1>4 DEF CutoffCounts, Scans
    <2> HIDE DEF X, k
    <2>2. cutoffs'[k] = cutoffs[k]
      BY <1>3, <2>1
    <2> QED BY <2>2 DEF k
  <1> QED BY <1>1, <1>2, <1>3, <1>7, <1>8

\* The list of an open pass has repositories.
LEMMA OpenList ==
    ASSUME CoverInv, PaceTypes, deepOpen
    PROVE  repos \in 1 .. MaxRepos
  BY ScanAssumption DEF ScanAssumption, CoverInv, PaceTypes

\* What is left of the work is a number, also when a unit was cut off before.
LEMMA WorkIsLeft ==
    ASSUME CoverInv, PaceTypes, deepOpen
    PROVE  /\ WorkOf(sc["deep"]) \in Nat
           /\ TriesOf(sc["deep"], cutoffs, repos) \in 0 .. MaxCutoffs - 1
           /\ TriesOf(sc["deep"], cutoffs, repos) <= WorkOf(sc["deep"])
  <1> DEFINE d == sc["deep"]
  <1>1. d \in Scanner /\ Listed(d) /\ (d.repo # NoRepo => d.remaining > 0) /\ cutoffs \in CutoffCounts
    BY DEF CoverInv, PaceTypes, Scans
  <1>2. repos \in 1 .. MaxRepos
    BY OpenList
  <1> HIDE DEF d
  <1>3. WorkOf(d) \in Nat /\ (Pending(d) => WorkOf(d) >= MaxCutoffs)
    BY <1>1, WorkType
  <1>4. TriesOf(d, cutoffs, repos) \in 0 .. MaxCutoffs - 1
    BY <1>1, <1>2, TriesType
  <1>5. ~Pending(d) => TriesOf(d, cutoffs, repos) = 0
    BY DEF TriesOf
  <1>6. TriesOf(d, cutoffs, repos) <= WorkOf(d)
    BY <1>3, <1>4, <1>5, WorkNumbers
  <1> QED BY <1>3, <1>4, <1>6 DEF d

\* A step that leaves the deep scanner alone leaves its work as it is.
LEMMA WorkKept ==
    ASSUME CoverInv, PaceTypes, deepOpen, sc'["deep"] = sc["deep"], repos' = repos,
           \A u \in Units : cutoffs'[<<"deep", u>>] = cutoffs[<<"deep", u>>]
    PROVE  /\ WorkOf(sc["deep"])' = WorkOf(sc["deep"])
           /\ TriesOf(sc["deep"], cutoffs, repos)' = TriesOf(sc["deep"], cutoffs, repos)
  <1> DEFINE d == sc["deep"]
  <1>1. d \in Scanner /\ Listed(d) /\ cutoffs \in CutoffCounts
    BY DEF CoverInv, PaceTypes, Scans
  <1>2. Pending(d) => UnitOf(d, repos) \in Units
    <2>1. Pending(d) => <<"deep", UnitOf(d, repos)>> \in Scans \X Units
      <3> HIDE DEF d
      <3> QED BY <1>1, OpenList, TriesType
    <2> QED BY <2>1
  <1>3. WorkOf(sc["deep"])' = WorkOf(sc["deep"])
    BY DEF WorkOf
  <1>4. TriesOf(sc["deep"], cutoffs, repos)' = TriesOf(sc["deep"], cutoffs', repos)
    BY DEF TriesOf, UnitOf, Pending
  <1>5. TriesOf(sc["deep"], cutoffs', repos) = TriesOf(sc["deep"], cutoffs, repos)
    BY <1>2 DEF TriesOf
  <1> QED BY <1>3, <1>4, <1>5

\* Lists, counters and the bound on faults stay in order.
LEMMA PaceTypesStep ==
    ASSUME CoverInv, CoverInv', PaceTypes, [Next]_vars
    PROVE  PaceTypes'
  <1> USE DEF PaceTypes
  <1>0. (Listed(sc["deep"]))' <=> Listed(sc'["deep"])
    BY DEF Listed
  <1>f. Listed(FreshScanner)
    BY WorkNumbers DEF Listed, FreshScanner, NoRepo
  <1>1. CASE UNCHANGED vars
    BY <1>0, <1>1 DEF vars, envVars, passVars
  <1>2. CASE StoreChanges \/ RateLimitChanges \/ RepositoriesFail
    BY <1>0, <1>2 DEF StoreChanges, RateLimitChanges, RepositoriesFail, passVars
  <1>3. CASE Begin \/ Rescue
    BY <1>0, <1>3 DEF Begin, Rescue, envVars, passVars
  <1>4. CASE EndCycle
    BY <1>0, <1>4 DEF EndCycle, envVars
  <1>5. CASE Repositories
    <2>1. faults' \in [limits : Nat, resets : Nat, lists : Nat] /\ openFor' = openFor /\ cutoffs' = cutoffs
      BY <1>5 DEF Repositories, passVars
    <2>2. sc' = sc \/ sc' = [s \in Scans |-> FreshScanner]
      BY <1>5 DEF Repositories
    <2>3. deepOpen' => repos' > 0
      BY <1>5 DEF Repositories
    <2> QED BY <1>0, <1>f, <2>1, <2>2, <2>3 DEF Scans
  <1>6. CASE OpenPass
    <2>1. faults' = faults /\ openFor' \in Nat /\ cutoffs' = cutoffs /\ repos' = repos /\ repos > 0
      BY <1>6 DEF OpenPass, envVars, CoverInv
    <2> DEFINE stateReset == empty /\ saw
               restart == deepOpen /\ (stateReset \/ openFor >= DeepMaxOpen)
               opens == restart \/ (~deepOpen /\ (stateReset \/ sinceDeep >= DeepInterval))
               cursor == IF restart THEN 0 ELSE sc["deep"].cursor
               r2 == [sc["recent"] EXCEPT !.remaining = repos]
               d2 == [FreshScanner EXCEPT !.cursor = cursor, !.remaining = repos]
    <2>2. sc' = [recent |-> r2, deep |-> IF opens THEN d2 ELSE sc["deep"]]
      BY <1>6 DEF OpenPass
    <2>d. Listed(d2)
      <3> HIDE DEF cursor
      <3>1. d2.repo = NoRepo /\ d2.runs = <<>> /\ d2.pos = 0
        BY DEF FreshScanner
      <3> QED BY <3>1, <1>f DEF Listed, FreshScanner
    <2> HIDE DEF opens, r2, d2
    <2>3. Listed(sc'["deep"])
      BY <2>2, <2>d
    <2> QED BY <1>0, <2>1, <2>3
  <1>7. ASSUME NEW s \in Scans,
               SkipRepo(s) \/ ListRuns(s) \/ ProcessRun(s) \/ RepoDone(s) \/ ScanStops(s) \/ CutOff(s)
        PROVE  PaceTypes'
    <2>1. /\ faults' = faults /\ openFor' = openFor /\ repos' = repos /\ (deepOpen' => deepOpen)
          /\ pc = s
      BY <1>7 DEF SkipRepo, ListRuns, ProcessRun, RepoDone, ScanStops, CutOff, AfterScan, envVars,
                  passVars, Working
    <2>2. cutoffs' \in CutoffCounts /\ Listed(sc'["deep"])
      <3>1. CASE s = "recent"
        BY <1>7, <2>1, <3>1, RecentUnit
      <3>2. CASE s = "deep" /\ ~ScanStops(s)
        BY <1>7, <2>1, <3>2, DeepUnit
      <3>3. CASE ScanStops(s)
        BY <3>3 DEF ScanStops
      <3> QED BY <3>1, <3>2, <3>3 DEF Scans
    <2> QED BY <1>0, <2>1, <2>2
  <1> QED BY <1>1, <1>2, <1>3, <1>4, <1>5, <1>6, <1>7 DEF Next, CycleStep

\* The pace of a step that leaves the deep scanner alone.
LEMMA PaceStill ==
    ASSUME CoverInv, PaceTypes, deepOpen, sc'["deep"] = sc["deep"], repos' = repos,
           \A u \in Units : cutoffs'[<<"deep", u>>] = cutoffs[<<"deep", u>>],
           openFor' = openFor
    PROVE  (Pace(0) => Pace(0)') /\ (Pace(1) => Pace(1)')
  BY WorkKept DEF Pace

\* The pace of a pass that opens over the whole list.
LEMMA PaceFresh ==
    ASSUME CoverInv', PaceTypes', deepOpen', openFor' = 0,
           sc'["deep"].repo = NoRepo, sc'["deep"].remaining = repos'
    PROVE  Pace(0)'
  <1> DEFINE d == sc'["deep"]
             t == TriesOf(d, cutoffs', repos')
  <1>1. repos' \in 1 .. MaxRepos
    BY ScanAssumption DEF ScanAssumption, CoverInv, PaceTypes
  <1>2. d \in Scanner /\ Listed(d) /\ cutoffs' \in CutoffCounts
    BY DEF CoverInv, PaceTypes, Scans, Listed
  <1>3. t \in 0 .. MaxCutoffs - 1
    <2> HIDE DEF d
    <2> QED BY <1>1, <1>2, TriesType
  <1>4. WorkOf(d) = repos' * RepoWork
    BY DEF WorkOf
  <1>5. repos' * RepoWork <= PassWork /\ repos' * RepoWork \in Nat
    <2>1. repos' \in Nat /\ repos' <= MaxRepos
      BY <1>1, WorkNumbers
    <2> HIDE DEF d, t
    <2> QED BY <2>1, WorkNumbers
  <1>6. Pace(0)' <=> 0 + WorkOf(d) - t + 0 <= PassWork
    BY DEF Pace, WorkOf, TriesOf, UnitOf, Pending
  <1> HIDE DEF d, t
  <1> QED BY <1>3, <1>4, <1>5, <1>6, WorkNumbers

\* Each cycle of an open pass uses up a try: the deep scan of a cycle is stopped
\* by its share or its deadline only after a unit, or by the deadline of a unit.
LEMMA PaceStep ==
    ASSUME PassFits, ShareInv, CoverInv, CoverInv', PaceInv, [Next]_vars
    PROVE  PaceInv'
  <1> DEFINE Early == {"idle", "rescue", "repos", "open", "recent"}
             Paced == Steady /\ deepOpen =>
                        /\ pc \in Early => Pace(0)
                        /\ pc = "deep" => Pace(IF moved THEN 1 ELSE 0) /\ (~moved => spent = recentSpent)
                        /\ pc = "end" => Pace(1)
             Calm == Steady => ~limited
             Rescued == pc = "repos" => spent <= RescueLimit - 1 + world.pages
  <1>t. PaceTypes' /\ PaceTypes
    BY PaceTypesStep DEF PaceInv
  <1>i. Paced /\ Calm /\ Rescued
    BY DEF PaceInv
  <1> SUFFICES Paced' /\ Calm' /\ Rescued'
    BY <1>t DEF PaceInv
  <1>n. /\ RescueLimit \in Nat /\ Budget \in Nat /\ world.pages \in Nat /\ world \in Worlds
        /\ DeepReserve \in Nat \ {0} /\ spent \in Nat /\ recentSpent \in Nat
        /\ faults.limits \in Nat /\ openFor \in Nat
    BY <1>t, ScanAssumption DEF ScanAssumption, ShareInv, PaceTypes
  <1>w. world' = world /\ (Steady' <=> Steady)
    <2>1. UNCHANGED vars \/ StoreChanges \/ RateLimitChanges \/ RepositoriesFail \/ Repositories
          => world' = world
      BY DEF vars, envVars, StoreChanges, RateLimitChanges, RepositoriesFail, Repositories
    <2>2. Begin \/ Rescue \/ OpenPass \/ EndCycle => world' = world
      BY DEF envVars, Begin, Rescue, OpenPass, EndCycle
    <2>3. ASSUME NEW s \in Scans,
                 SkipRepo(s) \/ ListRuns(s) \/ ProcessRun(s) \/ RepoDone(s) \/ ScanStops(s) \/ CutOff(s)
          PROVE  world' = world
      BY <2>3 DEF envVars, SkipRepo, ListRuns, ProcessRun, RepoDone, ScanStops, CutOff, AfterScan
    <2>4. world' = world
      BY <2>1, <2>2, <2>3 DEF Next, CycleStep
    <2> QED BY <2>4 DEF Steady
  <1>1. CASE UNCHANGED vars
    <2>1. UNCHANGED <<limited, pc, spent, recentSpent, moved, sc, repos, cutoffs, deepOpen, openFor>>
      BY <1>1 DEF vars, envVars, passVars
    <2>2. deepOpen => (Pace(0) => Pace(0)') /\ (Pace(1) => Pace(1)')
      BY <1>t, <2>1, PaceStill
    <2> QED BY <1>i, <1>w, <2>1, <2>2
  <1>2. CASE StoreChanges
    <2>1. UNCHANGED <<limited, pc, sc, repos, cutoffs, deepOpen, openFor>> /\ pc = "idle"
      BY <1>2 DEF StoreChanges, passVars
    <2>2. deepOpen => (Pace(0) => Pace(0)')
      BY <1>t, <2>1, PaceStill
    <2> QED BY <1>i, <1>w, <2>1, <2>2
  <1>3. CASE RateLimitChanges
    <2>1. UNCHANGED <<pc, spent, recentSpent, moved, sc, repos, cutoffs, deepOpen, openFor>>
      BY <1>3 DEF RateLimitChanges, passVars
    <2>2. deepOpen => (Pace(0) => Pace(0)') /\ (Pace(1) => Pace(1)')
      BY <1>t, <2>1, PaceStill
    <2>3. ~Steady
      BY <1>3, <1>i, <1>n DEF RateLimitChanges, Steady
    <2> QED BY <1>i, <1>w, <2>1, <2>3
  <1>4. CASE Begin \/ Rescue
    <2>1. /\ UNCHANGED <<limited, sc, repos, cutoffs, deepOpen, openFor>>
          /\ pc \in {"idle", "rescue"} /\ pc' \in {"rescue", "repos"}
          /\ pc' = "repos" => spent' <= RescueLimit - 1 + world.pages
      <3>1. CASE Begin
        BY <3>1 DEF Begin, envVars, passVars
      <3>2. CASE Rescue
        <4>1. spent' \in 0 .. (IF limited THEN 0 ELSE RescueLimit - 1 + world.pages)
          BY <3>2 DEF Rescue
        <4>2. RescueLimit - 1 \in Nat
          BY ScanAssumption DEF ScanAssumption
        <4>3. spent' <= RescueLimit - 1 + world.pages
          BY <4>1, <4>2, <1>n
        <4> QED BY <3>2, <4>3 DEF Rescue, envVars, passVars
      <3> QED BY <1>4, <3>1, <3>2
    <2>2. deepOpen => (Pace(0) => Pace(0)')
      BY <1>t, <2>1, PaceStill
    <2> QED BY <1>i, <1>w, <2>1, <2>2
  <1>5. CASE Repositories
    <2>1. pc = "repos" /\ pc' \in {"open", "end"} /\ UNCHANGED <<cutoffs, openFor, limited>>
      BY <1>5 DEF Repositories, passVars
    <2>2. deepOpen' => sc' = sc /\ deepOpen /\ pc' = "open"
      BY <1>5 DEF Repositories, passVars
    <2>3. Steady /\ deepOpen => repos' = repos
      <3>1. repos' \in world.sizes \/ repos' = repos
        BY <1>5 DEF Repositories
      <3>2. deepOpen => repos \in world.sizes
        BY DEF CoverInv
      <3> QED BY <1>n, <3>1, <3>2, SteadyList
    <2>4. Steady /\ deepOpen' => (Pace(0) => Pace(0)')
      BY <1>t, <2>1, <2>2, <2>3, PaceStill
    <2> QED BY <1>i, <1>w, <2>1, <2>2, <2>4
  <1>6. CASE RepositoriesFail
    <2>1. ~Steady
      <3>1. Steady => ~(faults.limits < world.limits)
        BY <1>n DEF Steady
      <3>2. Steady => ~limited /\ ~(spent >= Budget)
        <4>1. pc = "repos"
          BY <1>6 DEF RepositoriesFail
        <4>2. Steady => RescueLimit - 1 + world.pages < Budget
          BY <1>n DEF PassFits, Steady
        <4> QED BY <1>i, <1>n, <4>1, <4>2
      <3> QED BY <1>6, <3>1, <3>2 DEF RepositoriesFail
    <2>2. pc' = "end"
      BY <1>6 DEF RepositoriesFail
    <2> QED BY <1>w, <2>1, <2>2
  <1>7. CASE OpenPass
    <2> DEFINE stateReset == empty /\ saw
               restart == deepOpen /\ (stateReset \/ openFor >= DeepMaxOpen)
               opens == restart \/ (~deepOpen /\ (stateReset \/ sinceDeep >= DeepInterval))
               cursor == IF restart THEN 0 ELSE sc["deep"].cursor
               r2 == [sc["recent"] EXCEPT !.remaining = repos]
               d2 == [FreshScanner EXCEPT !.cursor = cursor, !.remaining = repos]
    <2>1. /\ sc' = [recent |-> r2, deep |-> IF opens THEN d2 ELSE sc["deep"]]
          /\ deepOpen' = (deepOpen \/ opens) /\ openFor' = IF opens THEN 0 ELSE openFor
          /\ pc = "open" /\ pc' = "recent" /\ UNCHANGED <<limited, repos, cutoffs>>
      BY <1>7 DEF OpenPass, envVars
    <2>2. d2.repo = NoRepo /\ d2.remaining = repos
      <3> HIDE DEF cursor
      <3> QED BY DEF FreshScanner
    <2> HIDE DEF opens, r2, d2
    <2>3. opens => Pace(0)'
      BY <1>t, <2>1, <2>2, PaceFresh
    <2>4. ~opens /\ deepOpen => (Pace(0) => Pace(0)')
      BY <1>t, <2>1, PaceStill
    <2> QED BY <1>i, <1>w, <2>1, <2>3, <2>4
  <1>8. CASE EndCycle
    <2>1. /\ UNCHANGED <<limited, sc, repos, cutoffs, deepOpen>> /\ pc = "end" /\ pc' = "idle"
          /\ openFor' \in {openFor, openFor + 1}
      BY <1>8 DEF EndCycle, envVars
    <2>2. ASSUME deepOpen, Pace(1) PROVE Pace(0)'
      <3>1. /\ WorkOf(sc["deep"])' = WorkOf(sc["deep"])
            /\ TriesOf(sc["deep"], cutoffs, repos)' = TriesOf(sc["deep"], cutoffs, repos)
        BY <1>t, <2>1, <2>2, WorkKept
      <3>2. WorkOf(sc["deep"]) \in Nat /\ TriesOf(sc["deep"], cutoffs, repos) \in Nat
        BY <1>t, <2>2, WorkIsLeft, WorkNumbers
      <3> QED BY <1>n, <2>1, <2>2, <3>1, <3>2, WorkNumbers DEF Pace
    <2> QED BY <1>i, <1>w, <2>1, <2>2
  <1>9. CASE \/ SkipRepo("recent") \/ ListRuns("recent") \/ ProcessRun("recent") \/ RepoDone("recent")
             \/ ScanStops("recent") \/ CutOff("recent")
    <2>1. /\ UNCHANGED <<limited, repos, deepOpen, openFor>> /\ pc = "recent"
          /\ \/ pc' = "recent"
             \/ /\ pc' = IF deepOpen /\ stop'[2] # "rate" THEN "deep" ELSE "end"
                /\ recentSpent' = spent' /\ moved' = FALSE
                /\ stop'[2] = "rate" => limited
      BY <1>9 DEF SkipRepo, ListRuns, ProcessRun, RepoDone, ScanStops, CutOff, AfterScan, envVars,
                  passVars, Working
    <2>2. deepOpen => (Pace(0) => Pace(0)')
      BY <1>9, <1>t, <2>1, RecentUnit, PaceStill
    <2> QED BY <1>i, <1>w, <2>1, <2>2
  <1>10. CASE \/ SkipRepo("deep") \/ ListRuns("deep") \/ ProcessRun("deep") \/ RepoDone("deep")
              \/ CutOff("deep")
    <2> DEFINE d == sc["deep"]
               e == sc'["deep"]
    <2>1. /\ UNCHANGED <<limited, repos, deepOpen, openFor>> /\ pc = "deep"
          /\ \/ pc' = "deep" /\ UNCHANGED <<moved, spent, recentSpent>>
             \/ pc' = "deep" /\ moved' = TRUE /\ ~RepoDone("deep")
             \/ pc' = "end" /\ ~RepoDone("deep")
      BY <1>10 DEF SkipRepo, ListRuns, ProcessRun, RepoDone, CutOff, AfterScan, envVars,
                   passVars, Working, TakeOK, HasUnit
    <2>2. /\ WorkOf(e) - TriesOf(e, cutoffs', repos) <= WorkOf(d) - TriesOf(d, cutoffs, repos)
          /\ \/ WorkOf(e) - TriesOf(e, cutoffs', repos) <= WorkOf(d) - TriesOf(d, cutoffs, repos) - 1
             \/ RepoDone("deep")
      BY <1>10, <1>t, <2>1, DeepUnit
    <2>3. ASSUME deepOpen
          PROVE  /\ WorkOf(d) \in Nat /\ TriesOf(d, cutoffs, repos) \in Nat
                 /\ WorkOf(e) \in Nat /\ TriesOf(e, cutoffs', repos) \in Nat
      <3>1. d \in Scanner /\ Listed(d) /\ (d.repo # NoRepo => d.remaining > 0) /\ cutoffs \in CutoffCounts
        BY <1>t DEF CoverInv, PaceTypes, Scans
      <3>2. e \in Scanner /\ Listed(e) /\ (e.repo # NoRepo => e.remaining > 0) /\ cutoffs' \in CutoffCounts
        BY <1>t DEF CoverInv, PaceTypes, Scans, Listed
      <3>3. repos \in 1 .. MaxRepos
        BY <1>t, <2>3, OpenList
      <3> HIDE DEF d, e
      <3>4. WorkOf(d) \in Nat /\ WorkOf(e) \in Nat
        BY <3>1, <3>2, WorkType
      <3>5. TriesOf(d, cutoffs, repos) \in 0 .. MaxCutoffs - 1
        BY <3>1, <3>3, TriesType
      <3>6. TriesOf(e, cutoffs', repos) \in 0 .. MaxCutoffs - 1
        BY <3>2, <3>3, TriesType
      <3> QED BY <3>4, <3>5, <3>6, WorkNumbers
    <2>4. \A a \in {0, 1} : Pace(a)' <=> openFor + WorkOf(e) - TriesOf(e, cutoffs', repos) + a <= PassWork
      BY <2>1 DEF Pace, WorkOf, TriesOf, UnitOf, Pending
    <2>5. \A a \in {0, 1} : Pace(a) <=> openFor + WorkOf(d) - TriesOf(d, cutoffs, repos) + a <= PassWork
      BY DEF Pace
    <2> HIDE DEF d, e
    <2>6. deepOpen => (Pace(0) => Pace(0)') /\ (Pace(1) => Pace(1)' /\ Pace(0))
      BY <1>n, <2>2, <2>3, <2>4, <2>5, WorkNumbers
    <2>7. deepOpen /\ ~RepoDone("deep") => (Pace(0) => Pace(1)')
      BY <1>n, <2>2, <2>3, <2>4, <2>5, WorkNumbers
    <2> QED BY <1>i, <1>w, <2>1, <2>6, <2>7
  <1>11. CASE ScanStops("deep")
    <2>1. UNCHANGED <<limited, repos, openFor, sc, cutoffs>> /\ pc = "deep" /\ pc' = "end"
      BY <1>11 DEF ScanStops, AfterScan, envVars
    <2>2. deepOpen' => deepOpen /\ (limited \/ spent >= Limit("deep") \/ moved)
      <3>1. sc["deep"].remaining \in Nat
        BY DEF CoverInv, Scanner, Scans
      <3>2. CASE ~Working("deep") /\ AfterScan("deep", "none")
        <4>1. sc["deep"].remaining = 0
          BY <2>1, <3>1, <3>2 DEF Working
        <4> QED BY <3>2, <4>1 DEF AfterScan
      <3>3. ASSUME NEW err \in {"rate", "budget", "deadline"}, AfterScan("deep", err)
            PROVE  deepOpen' = deepOpen
        BY <3>3 DEF AfterScan
      <3> QED BY <1>11, <3>2, <3>3 DEF ScanStops
    <2>3. spent >= Limit("deep") => spent # recentSpent
      BY <1>n, DeepLimit DEF Limit
    <2>4. deepOpen => (Pace(1) => Pace(1)')
      BY <1>t, <2>1, PaceStill
    <2> QED BY <1>i, <1>w, <2>1, <2>2, <2>3, <2>4
  <1> QED BY <1>1, <1>2, <1>3, <1>4, <1>5, <1>6, <1>7, <1>8, <1>9, <1>10, <1>11
         DEF Next, CycleStep, Scans

\* A pass that keeps its pace is not restarted for its age.
LEMMA YoungPass ==
    ASSUME PassFits, CoverInv, PaceInv, Steady, deepOpen, pc = "open"
    PROVE  openFor < DeepMaxOpen
  <1>1. Pace(0) /\ PaceTypes
    BY DEF PaceInv
  <1>2. /\ WorkOf(sc["deep"]) \in Nat
        /\ TriesOf(sc["deep"], cutoffs, repos) \in 0 .. MaxCutoffs - 1
        /\ TriesOf(sc["deep"], cutoffs, repos) <= WorkOf(sc["deep"])
    BY <1>1, WorkIsLeft
  <1>3. openFor \in Nat /\ DeepMaxOpen \in Nat /\ DeepMaxOpen > PassWork
    BY <1>1, ScanAssumption DEF PaceTypes, ScanAssumption, PassFits
  <1> QED BY <1>1, <1>2, <1>3, WorkNumbers DEF Pace

\* Over a steady list, and when the age limit of a pass leaves time for one try a
\* cycle at whatever it may have to try, a pass opened over an empty store looks
\* at runs of every age until it closes or the store is reset again
\* (ReconcileQueuedGitHubJobs, state.deepAllAges).
THEOREM AllAgesAreKept ==
    ASSUME PassFits
    PROVE  Spec => AllAgesPassIsKept
  <1>1. Init => ShareInv /\ CoverInv /\ PaceInv
    <2> SUFFICES ASSUME Init PROVE ShareInv /\ CoverInv /\ PaceInv
      OBVIOUS
    <2>1. FreshScanner \in Scanner
      <3> DEFINE Q == Seq(Nat)
      <3>1. <<>> \in Q /\ Scanner = [cursor : Nat, repo : Nat, runs : Q, pos : Nat, remaining : Nat]
        BY DEF Scanner
      <3> HIDE DEF Q
      <3> QED BY <3>1 DEF FreshScanner, NoRepo
    <2>2. FreshScanner.cursor = 0 /\ FreshScanner.repo = NoRepo
      BY DEF FreshScanner
    <2>3. Listed(FreshScanner)
      BY WorkNumbers DEF Listed, FreshScanner, NoRepo
    <2>4. [k \in Scans \X Units |-> 0] \in CutoffCounts
      BY WorkNumbers DEF CutoffCounts
    <2>5. ShareInv
      BY DEF Init, ShareInv
    <2>6. CoverInv
      <3> HIDE DEF Scanner
      <3> QED BY <2>1, <2>2 DEF Init, CoverInv, Scans
    <2>7. sc["deep"] = FreshScanner /\ cutoffs \in CutoffCounts
      BY <2>4 DEF Init, Scans
    <2>8. PaceTypes
      BY <2>3, <2>7 DEF Init, PaceTypes
    <2> QED BY <2>5, <2>6, <2>8 DEF Init, PaceInv
  <1>2. (ShareInv /\ CoverInv /\ PaceInv) /\ [Next]_vars
        => (ShareInv /\ CoverInv /\ PaceInv)'
    BY ShareStep, CoverStep, PaceStep
  <1>3. (ShareInv /\ CoverInv /\ PaceInv) /\ [Next]_vars
        => [(deepOpen /\ allAges /\ deepOpen' /\ Steady) => allAges']_vars
    <2> SUFFICES ASSUME CoverInv, PaceInv, Next, deepOpen, allAges, Steady, ~allAges'
                 PROVE  FALSE
      OBVIOUS
    <2>1. OpenPass
      <3>1. StoreChanges \/ RateLimitChanges \/ RepositoriesFail \/ Repositories => allAges' = allAges
        BY DEF passVars, StoreChanges, RateLimitChanges, RepositoriesFail, Repositories
      <3>2. Begin \/ Rescue \/ EndCycle => allAges' = allAges
        BY DEF passVars, Begin, Rescue, EndCycle
      <3>3. ASSUME NEW s \in Scans,
                   SkipRepo(s) \/ ListRuns(s) \/ ProcessRun(s) \/ RepoDone(s) \/ ScanStops(s) \/ CutOff(s)
            PROVE  allAges' = allAges
        BY <3>3 DEF passVars, SkipRepo, ListRuns, ProcessRun, RepoDone, ScanStops, CutOff, AfterScan
      <3> QED BY <3>1, <3>2, <3>3 DEF Next, CycleStep
    <2>2. openFor < DeepMaxOpen /\ openFor \in Nat /\ DeepMaxOpen \in Nat
      BY <2>1, YoungPass, ScanAssumption DEF OpenPass, PaceInv, PaceTypes, ScanAssumption
    <2> DEFINE stateReset == empty /\ saw
               restart == deepOpen /\ (stateReset \/ openFor >= DeepMaxOpen)
               opens == restart \/ (~deepOpen /\ (stateReset \/ sinceDeep >= DeepInterval))
    <2>3. allAges' = IF opens THEN empty ELSE allAges
      BY <2>1 DEF OpenPass
    <2>4. ~(openFor >= DeepMaxOpen)
      BY <2>2
    <2> QED BY <2>3, <2>4
  <1> QED BY <1>1, <1>2, <1>3, PTL DEF Spec, AllAgesPassIsKept

=============================================================================
