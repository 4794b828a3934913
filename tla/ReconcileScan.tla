---------------------------- MODULE ReconcileScan ----------------------------
(***************************************************************************)
(* The poll that finds queued GitHub jobs whose webhook never arrived: one  *)
(* ReconcileQueuedGitHubJobs cycle after the other, under a call budget.    *)
(* (src/internal/api/github_webhook.go and the listings of                  *)
(* src/internal/github/api.go.)                                             *)
(*                                                                         *)
(* Two scanners walk the repository list round-robin.  The recent scan sees *)
(* every cycle the runs of the last hour; the deep scan sees the last week, *)
(* or every age after the store was emptied, in passes that span cycles.    *)
(* A scan stops at its share of the calls, at its deadline or at the rate   *)
(* limit, and goes on at the same repository and run in the next cycle.     *)
(*                                                                         *)
(* Time is counted in cycles.  A deadline may end any call, again and       *)
(* again; a unit of work costs one request or more (pages).                 *)
(***************************************************************************)
EXTENDS Naturals, Sequences, FiniteSets, SequencesExt

CONSTANTS
    Budget,        \* reconcileCallBudget
    DeepReserve,   \* reconcileDeepReserve
    RescueLimit,   \* reconcileCallBudget/4
    MaxCutoffs,    \* reconcileRunMaxCutoffs
    DeepInterval,  \* reconcileDeepInterval, in cycles
    DeepMaxOpen,   \* reconcileDeepMaxOpen, in cycles
    MaxRepos,      \* repositories, and queued runs of one, in any world
    MaxRuns,
    None,
    Worlds         \* [sizes, runs, accepts, pages, limits, resets]: the
                   \* lengths the
                   \* repository list may have, per repository its runs by age,
                   \* the accepted repositories, and the faults to come

ASSUME ScanAssumption ==
    /\ {Budget, RescueLimit, MaxCutoffs, DeepInterval, DeepMaxOpen} \subseteq Nat \ {0}
    /\ DeepReserve \in 1 .. Budget - 1
    /\ {MaxRepos, MaxRuns} \subseteq Nat /\ None \notin Nat
    /\ \A w \in Worlds : /\ w.sizes \subseteq 0 .. MaxRepos
                         /\ DOMAIN w.runs = 1 .. MaxRepos
                         /\ \A i \in DOMAIN w.runs :
                              \E n \in 0 .. MaxRuns : DOMAIN w.runs[i] = 1 .. n
                         /\ w.pages \in Nat

VARIABLES
    world, faults,
    pc,            \* where the cycle is
    spent,         \* cycleBudget.spent()
    recentSpent,   \* its value when the recent scan stopped
    moved,         \* the current scan has finished a unit
    stop,          \* which scan stopped last, and why
    repos,         \* length of the cached repository list, None before the first
    sc,            \* the scanners
    cutoffs,       \* consecutive deadline cutoffs per scan and unit
    deepOpen, allAges, openFor, sinceDeep,
    saw,           \* sawAllocations
    empty,         \* the allocation store holds no record
    limited,       \* the rate limit is below its floor
    seen           \* history: units the open deep pass is done with

envVars == <<world, faults, empty, limited>>
passVars == <<deepOpen, allAges, openFor, sinceDeep, saw>>
vars == <<envVars, pc, spent, recentSpent, moved, stop, repos, sc, cutoffs, passVars, seen>>

Scans == {"recent", "deep"}
NoRepo == 0
FreshScanner == [cursor |-> 0, repo |-> NoRepo, runs |-> <<>>, pos |-> 0, remaining |-> 0]

\* A unit is a repository's run listing <<repo, 0>> or a run's check <<repo, i>>.
Units == (1 .. MaxRepos) \X (0 .. MaxRuns)

TypeOK ==
    /\ world \in Worlds
    /\ pc \in {"idle", "rescue", "repos", "open"} \cup Scans \cup {"end"}
    /\ spent \in Nat /\ recentSpent \in Nat
    /\ repos \in 0 .. MaxRepos \cup {None}
    /\ \A s \in Scans : /\ sc[s].cursor \in 0 .. MaxRepos
                        /\ sc[s].remaining \in 0 .. MaxRepos
                        /\ sc[s].pos \in 0 .. Len(sc[s].runs)
                        /\ sc[s].repo = NoRepo => sc[s].runs = <<>>
    /\ cutoffs \in [Scans \X Units -> 0 .. MaxCutoffs - 1]
    /\ stop \in (Scans \cup {"none"}) \X {"none", "rate", "budget", "deadline"}
    /\ {deepOpen, allAges, saw, empty, limited, moved} \subseteq BOOLEAN
    /\ openFor \in 0 .. DeepMaxOpen /\ sinceDeep \in 0 .. DeepInterval
    /\ seen \subseteq Units

Init ==
    /\ world \in Worlds
    /\ faults = [limits |-> 0, resets |-> 0, lists |-> 0]
    /\ pc = "idle" /\ spent = 0 /\ recentSpent = 0 /\ moved = FALSE
    /\ stop = <<"none", "none">>
    /\ repos = None
    /\ sc = [s \in Scans |-> FreshScanner]
    /\ cutoffs = [k \in Scans \X Units |-> 0]
    /\ deepOpen = FALSE /\ allAges = FALSE /\ openFor = 0 /\ sinceDeep = DeepInterval
    /\ saw = FALSE /\ empty = TRUE /\ limited = FALSE
    /\ seen = {}

-----------------------------------------------------------------------------
(* The world around the scan.                                               *)

\* Allocations come from webhooks at any time; a state reset removes them all.
StoreChanges ==
    /\ pc = "idle"
    /\ \/ empty /\ faults' = faults
       \/ ~empty /\ faults.resets < world.resets
          /\ faults' = [faults EXCEPT !.resets = @ + 1]
    /\ empty' = ~empty
    /\ UNCHANGED <<world, limited, pc, spent, recentSpent, moved, stop, repos, sc, cutoffs, passVars, seen>>

\* recordRateLimit: a response shows the limit nearly spent; its reset passes.
RateLimitChanges ==
    /\ \/ limited /\ faults' = faults
       \/ ~limited /\ faults.limits < world.limits
          /\ faults' = [faults EXCEPT !.limits = @ + 1]
    /\ limited' = ~limited
    /\ UNCHANGED <<world, empty, pc, spent, recentSpent, moved, stop, repos, sc, cutoffs, passVars, seen>>

-----------------------------------------------------------------------------
(* The cycle up to its scans.                                               *)

\* A cycle starts unless the rate limit is low; TryLock keeps a second out.
Begin ==
    /\ pc = "idle" /\ ~limited
    /\ pc' = "rescue"
    /\ UNCHANGED <<envVars, spent, recentSpent, moved, stop, repos, sc, cutoffs, passVars, seen>>

\* rescueTerminalQueuedJobs looks first at jobs whose allocation ended, while
\* its own share of the calls lasts; none of its stops ends the cycle.
Rescue ==
    /\ pc = "rescue"
    /\ spent' \in 0 .. (IF limited THEN 0 ELSE RescueLimit - 1 + world.pages)
    /\ pc' = "repos"
    /\ UNCHANGED <<envVars, recentSpent, moved, stop, repos, sc, cutoffs, passVars, seen>>

\* reconcileRepositories: the cached list, or a new one; a listing that fails or
\* that take refuses ends the cycle.  An empty list resets the scanners and
\* closes the deep pass.
Repositories ==
    /\ pc = "repos"
    /\ \/ repos # None /\ UNCHANGED <<faults, spent, repos>>
       \/ /\ ~limited /\ spent < Budget
          /\ \E n \in world.sizes, c \in 1 .. world.pages :
               /\ repos' = n /\ spent' = spent + c
               /\ n # repos => faults.lists < Cardinality(world.sizes)
               /\ faults' = IF n # repos THEN [faults EXCEPT !.lists = @ + 1] ELSE faults
    /\ IF repos' > 0 THEN pc' = "open" /\ UNCHANGED <<sc, passVars>>
       ELSE /\ pc' = "end"
            /\ sc' = [s \in Scans |-> FreshScanner]
            /\ deepOpen' = FALSE /\ sinceDeep' = 0
            /\ UNCHANGED <<allAges, openFor, saw>>
    /\ UNCHANGED <<world, empty, limited, recentSpent, moved, stop, cutoffs, seen>>

RepositoriesFail ==
    /\ pc = "repos"
    /\ \/ (limited \/ spent >= Budget) /\ faults' = faults
       \/ faults.limits < world.limits /\ faults' = [faults EXCEPT !.limits = @ + 1]
    /\ pc' = "end"
    /\ UNCHANGED <<world, empty, limited, spent, recentSpent, moved, stop, repos, sc, cutoffs, passVars, seen>>

\* Defect: the ages of an open pass follow the store from cycle to cycle.
OpenPassTracksStore ==
    /\ pc = "open"
    /\ deepOpen' = (deepOpen \/ sinceDeep >= DeepInterval)
    /\ allAges' = empty
    /\ saw' = ~empty
    /\ openFor' = IF deepOpen THEN openFor ELSE 0
    /\ seen' = IF deepOpen THEN seen ELSE {}
    /\ sc' = [sc EXCEPT !["deep"].remaining = IF deepOpen THEN @ ELSE IF deepOpen' THEN repos ELSE 0,
                        !["recent"].remaining = repos]
    /\ pc' = "recent" /\ moved' = FALSE
    /\ UNCHANGED <<envVars, spent, recentSpent, stop, repos, cutoffs, sinceDeep>>

\* A pass opens when its interval has passed, at once after a state reset, and
\* again from the first repository when it has been open too long.  A pass that
\* opens while the store is empty looks at runs of every age.
OpenPass ==
    /\ pc = "open"
    /\ LET stateReset == empty /\ saw
           restart == deepOpen /\ (stateReset \/ openFor >= DeepMaxOpen)
           opens == restart \/ (~deepOpen /\ (stateReset \/ sinceDeep >= DeepInterval))
           cursor == IF restart THEN 0 ELSE sc["deep"].cursor
       IN  /\ saw' = ~empty
           /\ deepOpen' = (deepOpen \/ opens)
           /\ allAges' = IF opens THEN empty ELSE allAges
           /\ openFor' = IF opens THEN 0 ELSE openFor
           /\ seen' = IF opens THEN {} ELSE seen
           /\ sc' = [recent |-> [sc["recent"] EXCEPT !.remaining = repos],
                     deep |-> IF opens
                              THEN [FreshScanner EXCEPT !.cursor = cursor, !.remaining = repos]
                              ELSE sc["deep"]]
    /\ pc' = "recent" /\ moved' = FALSE
    /\ UNCHANGED <<envVars, spent, recentSpent, stop, repos, cutoffs, sinceDeep>>

-----------------------------------------------------------------------------
(* The scans.                                                               *)

Ages(s) == IF s = "recent" THEN {"hour"}
           ELSE {"hour", "week"} \cup (IF allAges THEN {"older"} ELSE {})

\* ListQueuedWorkflowRuns: the runs the window reaches, each once, in whatever
\* order GitHub lists them.
ListQueuedWorkflowRuns(s, repo) ==
    SetToSeq({i \in DOMAIN world.runs[repo] : world.runs[repo][i] \in Ages(s)})

\* Defect: the deep scan gets what the recent scan left, if anything.
DeepScanGetsTheRest == Budget

deepScanLimit ==
    IF recentSpent + DeepReserve > Budget THEN recentSpent + DeepReserve ELSE Budget

Limit(s) == IF s = "deep" THEN deepScanLimit
            ELSE IF deepOpen THEN Budget - DeepReserve ELSE Budget

NextRepo(s) == (sc[s].cursor % repos) + 1
Working(s) == pc = s /\ (sc[s].remaining > 0 \/ sc[s].repo # NoRepo)
TakeOK(s) == ~limited /\ spent < Limit(s)

\* The unit the scan would work on next, and its cutoff counter.
NextUnit(s) == IF sc[s].repo = NoRepo THEN <<NextRepo(s), 0>>
               ELSE <<sc[s].repo, sc[s].runs[sc[s].pos + 1]>>
HasUnit(s) == IF sc[s].repo = NoRepo THEN NextRepo(s) \in world.accepts
              ELSE sc[s].pos < Len(sc[s].runs)
UnitsOf(repo) == {repo} \X (0 .. MaxRuns)

Covered(s, units) == seen' = IF s = "deep" THEN seen \cup units ELSE seen
Spend == \E c \in 1 .. world.pages : spent' = spent + c

\* The repository at the cursor is given up for this pass.
PassRepo(s) == [sc EXCEPT ![s].cursor = NextRepo(s), ![s].remaining = @ - 1]

SkipRepo(s) ==
    /\ Working(s) /\ sc[s].repo = NoRepo /\ NextRepo(s) \notin world.accepts
    /\ sc' = PassRepo(s)
    /\ UNCHANGED <<envVars, pc, spent, recentSpent, moved, stop, repos, cutoffs, passVars, seen>>

ListRuns(s) ==
    /\ Working(s) /\ sc[s].repo = NoRepo /\ HasUnit(s) /\ TakeOK(s)
    /\ LET repo == NextRepo(s) IN
         \/ /\ sc' = [sc EXCEPT ![s].cursor = repo, ![s].repo = repo, ![s].pos = 0,
                                ![s].runs = ListQueuedWorkflowRuns(s, repo)]
            /\ Covered(s, {<<repo, 0>>})
         \/ /\ sc' = PassRepo(s)                 \* the listing failed
            /\ Covered(s, UnitsOf(repo))
    /\ Spend /\ moved' = TRUE
    /\ cutoffs' = [cutoffs EXCEPT ![<<s, NextUnit(s)>>] = 0]
    /\ UNCHANGED <<envVars, pc, recentSpent, stop, repos, passVars>>

\* processRun: the run's queued jobs are allocated; what fails there is logged.
ProcessRun(s) ==
    /\ Working(s) /\ sc[s].repo # NoRepo /\ HasUnit(s) /\ TakeOK(s)
    /\ sc' = [sc EXCEPT ![s].pos = @ + 1]
    /\ Covered(s, {NextUnit(s)})
    /\ Spend /\ moved' = TRUE
    /\ cutoffs' = [cutoffs EXCEPT ![<<s, NextUnit(s)>>] = 0]
    /\ UNCHANGED <<envVars, pc, recentSpent, stop, repos, passVars>>

RepoDone(s) ==
    /\ Working(s) /\ sc[s].repo # NoRepo /\ ~HasUnit(s)
    /\ sc' = [sc EXCEPT ![s].repo = NoRepo, ![s].runs = <<>>, ![s].pos = 0, ![s].remaining = @ - 1]
    /\ UNCHANGED <<envVars, pc, spent, recentSpent, moved, stop, repos, cutoffs, passVars, seen>>

\* The deep scan runs whatever stopped the recent one, unless that was the rate
\* limit; it closes the pass when no repository is left.
AfterScan(s, err) ==
    /\ pc' = IF s = "recent" /\ deepOpen /\ err # "rate" THEN "deep" ELSE "end"
    /\ recentSpent' = IF s = "recent" THEN spent' ELSE recentSpent
    /\ moved' = FALSE /\ stop' = <<s, err>>
    /\ IF s = "deep" /\ err = "none" /\ sc["deep"].remaining = 0
       THEN deepOpen' = FALSE /\ sinceDeep' = 0
       ELSE UNCHANGED <<deepOpen, sinceDeep>>
    /\ UNCHANGED <<envVars, repos, allAges, openFor, saw>>

\* Nothing is left, or take refuses the next unit: the rate limit, the share,
\* or a deadline that passed after some unit had finished.
ScanStops(s) ==
    /\ pc = s
    /\ UNCHANGED <<spent, sc, cutoffs, seen>>
    /\ \/ ~Working(s) /\ AfterScan(s, "none")
       \/ Working(s) /\ HasUnit(s) /\ limited /\ AfterScan(s, "rate")
       \/ Working(s) /\ HasUnit(s) /\ ~limited /\ spent >= Limit(s) /\ AfterScan(s, "budget")
       \/ Working(s) /\ HasUnit(s) /\ moved /\ AfterScan(s, "deadline")

\* Defect: a unit that hangs is tried again for ever.
CutOffNeverSkips(s) ==
    /\ Working(s) /\ HasUnit(s) /\ TakeOK(s)
    /\ Spend
    /\ AfterScan(s, "deadline")
    /\ UNCHANGED <<sc, cutoffs, seen>>

\* Defect: a listing that was cut off counts as done.
CutOffCountsAsDone(s) ==
    /\ Working(s) /\ HasUnit(s) /\ TakeOK(s)
    /\ sc' = IF sc[s].repo = NoRepo THEN PassRepo(s) ELSE [sc EXCEPT ![s].pos = @ + 1]
    /\ Spend
    /\ AfterScan(s, "deadline")
    /\ UNCHANGED <<cutoffs, seen>>

\* The deadline ends the unit's work.  The cursor stays, until MaxCutoffs
\* deadlines in a row: then this pass goes on without the unit.
CutOff(s) ==
    /\ Working(s) /\ HasUnit(s) /\ TakeOK(s)
    /\ LET u == NextUnit(s)
           n == cutoffs[<<s, u>>] + 1
           skip == n >= MaxCutoffs
       IN  /\ cutoffs' = [cutoffs EXCEPT ![<<s, u>>] = IF skip THEN 0 ELSE n]
           /\ sc' = IF ~skip THEN sc
                    ELSE IF sc[s].repo = NoRepo THEN PassRepo(s)
                    ELSE [sc EXCEPT ![s].pos = @ + 1]
           /\ Covered(s, IF ~skip THEN {}
                         ELSE IF sc[s].repo = NoRepo THEN UnitsOf(u[1]) ELSE {u})
    /\ Spend
    /\ AfterScan(s, "deadline")

\* The next tick comes a cycle later.
EndCycle ==
    /\ pc = "end"
    /\ pc' = "idle" /\ spent' = 0 /\ recentSpent' = 0 /\ stop' = <<"none", "none">>
    /\ openFor' = IF deepOpen /\ openFor < DeepMaxOpen THEN openFor + 1 ELSE openFor
    /\ sinceDeep' = IF ~deepOpen /\ sinceDeep < DeepInterval THEN sinceDeep + 1 ELSE sinceDeep
    /\ UNCHANGED <<envVars, moved, repos, sc, cutoffs, deepOpen, allAges, saw, seen>>

CycleStep ==
    \/ Begin \/ Rescue \/ Repositories \/ RepositoriesFail \/ OpenPass \/ EndCycle
    \/ \E s \in Scans : \/ SkipRepo(s) \/ ListRuns(s) \/ ProcessRun(s) \/ RepoDone(s)
                        \/ ScanStops(s) \/ CutOff(s)

Next == CycleStep \/ StoreChanges \/ RateLimitChanges

\* The worker ticks, every call ends or is cut off, the rate limit is reset.
Fairness == WF_vars(CycleStep) /\ WF_vars(limited /\ RateLimitChanges)

Spec == Init /\ [][Next]_vars
FairSpec == Spec /\ Fairness

-----------------------------------------------------------------------------
(* Properties.                                                              *)

Steady == world.limits = 0 /\ Cardinality(world.sizes) = 1

\* "so a run that hangs every time cannot park a scan cursor forever": whatever
\* is cut off, both scanners pass every repository again and again.
CursorsNeverPark ==
    \A s \in Scans, n \in 1 .. MaxRepos :
        (n \in DOMAIN world.runs /\ repos # None /\ Steady) ~> (sc[s].cursor = n)

\* What a deep pass owes a repository: its listing and the runs in its window.
Window(n) ==
    {n} \X ({0} \cup {i \in DOMAIN world.runs[n] : world.runs[n][i] \in Ages("deep")})

\* A deep pass that closes is done with every repository of the list and every
\* run of its window: finished, failed, or cut off MaxCutoffs times in a row.
ClosedPassCoversEverything ==
    [][(deepOpen /\ ~deepOpen' /\ repos' > 0 /\ Steady)
         => \A n \in world.accepts \cap 1 .. repos : Window(n) \subseteq seen']_vars

\* "the deep scan always gets at least this many calls after the recent scan
\* finishes, even when a multi-page listing pushed the recent scan past its limit".
DeepGetsItsShare ==
    stop = <<"deep", "budget">> => spent - recentSpent >= DeepReserve

\* A pass opened over an empty store stays one of all ages until it closes or
\* starts again, also when the first allocations are there (the rate limit
\* aside, which may hold a pass open past DeepMaxOpen).
AllAgesPassIsKept == [][(deepOpen /\ allAges /\ deepOpen' /\ Steady) => allAges']_vars

=============================================================================
