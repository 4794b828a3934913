--------------------------- MODULE BackendAdmission ---------------------------
(***************************************************************************)
(* Runtime admission of one broker process: circuit breakers and cold-launch*)
(* rate limits (src/internal/api/backend_admission.go) and the allocation   *)
(* budget (src/internal/budget/tracker.go), per pool and backend.           *)
(*                                                                         *)
(* Every operation reads the shared document, works under its mutex and     *)
(* writes the document back; one operation is one step here, so the         *)
(* process's copy and the document agree between steps.  Times are ages or  *)
(* countdowns in ticks.                                                     *)
(***************************************************************************)
EXTENDS Naturals, Sequences, FiniteSets

CONSTANTS
    Keys,                      \* pool/backend pairs
    FailureThreshold, EvaluationWindow, OpenDuration, ProbeInterval,
    RecoverySuccessThreshold, HalfOpenMaxRequests,
    Interval                   \* rateLimit.interval

ASSUME AdmissionAssumption ==
    {FailureThreshold, EvaluationWindow, OpenDuration, ProbeInterval,
     RecoverySuccessThreshold, HalfOpenMaxRequests, Interval} \subseteq Nat \ {0}

VARIABLES
    circuit,   \* per key: state, failure ages, ticks until the next probe,
               \* half-open permits in use, successes of the recovery
    limit,     \* per key: age of the window and permits used in it
    budget     \* per key: launches counted in the current budget window

admissionVars == <<circuit, limit, budget>>

ClosedCircuit == [state |-> "closed", failures |-> <<>>, nextProbe |-> 0,
                  inFlight |-> 0, successes |-> 0]
FreshLimit == [age |-> 0, used |-> 0]

AdmissionInit ==
    /\ circuit = [k \in Keys |-> ClosedCircuit]
    /\ limit = [k \in Keys |-> FreshLimit]
    /\ budget = [k \in Keys |-> 0]

-----------------------------------------------------------------------------
(* Circuit breaker                                                         *)

circuitAllows(k, consume) ==
    \/ circuit[k].state = "closed"
    \/ circuit[k].state = "open" /\ circuit[k].nextProbe = 0
    \/ circuit[k].state = "half-open" /\ (consume => circuit[k].inFlight < HalfOpenMaxRequests)

AfterCircuitConsumed(c) ==
    CASE c.state = "closed"    -> c
      [] c.state = "open"      -> [c EXCEPT !.state = "half-open", !.inFlight = 1, !.successes = 0]
      [] c.state = "half-open" -> [c EXCEPT !.inFlight = @ + 1]

\* Defect: closing the circuit keeps the permits in use.
AfterSuccessKeepsPermits(c) ==
    IF c.state = "half-open" /\ c.successes + 1 < RecoverySuccessThreshold
    THEN [c EXCEPT !.failures = <<>>, !.inFlight = 0, !.successes = @ + 1]
    ELSE [ClosedCircuit EXCEPT !.inFlight = c.inFlight]

\* A success closes an open circuit too: only half-open counts successes.
AfterSuccess(c) ==
    IF c.state = "half-open" /\ c.successes + 1 < RecoverySuccessThreshold
    THEN [c EXCEPT !.failures = <<>>, !.inFlight = 0, !.successes = @ + 1]
    ELSE ClosedCircuit

\* A failure of a class that does not trip leaves the circuit untouched.
AfterFailure(c) ==
    LET recent == Append(SelectSeq(c.failures, LAMBDA age : age <= EvaluationWindow), 0)
        kept   == IF Len(recent) > FailureThreshold THEN Tail(recent) ELSE recent
    IN  IF c.state = "half-open" \/ Len(recent) >= FailureThreshold
        THEN [c EXCEPT !.state = "open", !.failures = kept, !.nextProbe = OpenDuration,
                       !.inFlight = 0, !.successes = 0]
        ELSE [c EXCEPT !.failures = kept, !.inFlight = 0, !.successes = 0]

probeDue(k) == circuit[k].state = "open" /\ circuit[k].nextProbe = 0

AfterProbeFailure(c) ==
    [c EXCEPT !.state = "open", !.nextProbe = ProbeInterval, !.successes = 0, !.inFlight = 0]

AfterProbeSuccess(c) ==
    IF c.state = "closed" THEN c
    ELSE IF c.successes + 1 < RecoverySuccessThreshold
         THEN [c EXCEPT !.successes = @ + 1, !.nextProbe = ProbeInterval]
         ELSE ClosedCircuit

-----------------------------------------------------------------------------
(* Rate limit: a fixed window that starts at its first use                 *)

Window(k) == IF limit[k].age >= Interval THEN FreshLimit ELSE limit[k]
rateAllows(k, permits) == permits = 0 \/ Window(k).used < permits

-----------------------------------------------------------------------------
(* Budget                                                                  *)

budgetAllows(k, max) == max = 0 \/ budget[k] < max

-----------------------------------------------------------------------------
\* One tick of the clock; a failure past the evaluation window and a window
\* past its interval no longer count.
AdmissionTick ==
    /\ circuit' = [k \in Keys |->
            [circuit[k] EXCEPT !.nextProbe = IF @ > 0 THEN @ - 1 ELSE 0,
                               !.failures = SelectSeq([i \in DOMAIN @ |-> @[i] + 1],
                                                      LAMBDA age : age <= EvaluationWindow)]]
    /\ limit' = [k \in Keys |-> [limit[k] EXCEPT !.age = IF @ < Interval THEN @ + 1 ELSE @]]
    /\ UNCHANGED budget
=============================================================================
