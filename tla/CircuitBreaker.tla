--------------------------- MODULE CircuitBreaker ---------------------------
(***************************************************************************)
(* One named circuit breaker of a functions instance, wrapped around       *)
(* retried calls of an external service (src/src/resilience.ts); purchase  *)
(* verification goes through one for each store.                           *)
(*                                                                         *)
(* execute, onSuccess and onFailure run without an await in between, so    *)
(* each is one step; any number of calls can be awaiting the service.  A   *)
(* call that was let in while the circuit was closed may report after the  *)
(* circuit opened, or during a later half-open period, and counts there.   *)
(*                                                                         *)
(* Abstractions.  The clock appears as rested: resetTimeoutMs have passed  *)
(* since the last failure.  An attempt that times out is one that fails    *)
(* with a retryable error: Promise.race drops what the service answers     *)
(* later.  A call refused by the breaker changes nothing and is left out.  *)
(***************************************************************************)
EXTENDS Integers, FiniteSets

CONSTANTS
    BreakerCalls,              \* calls that can be awaiting the service at once
    FailureThreshold,   \* options of the breaker
    HalfOpenMaxCalls,
    SuccessThreshold,
    MaxAttempts,        \* option of withRetry
    MaxFailures         \* bound of the counter failures in the model

ASSUME BreakerAssumption ==
    /\ IsFiniteSet(BreakerCalls)
    /\ FailureThreshold \in Nat \ {0} /\ HalfOpenMaxCalls \in Nat \ {0}
    /\ SuccessThreshold \in Nat \ {0} /\ MaxAttempts \in Nat \ {0}
    /\ MaxFailures \in Nat /\ MaxFailures >= FailureThreshold

VARIABLES
    state,          \* the fields of the CircuitBreaker
    failures,
    successes,
    halfOpenCalls,
    rested,         \* resetTimeoutMs have passed since lastFailureTime
    attempt,        \* attempt[p]: the attempt call p is at, 0 when p is not running
    waiting,        \* calls between two attempts
    healthy,        \* the service has recovered for good
    probes          \* history: running calls let in by the current half-open period

counters == <<state, failures, successes, halfOpenCalls, rested, probes>>
breakerVars     == <<counters, attempt, waiting, healthy>>

BreakerTypeOK ==
    /\ state \in {"closed", "open", "half-open"}
    /\ failures \in 0..MaxFailures
    /\ successes \in Nat
    /\ halfOpenCalls \in Nat
    /\ rested \in BOOLEAN
    /\ attempt \in [BreakerCalls -> 0..MaxAttempts]
    /\ waiting \subseteq BreakerCalls
    /\ healthy \in BOOLEAN
    /\ probes \subseteq BreakerCalls

BreakerInit ==
    /\ state = "closed"
    /\ failures = 0 /\ successes = 0 /\ halfOpenCalls = 0
    /\ rested = TRUE
    /\ attempt = [p \in BreakerCalls |-> 0]
    /\ waiting = {}
    /\ healthy = FALSE
    /\ probes = {}

Running == {p \in BreakerCalls : attempt[p] > 0}

-----------------------------------------------------------------------------
(* The breaker.                                                            *)

\* Closed: let the call in.
ExecuteClosed(p) ==
    /\ state = "closed"
    /\ UNCHANGED counters

\* Variant: the half-open period inherits the slots the last one used up.
EnterHalfOpenKeep(p) ==
    /\ state = "open" /\ rested
    /\ state' = "half-open"
    /\ halfOpenCalls' = halfOpenCalls + 1
    /\ successes' = 0
    /\ probes' = {p}
    /\ UNCHANGED <<failures, rested>>

\* Open for long enough: the call starts a half-open period and is its first probe.
EnterHalfOpen(p) ==
    /\ state = "open" /\ rested
    /\ state' = "half-open"
    /\ halfOpenCalls' = 1
    /\ successes' = 0
    /\ probes' = {p}
    /\ UNCHANGED <<failures, rested>>

\* Variant: one probe more than there are slots.
ProbeOneMore(p) ==
    /\ state = "half-open"
    /\ halfOpenCalls <= HalfOpenMaxCalls
    /\ halfOpenCalls' = halfOpenCalls + 1
    /\ probes' = probes \cup {p}
    /\ UNCHANGED <<state, failures, successes, rested>>

\* Half-open: let the call in while there are slots; finished probes keep theirs.
Probe(p) ==
    /\ state = "half-open"
    /\ halfOpenCalls < HalfOpenMaxCalls
    /\ halfOpenCalls' = halfOpenCalls + 1
    /\ probes' = probes \cup {p}
    /\ UNCHANGED <<state, failures, successes, rested>>

OnSuccess(p) ==
    \/ /\ state = "half-open" /\ successes + 1 >= SuccessThreshold
       /\ state' = "closed"
       /\ failures' = 0 /\ successes' = 0 /\ halfOpenCalls' = 0
       /\ probes' = {}
       /\ UNCHANGED rested
    \/ /\ state = "half-open" /\ successes + 1 < SuccessThreshold
       /\ successes' = successes + 1
       /\ probes' = probes \ {p}
       /\ UNCHANGED <<state, failures, halfOpenCalls, rested>>
    \/ /\ state # "half-open"
       /\ failures' = IF failures > 0 THEN failures - 1 ELSE 0
       /\ probes' = probes \ {p}
       /\ UNCHANGED <<state, successes, halfOpenCalls, rested>>

\* A failed probe reopens; otherwise enough failures open.  The failures counted
\* in the open state push the next half-open period back.
OnFailure(p) ==
    /\ failures < MaxFailures
    /\ failures' = failures + 1
    /\ rested' = FALSE
    /\ IF state = "half-open" \/ failures + 1 >= FailureThreshold
       THEN state' = "open" /\ probes' = {}
       ELSE UNCHANGED state /\ probes' = probes \ {p}
    /\ UNCHANGED <<successes, halfOpenCalls>>

-----------------------------------------------------------------------------
(* withResilience: execute, with withRetry inside.                         *)

Execute(p) ==
    /\ attempt[p] = 0
    /\ ExecuteClosed(p) \/ EnterHalfOpen(p) \/ Probe(p)
    /\ attempt' = [attempt EXCEPT ![p] = 1]
    /\ UNCHANGED <<waiting, healthy>>

Finish(p) == attempt' = [attempt EXCEPT ![p] = 0] /\ UNCHANGED <<waiting, healthy>>

\* The service answers the attempt.
Succeed(p) ==
    /\ attempt[p] > 0 /\ p \notin waiting
    /\ OnSuccess(p)
    /\ Finish(p)

\* The attempt fails for good: not retryable, or the last one.
Fail(p) ==
    /\ attempt[p] > 0 /\ p \notin waiting
    /\ ~healthy
    /\ OnFailure(p)
    /\ Finish(p)

\* A retryable error or a timeout: back off before the next attempt.
BackOff(p) ==
    /\ 0 < attempt[p] /\ attempt[p] < MaxAttempts /\ p \notin waiting
    /\ ~healthy
    /\ waiting' = waiting \cup {p}
    /\ UNCHANGED <<counters, attempt, healthy>>

Retry(p) ==
    /\ p \in waiting
    /\ waiting' = waiting \ {p}
    /\ attempt' = [attempt EXCEPT ![p] = @ + 1]
    /\ UNCHANGED <<counters, healthy>>

\* Time passes, and the service recovers (the environment).
Rest == ~rested /\ rested' = TRUE /\ UNCHANGED <<state, failures, successes, halfOpenCalls,
                                                 probes, attempt, waiting, healthy>>
Recover == ~healthy /\ healthy' = TRUE /\ UNCHANGED <<counters, attempt, waiting>>

Answer(p) == Succeed(p) \/ Fail(p) \/ BackOff(p) \/ Retry(p)

BreakerNext == \/ \E p \in BreakerCalls : Execute(p) \/ Answer(p)
        \/ Rest
        \/ Recover

BreakerSpec == BreakerInit /\ [][BreakerNext]_breakerVars

\* Each attempt is answered or times out, time passes, and callers keep
\* coming.
BreakerFairness ==
    /\ \A p \in BreakerCalls : WF_breakerVars(Answer(p))
    /\ WF_breakerVars(Rest)
    /\ WF_breakerVars(\E p \in BreakerCalls : Execute(p))

BreakerFairSpec == BreakerSpec /\ BreakerFairness

-----------------------------------------------------------------------------
\* The circuit is closed only while the failures are below the threshold: late
\* successes and failures reported in the open or half-open state, which move
\* the same counter, never leave a closed circuit that should be open.
ClosedBelowThreshold == state = "closed" => failures < FailureThreshold

\* A half-open period never has more than halfOpenMaxCalls of its own probes
\* running, whatever calls of earlier periods are still under way.
ProbesLimited == Cardinality(probes) <= HalfOpenMaxCalls

\* A half-open circuit can always move on: it has a slot left, or a running
\* call whose answer will count.
NeverStuck == state = "half-open" => halfOpenCalls < HalfOpenMaxCalls \/ Running # {}

\* Every slot of the half-open period went to a call that succeeded, and nothing is
\* running: with fewer slots than the successes it takes to close, nothing follows.
Spent == /\ state = "half-open" /\ Running = {}
         /\ halfOpenCalls >= HalfOpenMaxCalls
         /\ successes >= halfOpenCalls /\ successes < SuccessThreshold

\* That is the only way for a half-open circuit to be stuck, whatever calls of
\* earlier periods reported in it.
StuckOnlyWhenSpent == NeverStuck \/ Spent

\* Once the service is healthy the circuit closes again, as long as callers keep
\* asking, or a half-open period is spent on successes: never on a slot that a
\* failure, a late call or an earlier period holds.
RecoversUnlessSpent == healthy ~> state = "closed" \/ Spent
=============================================================================
