---------------------------- MODULE ProviderCalls ----------------------------
(***************************************************************************)
(* Calls to a provider that share its circuit breaker: retry_with_backoff  *)
(* around the breaker's check, record_success and record_failure, each of  *)
(* which is a step of its own.  A call asks the breaker when it begins and *)
(* after each answer that allows another attempt, and never between the    *)
(* end of its back-off and the attempt.                                    *)
(***************************************************************************)
EXTENDS Naturals

CONSTANTS
    Calls,      \* the callers, one call after the other each
    Threshold,  \* failures in a row that open the breaker, 5
    MaxRetries  \* attempts after the first, 3

ASSUME SomeAttempts == Threshold \in Nat \ {0} /\ MaxRetries \in Nat

VARIABLES
    state,      \* CircuitState
    failures,   \* consecutive_failures, counted up to Threshold
    rested,     \* the reset timeout has passed since last_failure
    pc,         \* where a call is
    attempt,    \* its attempt, from 0
    healthy,    \* the provider answers as it should
    late        \* history: attempts a call has begun since the breaker opened

breakerVars == <<state, failures, rested>>
vars == <<breakerVars, pc, attempt, healthy, late>>

Init ==
    /\ state = "closed" /\ failures = 0 /\ rested = FALSE
    /\ pc = [q \in Calls |-> "idle"]
    /\ attempt = [q \in Calls |-> 0]
    /\ healthy = TRUE
    /\ late = [q \in Calls |-> 0]

GoTo(q, place) == pc' = [pc EXCEPT ![q] = place]

-----------------------------------------------------------------------------
(* The breaker.                                                            *)

\* Mutant: the time that has passed is not looked at.
AdmitsNobody == state # "open"

Admits == state # "open" \/ rested

\* What check does when it admits: an open breaker becomes half open.
Check ==
    /\ Admits
    /\ state' = IF state = "open" THEN "half_open" ELSE state
    /\ late' = IF state = "open" THEN [q \in Calls |-> 0] ELSE late
    /\ UNCHANGED <<failures, rested>>

RecordSuccess ==
    /\ state' = "closed" /\ failures' = 0 /\ rested' = FALSE
    /\ late' = [q \in Calls |-> 0]

RecordFailure ==
    /\ failures' = IF failures < Threshold THEN failures + 1 ELSE failures
    /\ rested' = FALSE
    /\ state' = IF failures' = Threshold THEN "open" ELSE state
    /\ UNCHANGED late

\* Time passes.
Rest ==
    /\ failures > 0 /\ ~rested
    /\ rested' = TRUE
    /\ UNCHANGED <<state, failures, pc, attempt, healthy, late>>

-----------------------------------------------------------------------------
(* A call.                                                                 *)

Ask(q) ==
    /\ pc[q] = "idle"
    /\ GoTo(q, "asking")
    /\ UNCHANGED <<breakerVars, attempt, healthy, late>>

Enter(q) ==
    /\ pc[q] = "asking" /\ Check
    /\ GoTo(q, "ready")
    /\ attempt' = [attempt EXCEPT ![q] = 0]
    /\ UNCHANGED healthy

Refuse(q) ==
    /\ pc[q] = "asking" /\ ~Admits
    /\ GoTo(q, "idle")
    /\ UNCHANGED <<breakerVars, attempt, healthy, late>>

\* An attempt begins, at once or after its back-off.
Attempt(q) ==
    /\ pc[q] = "ready"
    /\ GoTo(q, "calling")
    /\ late' = IF state = "open" THEN [late EXCEPT ![q] = @ + 1] ELSE late
    /\ UNCHANGED <<breakerVars, attempt, healthy>>

Succeed(q) ==
    /\ pc[q] = "calling"
    /\ RecordSuccess
    /\ GoTo(q, "idle")
    /\ UNCHANGED <<attempt, healthy>>

\* 429, 502, 503 or 504.
FailForNow(q) ==
    /\ pc[q] = "calling" /\ ~healthy
    /\ RecordFailure
    /\ GoTo(q, "failed")
    /\ UNCHANGED <<attempt, healthy>>

\* Any other status, or none: the network failed.  The breaker is not told.
FailForGood(q) ==
    /\ pc[q] = "calling" /\ ~healthy
    /\ GoTo(q, "idle")
    /\ UNCHANGED <<breakerVars, attempt, healthy, late>>

\* Mutant: the check after a failure is left out.
RetryAnyway(q) ==
    /\ pc[q] = "failed"
    /\ UNCHANGED <<breakerVars, late>>
    /\ IF attempt[q] < MaxRetries
       THEN GoTo(q, "ready") /\ attempt' = [attempt EXCEPT ![q] = @ + 1]
       ELSE GoTo(q, "idle") /\ UNCHANGED attempt
    /\ UNCHANGED healthy

\* Mutant: one retry more than max_retries.
RetryOnceMore(q) ==
    /\ pc[q] = "failed" /\ Check
    /\ IF attempt[q] <= MaxRetries
       THEN GoTo(q, "ready") /\ attempt' = [attempt EXCEPT ![q] = @ + 1]
       ELSE GoTo(q, "idle") /\ UNCHANGED attempt
    /\ UNCHANGED healthy

\* The breaker admits another attempt, after a back-off, if there is one left.
Retry(q) ==
    /\ pc[q] = "failed" /\ Check
    /\ IF attempt[q] < MaxRetries
       THEN GoTo(q, "ready") /\ attempt' = [attempt EXCEPT ![q] = @ + 1]
       ELSE GoTo(q, "idle") /\ UNCHANGED attempt
    /\ UNCHANGED healthy

GiveUp(q) ==
    /\ pc[q] = "failed" /\ ~Admits
    /\ GoTo(q, "idle")
    /\ UNCHANGED <<breakerVars, attempt, healthy, late>>

\* The turn is cancelled while the call sleeps or waits for its answer.
Drop(q) ==
    /\ pc[q] \in {"ready", "calling"}
    /\ GoTo(q, "idle")
    /\ UNCHANGED <<breakerVars, attempt, healthy, late>>

\* The provider has troubles, or gets over them.
Turn == healthy' = ~healthy /\ UNCHANGED <<breakerVars, pc, attempt, late>>

CallStep(q) ==
    \/ Enter(q) \/ Refuse(q) \/ Attempt(q) \/ Retry(q) \/ GiveUp(q)
    \/ Succeed(q) \/ FailForNow(q) \/ FailForGood(q)

Next ==
    \/ Rest \/ Turn
    \/ \E q \in Calls : Ask(q) \/ CallStep(q) \/ Drop(q)

Spec == Init /\ [][Next]_vars

\* Time passes, and a call goes on: sleeps end, requests have time limits.
Fairness == WF_vars(Rest) /\ \A q \in Calls : WF_vars(CallStep(q))

FairSpec == Spec /\ Fairness

-----------------------------------------------------------------------------

\* Everything has the shape it should, and a call makes no more than its attempts.
TypeOK ==
    /\ state \in {"closed", "open", "half_open"}
    /\ failures \in 0 .. Threshold
    /\ rested \in BOOLEAN
    /\ pc \in [Calls -> {"idle", "asking", "ready", "calling", "failed"}]
    /\ attempt \in [Calls -> 0 .. MaxRetries]
    /\ healthy \in BOOLEAN
    /\ late \in [Calls -> Nat]

\* A breaker that opens stops the calls that are under way: of each the provider
\* sees at most one more attempt, the one it had been admitted to before, until
\* the breaker lets calls through again.
StragglersStop == \A q \in Calls : late[q] <= 1

\* A provider that is well again is used again: if from some time on it answers as
\* it should, no call is dropped, and calls keep being asked for, then the breaker
\* closes and stays closed.
Recovery ==
    (/\ <>[]healthy
     /\ <>[][\A q \in Calls : ~Drop(q)]_vars
     /\ []<>(\E q \in Calls : pc[q] = "asking"))
    => <>[](state = "closed")
=============================================================================
