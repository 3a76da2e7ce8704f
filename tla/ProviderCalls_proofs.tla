------------------------ MODULE ProviderCalls_proofs ------------------------
(***************************************************************************)
(* Proofs of the safety properties of ProviderCalls.  A call begins a late *)
(* attempt from "ready" only, and once the breaker is open no call gets    *)
(* there: whoever asks, first or again, is refused, or finds the breaker   *)
(* rested and lets it go half open, which starts the count afresh.         *)
(***************************************************************************)
EXTENDS ProviderCalls, TLAPS

\* The breaker is open or half open only after as many failures as its threshold.
BreakerInv == state # "closed" <=> failures = Threshold

\* A late attempt of q is its last one, as long as the breaker stays open.
LateInv(q) ==
    /\ late[q] <= 1
    /\ late[q] = 1 => state = "open" /\ pc[q] # "ready"

IInv == TypeOK /\ BreakerInv /\ \A q \in Calls : LateInv(q)

\* The initial state.
LEMMA InitInv == Init => IInv
<1> SUFFICES ASSUME Init PROVE IInv
    OBVIOUS
<1>1. TypeOK
    <2>1. late \in [Calls -> Nat]
        BY Zenon DEF Init
    <2>2. attempt \in [Calls -> 0 .. MaxRetries]
        BY SomeAttempts DEF Init
    <2>3. pc \in [Calls -> {"idle", "asking", "ready", "calling", "failed"}]
        BY DEF Init
    <2>4. failures \in 0 .. Threshold
        BY SomeAttempts DEF Init
    <2>5. state \in {"closed", "open", "half_open"} /\ rested \in BOOLEAN /\ healthy \in BOOLEAN
        BY Zenon DEF Init
    <2> QED BY <2>1, <2>2, <2>3, <2>4, <2>5, Zenon DEF TypeOK
<1>2. BreakerInv
    BY SomeAttempts DEF Init, BreakerInv
<1>3. ASSUME NEW q \in Calls PROVE LateInv(q)
    <2>1. late[q] = 0
        BY DEF Init
    <2> QED BY <2>1 DEF LateInv
<1> QED BY <1>1, <1>2, <1>3 DEF IInv

\* What check does when it admits.
LEMMA CheckKeeps ==
    ASSUME IInv, Check
    PROVE  /\ state' \in {"closed", "half_open"} /\ UNCHANGED failures
           /\ state' = "closed" <=> state = "closed"
           /\ late' = [q \in Calls |-> 0]
BY DEF IInv, TypeOK, BreakerInv, LateInv, Check, Admits

\* A step of a call keeps the invariant.
LEMMA CallKeeps ==
    ASSUME IInv, NEW q \in Calls, Ask(q) \/ CallStep(q) \/ Drop(q)
    PROVE  IInv'
<1> USE SomeAttempts DEF IInv, TypeOK, BreakerInv, LateInv
<1>1. CASE Ask(q)
    BY <1>1 DEF Ask, GoTo, breakerVars
<1>2. CASE Enter(q)
    BY <1>2, CheckKeeps DEF Enter, GoTo, Check
<1>3. CASE Refuse(q)
    BY <1>3 DEF Refuse, GoTo, breakerVars
<1>4. CASE Attempt(q)
    BY <1>4 DEF Attempt, GoTo, breakerVars
<1>5. CASE Retry(q)
    BY <1>5, CheckKeeps DEF Retry, GoTo, Check
<1>6. CASE GiveUp(q)
    BY <1>6 DEF GiveUp, GoTo, breakerVars
<1>7. CASE Succeed(q)
    <2> USE <1>7 DEF Succeed, RecordSuccess, GoTo
    <2>1. late' \in [Calls -> Nat]
        BY Zenon
    <2>2. /\ failures' \in 0 .. Threshold /\ attempt' \in [Calls -> 0 .. MaxRetries]
          /\ pc' \in [Calls -> {"idle", "asking", "ready", "calling", "failed"}]
        OBVIOUS
    <2>3. state' \in {"closed", "open", "half_open"} /\ rested' \in BOOLEAN /\ healthy' \in BOOLEAN
        BY Zenon
    <2>4. BreakerInv'
        OBVIOUS
    <2>5. \A r \in Calls : LateInv(r)'
        OBVIOUS
    <2>6. TypeOK'
        BY <2>1, <2>2, <2>3, Zenon
    <2> QED BY <2>4, <2>5, <2>6
<1>8. CASE FailForNow(q)
    <2> USE <1>8 DEF FailForNow, RecordFailure, GoTo
    <2>1. failures' \in 0 .. Threshold /\ (failures = Threshold => failures' = Threshold)
        OBVIOUS
    <2>2. TypeOK'
        BY <2>1
    <2>3. BreakerInv'
        BY <2>1
    <2>4. \A r \in Calls : LateInv(r)'
        BY <2>1
    <2> QED BY <2>2, <2>3, <2>4
<1>9. CASE FailForGood(q)
    BY <1>9 DEF FailForGood, GoTo, breakerVars
<1>10. CASE Drop(q)
    BY <1>10 DEF Drop, GoTo, breakerVars
<1> QED BY <1>1, <1>2, <1>3, <1>4, <1>5, <1>6, <1>7, <1>8, <1>9, <1>10 DEF CallStep

\* The invariant holds of every behaviour, however many callers there are.
THEOREM Invariance == Spec => []IInv
<1>1. IInv /\ [Next]_vars => IInv'
    <2> SUFFICES ASSUME IInv, [Next]_vars PROVE IInv'
        OBVIOUS
    <2>1. CASE Rest \/ Turn \/ UNCHANGED vars
        BY <2>1 DEF IInv, TypeOK, BreakerInv, LateInv, Rest, Turn, vars, breakerVars
    <2>2. CASE \E q \in Calls : Ask(q) \/ CallStep(q) \/ Drop(q)
        BY <2>2, CallKeeps
    <2> QED BY <2>1, <2>2 DEF Next
<1> QED BY <1>1, InitInv, PTL DEF Spec

\* Types, and no call makes more attempts than its first and its retries.
THEOREM Types == Spec => []TypeOK
<1>1. IInv => TypeOK
    BY DEF IInv
<1> QED BY <1>1, Invariance, PTL

\* An open breaker lets through at most the attempt a call had been admitted to
\* before (retry_with_backoff asks after a failure, not after its back-off).
THEOREM StragglersAreStopped == Spec => []StragglersStop
<1>1. IInv => StragglersStop
    BY DEF IInv, LateInv, StragglersStop
<1> QED BY <1>1, Invariance, PTL
=============================================================================
