------------------------------ MODULE Breaker ------------------------------
(***************************************************************************)
(* One circuit breaker of the gateway, internal/gateway/repository/        *)
(* breaker.go, around the calls of client.go to one service.  gobreaker    *)
(* itself is external: it numbers its generations, and here a call in      *)
(* flight only remembers whether its generation is still the current one.  *)
(* A call that is rejected changes nothing and is no step.                 *)
(***************************************************************************)
EXTENDS Naturals

CONSTANT Calls   \* concurrent calls through the breaker

VARIABLES state,     \* "closed", "open" or "half-open"
          counts,    \* requests, failures and successes in a row, this generation
          calls,     \* call -> "none", "current" or "old"
          healthy,   \* whether the service answers at all
          infra      \* history: infrastructure errors of the closed generation's own calls

breakerVars == <<state, counts, calls, healthy, infra>>

MaxRequests == 3
TripAt == 5
ReadyToTripLate(failures) == failures > TripAt
ReadyToTrip(failures) == failures >= TripAt

\* What a call can end with: "ok"; "business" for NotFound, InvalidArgument
\* and the like; "cancelled" when the gateway's own client went away; "infra"
\* for Unavailable, DeadlineExceeded, Internal, and for a panic.
Answers == IF healthy THEN {"ok", "business", "cancelled"} ELSE {"infra", "cancelled"}
IsInfraOrCancelled(a) == a \in {"infra", "cancelled"}
IsInfraError(a) == a = "infra"

Zero == [requests |-> 0, failures |-> 0, successes |-> 0]
UpTo(n, max) == IF n < max THEN n ELSE max

BreakerInit ==
    /\ state = "closed" /\ counts = Zero
    /\ calls = [c \in Calls |-> "none"]
    /\ healthy \in BOOLEAN
    /\ infra = 0

\* A new generation: the counters start again, the calls in flight do not
\* count any more.
NewGeneration(s, inFlight) ==
    /\ state' = s /\ counts' = Zero
    /\ calls' = [c \in Calls |-> IF inFlight[c] = "current" THEN "old" ELSE inFlight[c]]

\* The interval of the closed state, or the timeout of the open one, is over.
IntervalEnds ==
    /\ state = "closed" /\ NewGeneration("closed", calls)
    /\ infra' = 0
    /\ UNCHANGED healthy

TimeoutEnds ==
    /\ state = "open" /\ NewGeneration("half-open", calls)
    /\ UNCHANGED <<healthy, infra>>

\* beforeRequest lets the call through.
Admit(c) ==
    /\ calls[c] = "none"
    /\ state = "closed" \/ (state = "half-open" /\ counts.requests < MaxRequests)
    /\ calls' = [calls EXCEPT ![c] = "current"]
    /\ counts' = [counts EXCEPT !.requests = UpTo(@ + 1, MaxRequests)]
    /\ UNCHANGED <<state, healthy, infra>>

\* afterRequest, the call itself being no longer in flight.
Success(inFlight) ==
    LET n == counts.successes + 1 IN
    IF state = "half-open" /\ n >= MaxRequests
    THEN NewGeneration("closed", inFlight)
    ELSE /\ counts' = [counts EXCEPT !.failures = 0, !.successes = UpTo(n, MaxRequests)]
         /\ calls' = inFlight /\ UNCHANGED state

Failure(inFlight) ==
    LET n == counts.failures + 1 IN
    IF state = "half-open" \/ ReadyToTrip(n)
    THEN NewGeneration("open", inFlight)
    ELSE /\ counts' = [counts EXCEPT !.failures = n, !.successes = 0]
         /\ calls' = inFlight /\ UNCHANGED state

\* History: the errors that callers got from calls of the closed generation.
Noted(c, a) ==
    infra' = IF state # "closed" /\ state' = "closed" THEN 0
             ELSE UpTo(infra + (IF calls[c] = "current" /\ a = "infra" THEN 1 ELSE 0), TripAt)

\* A bug to catch: an answer counts whichever generation its call was let through in.
AnswerCountsLate(c) ==
    /\ calls[c] # "none"
    /\ \E a \in Answers :
         LET inFlight == [calls EXCEPT ![c] = "none"] IN
         /\ IF IsInfraError(a) THEN Failure(inFlight) ELSE Success(inFlight)
         /\ Noted(c, a)
    /\ UNCHANGED healthy

\* callWithBreaker: only an infrastructure error is reported as a failure, and only a
\* call of the current generation counts.
Answer(c) ==
    /\ calls[c] # "none"
    /\ \E a \in Answers :
         LET inFlight == [calls EXCEPT ![c] = "none"] IN
         /\ \/ calls[c] = "old" /\ calls' = inFlight /\ UNCHANGED <<state, counts>>
            \/ calls[c] = "current" /\ IsInfraError(a) /\ Failure(inFlight)
            \/ calls[c] = "current" /\ ~IsInfraError(a) /\ Success(inFlight)
         /\ Noted(c, a)
    /\ UNCHANGED healthy

\* The service goes down or comes back.
Flip == healthy' = ~healthy /\ UNCHANGED <<state, counts, calls, infra>>

BreakerNext ==
    \/ \E c \in Calls : Admit(c) \/ Answer(c)
    \/ IntervalEnds \/ TimeoutEnds
    \/ Flip

BreakerSpec == BreakerInit /\ [][BreakerNext]_breakerVars

\* Time passes, every call ends (client.go:22 gives it three seconds), and
\* requests keep coming.
BreakerFairSpec ==
    /\ BreakerSpec
    /\ WF_breakerVars(TimeoutEnds)
    /\ \A c \in Calls : WF_breakerVars(Admit(c)) /\ WF_breakerVars(Answer(c))

-----------------------------------------------------------------------------
\* One type invariant: counters never pass their thresholds, and calls of an
\* old generation only exist after one.
BreakerTypeOK ==
    /\ state \in {"closed", "open", "half-open"}
    /\ counts \in [requests : 0..MaxRequests, failures : 0..TripAt - 1, successes : 0..MaxRequests]
    /\ calls \in [Calls -> {"none", "current", "old"}] /\ infra \in 0..TripAt
    /\ state = "open" => \A c \in Calls : calls[c] # "current"

\* The breaker opens only after its closed generation has let through five calls that
\* ended in infrastructure errors, however business errors, cancelled calls and the late
\* errors of earlier generations mix with them (isInfraError and ReadyToTrip;
\* breaker_test.go:60-62).
TripsOnlyOnInfra ==
    [][state = "closed" /\ state' = "open" => infra' >= TripAt]_breakerVars

\* When the service stays up, the breaker closes and stays closed, whatever
\* was in flight and even if clients cancel probes (MaxRequests and Timeout).
RecoversWhenHealthy == <>[]healthy => <>[](state = "closed")
=============================================================================
