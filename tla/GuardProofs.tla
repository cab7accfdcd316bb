----------------------------- MODULE GuardProofs ----------------------------
(***************************************************************************)
(* What stands between the gateway's clients and the services.  The rate    *)
(* limiter implements one everlasting token bucket per address, for any     *)
(* number of addresses and requests, any rate and any burst that            *)
(* LimiterAssumption allows.  The breaker's counters stay below their       *)
(* thresholds, and it opens only on infrastructure errors, for any number   *)
(* of concurrent calls.                                                     *)
(***************************************************************************)
EXTENDS RateLimiter, Breaker, TLAPS

-----------------------------------------------------------------------------
(* The rate limiter *)

USE DEF Outside, Inside

\* Refilling keeps a bucket within its bounds and raises it by Rate or fills it.
LEMMA RefilledBounds ==
    ASSUME NEW n \in 0..Burst
    PROVE  /\ Refilled(n) \in 0..Burst
           /\ Refilled(n) = Burst \/ Refilled(n) = n + Rate
BY LimiterAssumption DEF Refilled

\* One second more in the bound on an idle bucket is one refill more.
LEMMA RateStep ==
    ASSUME NEW i \in Int
    PROVE  /\ Rate * i \in Int
           /\ Rate * (i + 1 - MaxPause) = Rate * (i - MaxPause) + Rate
           /\ i <= MaxPause => Rate * (i - MaxPause) <= 0
<1>. Rate \in Nat /\ MaxPause \in Nat
  BY LimiterAssumption
<1>1. Rate * (i + 1 - MaxPause) = Rate * (i - MaxPause) + Rate
  OBVIOUS
<1>2. i <= MaxPause => Rate * (i - MaxPause) <= 0
  OBVIOUS
<1>. QED  BY <1>1, <1>2

\* A visitor that clean-up removes has a full bucket.
LEMMA ExpiredIsFull ==
    ASSUME LimiterInv, NEW ip \in IPs, Expired(ip)
    PROVE  tokens[visitors[ip]] = Burst
<1>1. idle[ip] = IdleTTL + 1 /\ tokens[visitors[ip]] \in 0..Burst
  BY LimiterAssumption DEF LimiterInv, LimiterTypeOK, Expired
<1>2. Rate * (IdleTTL + 1 - MaxPause) >= Burst /\ Rate * (IdleTTL + 1 - MaxPause) \in Int
  BY LimiterAssumption, RateStep
<1>. QED  BY <1>1, <1>2, LimiterAssumption DEF LimiterInv, FullerWithAge, Expired

-----------------------------------------------------------------------------
LEMMA InitInv == ASSUME LimiterInit PROVE LimiterInv
BY LimiterAssumption DEF LimiterInit, LimiterInv, LimiterTypeOK, OwnBuckets, HeldIsCurrent, FullerWithAge

LEMMA KnownInv ==
    ASSUME LimiterInv, NEW q \in Requests, NEW ip \in IPs, Known(q, ip)
    PROVE  LimiterInv'
<1>. USE DEF LimiterInv
<1>1. LimiterTypeOK'
  BY LimiterAssumption DEF Known, Found, LimiterTypeOK
<1>2. OwnBuckets'
  BY DEF Known, Found, OwnBuckets
<1>3. HeldIsCurrent'
  BY LimiterAssumption DEF Known, Found, HeldIsCurrent, OwnBuckets, LimiterTypeOK
<1>4. FullerWithAge'
  <2>. SUFFICES ASSUME NEW i \in IPs, visitors'[i] # NoBucket
                PROVE  tokens'[visitors'[i]] = Burst \/ tokens'[visitors'[i]] >= Rate * (idle'[i] - MaxPause)
    BY DEF FullerWithAge
  <2>1. CASE i = ip
    <3>1. idle'[i] = 0 /\ tokens'[visitors'[i]] \in Nat
      BY <2>1 DEF Known, Found, LimiterTypeOK
    <3>2. Rate * (0 - MaxPause) <= 0 /\ Rate * (0 - MaxPause) \in Int
      BY RateStep, LimiterAssumption
    <3>. QED  BY <3>1, <3>2
  <2>2. CASE i # ip
    BY <2>2 DEF Known, Found, LimiterTypeOK, FullerWithAge
  <2>. QED  BY <2>1, <2>2
<1>. QED  BY <1>1, <1>2, <1>3, <1>4

LEMMA NewVisitorInv ==
    ASSUME LimiterInv, NEW q \in Requests, NEW ip \in IPs, NewVisitor(q, ip)
    PROVE  LimiterInv'
<1>. USE DEF LimiterInv
<1>. PICK b \in Buckets : /\ Unused(b)
                         /\ visitors' = [visitors EXCEPT ![ip] = b]
                         /\ tokens' = [tokens EXCEPT ![b] = Burst]
                         /\ Found(q, ip, b)
  BY DEF NewVisitor
<1>. ~Inside(q) /\ visitors[ip] = NoBucket
  BY DEF NewVisitor
<1>1. LimiterTypeOK'
  BY LimiterAssumption DEF Found, LimiterTypeOK
<1>2. OwnBuckets'
  BY DEF Found, OwnBuckets, Unused, LimiterTypeOK
<1>3. HeldIsCurrent'
  BY LimiterAssumption DEF Found, HeldIsCurrent, OwnBuckets, LimiterTypeOK
<1>4. FullerWithAge'
  BY DEF Found, Unused, LimiterTypeOK, FullerWithAge
<1>. QED  BY <1>1, <1>2, <1>3, <1>4

\* A request on its way out had a bucket of the map, whose address was seen
\* at most MaxPause seconds ago.
LEMMA HeldFacts ==
    ASSUME LimiterInv, NEW q \in Requests, Inside(q)
    PROVE  /\ req[q].ip \in IPs /\ req[q].bucket \in Buckets
           /\ visitors[req[q].ip] = req[q].bucket
           /\ idle[req[q].ip] <= MaxPause
BY LimiterAssumption DEF LimiterInv, LimiterTypeOK, HeldIsCurrent

LEMMA AllowInv ==
    ASSUME LimiterInv, NEW q \in Requests, Allow(q)
    PROVE  LimiterInv'
<1>. USE DEF LimiterInv
<1>. Inside(q)
  BY DEF Allow
<1>1. LimiterTypeOK'
  BY HeldFacts, LimiterAssumption DEF Allow, Leave, LimiterTypeOK
<1>2. OwnBuckets'
  BY DEF Allow, OwnBuckets
<1>3. HeldIsCurrent'
  BY DEF Allow, Leave, HeldIsCurrent, LimiterTypeOK
<1>4. FullerWithAge'
  <2>. SUFFICES ASSUME NEW i \in IPs, visitors[i] # NoBucket
                PROVE  tokens'[visitors[i]] = Burst \/ tokens'[visitors[i]] >= Rate * (idle[i] - MaxPause)
    BY DEF Allow, FullerWithAge
  <2>1. CASE i = req[q].ip
    <3>1. tokens'[visitors[i]] \in Nat
      BY <1>1, <2>1, HeldFacts DEF Allow, LimiterTypeOK
    <3>2. idle[i] \in Int /\ idle[i] <= MaxPause
      BY <2>1, HeldFacts, LimiterAssumption DEF LimiterTypeOK
    <3>3. Rate * (idle[i] - MaxPause) <= 0 /\ Rate * (idle[i] - MaxPause) \in Int
      BY <3>2, RateStep, LimiterAssumption
    <3>. QED  BY <3>1, <3>3
  <2>2. CASE i # req[q].ip
    <3>1. visitors[i] # req[q].bucket /\ visitors[i] \in Buckets
      BY <2>2, HeldFacts DEF OwnBuckets, LimiterTypeOK
    <3>2. tokens'[visitors[i]] = tokens[visitors[i]]
      BY <3>1, HeldFacts DEF Allow, LimiterTypeOK
    <3>. QED  BY <3>2 DEF FullerWithAge
  <2>. QED  BY <2>1, <2>2
<1>. QED  BY <1>1, <1>2, <1>3, <1>4

LEMMA RefuseInv ==
    ASSUME LimiterInv, NEW q \in Requests, Refuse(q)
    PROVE  LimiterInv'
<1>. USE DEF LimiterInv
<1>1. LimiterTypeOK'
  BY DEF Refuse, Leave, LimiterTypeOK
<1>2. HeldIsCurrent'
  BY DEF Refuse, Leave, HeldIsCurrent, LimiterTypeOK
<1>. QED  BY <1>1, <1>2 DEF Refuse, OwnBuckets, FullerWithAge

LEMMA CleanupInv ==
    ASSUME LimiterInv, Cleanup
    PROVE  LimiterInv'
<1>. USE DEF LimiterInv
<1>1. LimiterTypeOK'
  BY DEF Cleanup, LimiterTypeOK
<1>2. OwnBuckets'
  BY DEF Cleanup, OwnBuckets
<1>3. HeldIsCurrent'
  <2>. SUFFICES ASSUME NEW q \in Requests, Inside(q)
                PROVE  visitors'[req[q].ip] = req[q].bucket
    BY DEF Cleanup, HeldIsCurrent
  <2>1. ~Expired(req[q].ip)
    BY HeldFacts, LimiterAssumption DEF Expired, LimiterTypeOK
  <2>. QED  BY <2>1, HeldFacts DEF Cleanup
<1>4. FullerWithAge'
  BY DEF Cleanup, FullerWithAge
<1>. QED  BY <1>1, <1>2, <1>3, <1>4

LEMMA TickInv ==
    ASSUME LimiterInv, Tick
    PROVE  LimiterInv'
<1>. USE DEF LimiterInv
<1>. IdleTTL \in Nat /\ MaxPause \in Nat /\ Rate \in Nat /\ Burst \in Nat
  BY LimiterAssumption
<1>1. LimiterTypeOK'
  <2>1. tokens' \in [Buckets -> 0..Burst]
    BY RefilledBounds DEF Tick, LimiterTypeOK
  <2>2. idle' \in [IPs -> 0..IdleTTL + 1]
    BY DEF Tick, LimiterTypeOK, Older
  <2>3. req' \in [Requests -> [ip : IPs, bucket : Buckets, waited : 0..MaxPause] \cup {Outside}]
    BY DEF Tick, LimiterTypeOK
  <2>. QED  BY <2>1, <2>2, <2>3 DEF Tick, LimiterTypeOK
<1>2. OwnBuckets'
  BY DEF Tick, OwnBuckets
<1>3. HeldIsCurrent'
  BY LimiterAssumption DEF Tick, HeldIsCurrent, LimiterTypeOK, Older
<1>4. FullerWithAge'
  <2>. SUFFICES ASSUME NEW i \in IPs, visitors[i] # NoBucket
                PROVE  tokens'[visitors[i]] = Burst \/ tokens'[visitors[i]] >= Rate * (idle'[i] - MaxPause)
    BY DEF Tick, FullerWithAge
  <2>. DEFINE v == visitors[i]
  <2>1. v \in Buckets /\ tokens[v] \in 0..Burst /\ tokens'[v] = Refilled(tokens[v])
    BY DEF Tick, LimiterTypeOK
  <2>2. tokens'[v] = Burst \/ tokens'[v] = tokens[v] + Rate
    BY <2>1, RefilledBounds
  <2>3. tokens[v] = Burst => tokens'[v] = Burst
    BY <2>1 DEF Refilled
  <2>4. /\ idle[i] \in Int /\ (idle'[i] = idle[i] \/ idle'[i] = idle[i] + 1)
        /\ Rate * (idle[i] - MaxPause) \in Int
    BY RateStep DEF Tick, Older, LimiterTypeOK
  <2>5. Rate * (idle'[i] - MaxPause) <= Rate * (idle[i] - MaxPause) + Rate
    BY <2>4, RateStep
  <2>6. Rate * (idle'[i] - MaxPause) \in Int
    BY <2>4, RateStep
  <2>7. tokens[v] = Burst \/ tokens[v] >= Rate * (idle[i] - MaxPause)
    BY DEF FullerWithAge
  <2>. HIDE DEF v
  <2>8. tokens'[v] = Burst \/ tokens'[v] >= Rate * (idle'[i] - MaxPause)
    BY <2>1, <2>2, <2>3, <2>4, <2>5, <2>6, <2>7
  <2>. QED  BY <2>8 DEF v
<1>. QED  BY <1>1, <1>2, <1>3, <1>4

LEMMA NextInv == ASSUME LimiterInv, [LimiterNext]_limiterVars PROVE LimiterInv'
<1>1. CASE LimiterNext
  BY <1>1, KnownInv, NewVisitorInv, AllowInv, RefuseInv, CleanupInv, TickInv DEF LimiterNext
<1>2. CASE UNCHANGED limiterVars
  BY <1>2 DEF limiterVars, LimiterInv, LimiterTypeOK, OwnBuckets, HeldIsCurrent, FullerWithAge
<1>. QED  BY <1>1, <1>2

\* The map, the idle times and the buckets stay consistent while requests,
\* clean-up and the clock interleave (allow and cleanupLoop, ratelimit.go:56-85).
THEOREM LimiterSafe == LimiterSpec => []LimiterInv
<1>. QED  BY InitInv, NextInv, PTL DEF LimiterSpec

-----------------------------------------------------------------------------
LEMMA AllowAdmits ==
    ASSUME LimiterInv, NEW q \in Requests, Allow(q)
    PROVE  Ideal!Admit(req[q].ip)
<1>. DEFINE ip == req[q].ip
<1>1. /\ ip \in IPs /\ visitors[ip] = req[q].bucket /\ req[q].bucket \in Buckets
      /\ Inside(q)
  BY HeldFacts DEF Allow
<1>2. visitors[ip] # NoBucket
  BY <1>1, LimiterAssumption
<1>3. Level[ip] > 0
  BY <1>1, <1>2 DEF Level, Allow
<1>4. Level' = [Level EXCEPT ![ip] = @ - 1]
  <2>. SUFFICES ASSUME NEW i \in IPs
                PROVE  Level'[i] = IF i = ip THEN Level[i] - 1 ELSE Level[i]
    BY <1>1 DEF Level
  <2>1. CASE i = ip
    BY <2>1, <1>1, <1>2 DEF Level, Allow, LimiterInv, LimiterTypeOK
  <2>2. CASE i # ip
    BY <2>2, <1>1, <1>2 DEF Level, Allow, LimiterInv, LimiterTypeOK, OwnBuckets
  <2>. QED  BY <2>1, <2>2
<1>. QED  BY <1>3, <1>4 DEF Ideal!Admit

LEMMA TickRefills ==
    ASSUME LimiterInv, Tick
    PROVE  Ideal!Refill
<1>. SUFFICES ASSUME NEW i \in IPs
              PROVE  Level'[i] = Ideal!Filled(Level[i])
  BY DEF Ideal!Refill, Level
<1>1. CASE visitors[i] = NoBucket
  BY <1>1, LimiterAssumption DEF Tick, Level, Ideal!Filled
<1>2. CASE visitors[i] # NoBucket
  BY <1>2 DEF Tick, Level, Ideal!Filled, Refilled, LimiterInv, LimiterTypeOK
<1>. QED  BY <1>1, <1>2

LEMMA OthersStutter ==
    ASSUME LimiterInv,
           \/ \E q \in Requests, ip \in IPs : Known(q, ip) \/ NewVisitor(q, ip)
           \/ \E q \in Requests : Refuse(q)
           \/ Cleanup
           \/ UNCHANGED limiterVars
    PROVE  UNCHANGED Level
<1>1. ASSUME NEW q \in Requests, NEW ip \in IPs, Known(q, ip) PROVE UNCHANGED Level
  BY <1>1 DEF Known, Level
<1>2. ASSUME NEW q \in Requests, NEW ip \in IPs, NewVisitor(q, ip) PROVE UNCHANGED Level
  <2>1. PICK b \in Buckets : /\ Unused(b)
                            /\ visitors' = [visitors EXCEPT ![ip] = b]
                            /\ tokens' = [tokens EXCEPT ![b] = Burst]
    BY <1>2 DEF NewVisitor
  <2>2. visitors[ip] = NoBucket /\ b # NoBucket
    BY <1>2, LimiterAssumption DEF NewVisitor
  <2>. SUFFICES ASSUME NEW i \in IPs PROVE Level'[i] = Level[i]
    BY DEF Level
  <2>. QED  BY <2>1, <2>2 DEF Level, Unused, LimiterInv, LimiterTypeOK
<1>3. ASSUME NEW q \in Requests, Refuse(q) PROVE UNCHANGED Level
  BY <1>3 DEF Refuse, Level
<1>4. ASSUME Cleanup PROVE UNCHANGED Level
  BY <1>4, ExpiredIsFull DEF Cleanup, Level
<1>5. ASSUME UNCHANGED limiterVars PROVE UNCHANGED Level
  BY <1>5 DEF limiterVars, Level
<1>. QED  BY <1>1, <1>2, <1>3, <1>4, <1>5

\* Clean-up is not observable (the claim of ratelimit.go:17-19): the limiter
\* admits exactly what one everlasting bucket per address would admit.
THEOREM LimiterImplementsTokenBucket == LimiterSpec => ImplementsTokenBucket
<1>1. LimiterInit => Ideal!Init
  BY DEF LimiterInit, Ideal!Init, Level
<1>2. LimiterInv /\ [LimiterNext]_limiterVars => [Ideal!Next]_Level
  <2>. SUFFICES ASSUME LimiterInv, [LimiterNext]_limiterVars PROVE [Ideal!Next]_Level
    OBVIOUS
  <2>1. ASSUME NEW q \in Requests, Allow(q) PROVE Ideal!Next
    <3>1. req[q].ip \in IPs
      BY <2>1, HeldFacts DEF Allow
    <3>. QED  BY <2>1, <3>1, AllowAdmits DEF Ideal!Next
  <2>2. ASSUME Tick PROVE Ideal!Next
    BY <2>2, TickRefills DEF Ideal!Next
  <2>. QED  BY <2>1, <2>2, OthersStutter DEF LimiterNext
<1>. QED  BY <1>1, <1>2, LimiterSafe, PTL DEF LimiterSpec, ImplementsTokenBucket, Ideal!Spec

-----------------------------------------------------------------------------
(* The circuit breaker *)

\* The failures that a closed generation has counted are errors of its own calls.
FailuresAreOwn == state = "closed" => counts.failures <= infra

BreakerInv == BreakerTypeOK /\ FailuresAreOwn

Counters == [requests : 0..3, failures : 0..4, successes : 0..3]
CallStates == {"none", "current", "old"}

LEMMA CountersAre ==
    [requests : 0..MaxRequests, failures : 0..TripAt - 1, successes : 0..MaxRequests] = Counters
BY DEF MaxRequests, TripAt, Counters

LEMMA ZeroIsCounter == Zero \in Counters /\ Zero.failures = 0
BY DEF Zero, Counters

LEMMA CountedIs ==
    ASSUME NEW k \in Counters, NEW f \in 0..4, NEW n \in 0..3
    PROVE  /\ [k EXCEPT !.failures = f, !.successes = n] \in Counters
           /\ [k EXCEPT !.failures = f, !.successes = n].failures = f
<1>1. /\ [k EXCEPT !.failures = f] \in Counters
      /\ [k EXCEPT !.failures = f].failures = f
    BY DEF Counters
<1>2. ASSUME NEW j \in Counters
      PROVE  /\ [j EXCEPT !.successes = n] \in Counters
             /\ [j EXCEPT !.successes = n].failures = j.failures
    BY DEF Counters
<1> QED BY <1>1, <1>2

\* Whoever was in flight is of an older generation afterwards.
LEMMA NewGenerationIs ==
    ASSUME NEW s \in {"closed", "open", "half-open"}, NEW inFlight \in [Calls -> CallStates],
           NewGeneration(s, inFlight)
    PROVE  /\ state' = s /\ counts' \in Counters /\ counts'.failures = 0
           /\ calls' \in [Calls -> CallStates] /\ \A c \in Calls : calls'[c] # "current"
BY ZeroIsCounter DEF NewGeneration, CallStates

\* A call in flight can only be current while its generation takes calls.
LEMMA AnswerStep ==
    ASSUME BreakerInv, NEW c \in Calls, Answer(c)
    PROVE  BreakerInv' /\ (state = "closed" /\ state' = "open" => infra' >= TripAt)
<1>1. /\ state \in {"closed", "open", "half-open"} /\ counts \in Counters
      /\ calls \in [Calls -> CallStates] /\ infra \in 0..5
      /\ state = "open" => \A d \in Calls : calls[d] # "current"
      /\ state = "closed" => counts.failures <= infra
    BY CountersAre DEF BreakerInv, BreakerTypeOK, FailuresAreOwn, TripAt, CallStates
<1> DEFINE inFlight == [calls EXCEPT ![c] = "none"]
<1>2. PICK a \in Answers :
        /\ \/ calls[c] = "old" /\ calls' = inFlight /\ UNCHANGED <<state, counts>>
           \/ calls[c] = "current" /\ IsInfraError(a) /\ Failure(inFlight)
           \/ calls[c] = "current" /\ ~IsInfraError(a) /\ Success(inFlight)
        /\ Noted(c, a)
    BY DEF Answer
<1>3. /\ inFlight \in [Calls -> CallStates]
      /\ \A d \in Calls : inFlight[d] = "current" => calls[d] = "current"
    BY <1>1 DEF CallStates
<1>4. infra' = IF state # "closed" /\ state' = "closed" THEN 0
               ELSE IF infra + (IF calls[c] = "current" /\ a = "infra" THEN 1 ELSE 0) < 5
                    THEN infra + (IF calls[c] = "current" /\ a = "infra" THEN 1 ELSE 0) ELSE 5
    BY <1>2 DEF Noted, UpTo, TripAt
<1>5. infra' \in 0..5
    BY <1>1, <1>4
<1>6. SUFFICES /\ state' \in {"closed", "open", "half-open"} /\ counts' \in Counters
               /\ calls' \in [Calls -> CallStates]
               /\ state' = "open" => \A d \in Calls : calls'[d] # "current"
               /\ state' = "closed" => counts'.failures <= infra'
               /\ state = "closed" /\ state' = "open" => infra' >= 5
    BY <1>5, CountersAre DEF BreakerInv, BreakerTypeOK, FailuresAreOwn, TripAt, CallStates
<1>7. CASE calls[c] = "old" /\ calls' = inFlight /\ UNCHANGED <<state, counts>>
    <2>1. state = "closed" => infra <= infra'
        BY <1>1, <1>4, <1>7
    <2>2. counts.failures \in Nat
        BY <1>1 DEF Counters
    <2> QED BY <1>1, <1>3, <1>5, <1>7, <2>1, <2>2
<1>8. CASE calls[c] = "current" /\ IsInfraError(a) /\ Failure(inFlight)
    <2>1. state # "open" /\ a = "infra" /\ calls[c] = "current"
        BY <1>1, <1>8 DEF IsInfraError
    <2>2. CASE state = "half-open" \/ ReadyToTrip(counts.failures + 1)
        <3>1. NewGeneration("open", inFlight)
            BY <1>8, <2>2 DEF Failure
        <3>2. state = "closed" => counts.failures + 1 >= 5
            BY <2>2 DEF ReadyToTrip, TripAt
        <3>3. state = "closed" => infra' >= 5
            BY <1>1, <1>4, <2>1, <3>1, <3>2 DEF Counters, NewGeneration
        <3> QED BY <1>3, <3>1, <3>3, NewGenerationIs
    <2>3. CASE ~(state = "half-open" \/ ReadyToTrip(counts.failures + 1))
        <3>1. /\ state = "closed" /\ state' = state /\ calls' = inFlight
              /\ counts' = [counts EXCEPT !.failures = counts.failures + 1, !.successes = 0]
            BY <1>1, <1>8, <2>1, <2>3 DEF Failure
        <3>2. counts.failures \in Nat /\ counts.failures + 1 < 5
            BY <1>1, <2>3 DEF ReadyToTrip, TripAt, Counters
        <3>3. counts' \in Counters /\ counts'.failures = counts.failures + 1
            <4>1. counts.failures + 1 \in 0..4
                BY <3>2
            <4>2. 0 \in 0..3
                OBVIOUS
            <4> QED BY <1>1, <3>1, <4>1, <4>2, CountedIs, Zenon
        <3>4. counts'.failures <= infra'
            BY <1>1, <1>4, <2>1, <3>1, <3>2, <3>3
        <3> QED BY <1>3, <3>1, <3>3, <3>4
    <2> QED BY <2>2, <2>3
<1>9. CASE calls[c] = "current" /\ ~IsInfraError(a) /\ Success(inFlight)
    <2>1. state # "open" /\ a # "infra"
        BY <1>1, <1>9 DEF IsInfraError
    <2>2. CASE state = "half-open" /\ counts.successes + 1 >= MaxRequests
        <3>1. NewGeneration("closed", inFlight)
            BY <1>9, <2>2 DEF Success
        <3>2. /\ state' = "closed" /\ counts' \in Counters /\ counts'.failures = 0
              /\ calls' \in [Calls -> CallStates]
            BY <1>3, <3>1, NewGenerationIs
        <3> QED BY <1>5, <3>2
    <2>3. CASE ~(state = "half-open" /\ counts.successes + 1 >= MaxRequests)
        <3>1. /\ state' = state /\ calls' = inFlight
              /\ counts' = [counts EXCEPT !.failures = 0,
                                          !.successes = UpTo(counts.successes + 1, MaxRequests)]
            BY <1>9, <2>3 DEF Success
        <3>2. UpTo(counts.successes + 1, MaxRequests) \in 0..3
            BY <1>1 DEF UpTo, MaxRequests, Counters
        <3>3. counts' \in Counters /\ counts'.failures = 0
            <4>1. PICK n \in 0..3 : n = UpTo(counts.successes + 1, MaxRequests)
                BY <3>2
            <4>2. counts' = [counts EXCEPT !.failures = 0, !.successes = n]
                BY <3>1, <4>1
            <4>3. 0 \in 0..4
                OBVIOUS
            <4> QED BY <1>1, <4>2, <4>3, CountedIs, Zenon
        <3> QED BY <1>1, <1>3, <1>5, <2>1, <3>1, <3>3
    <2> QED BY <2>2, <2>3
<1> QED BY <1>2, <1>7, <1>8, <1>9

\* A call that is admitted, and time, count nothing.
LEMMA OtherStep ==
    ASSUME BreakerInv,
           (\E c \in Calls : Admit(c)) \/ IntervalEnds \/ TimeoutEnds \/ Flip \/ UNCHANGED breakerVars
    PROVE  BreakerInv' /\ ~(state = "closed" /\ state' = "open")
<1>1. /\ state \in {"closed", "open", "half-open"} /\ counts \in Counters
      /\ calls \in [Calls -> CallStates] /\ infra \in 0..5
      /\ state = "open" => \A d \in Calls : calls[d] # "current"
      /\ state = "closed" => counts.failures <= infra
    BY CountersAre DEF BreakerInv, BreakerTypeOK, FailuresAreOwn, TripAt, CallStates
<1>2. SUFFICES /\ state' \in {"closed", "open", "half-open"} /\ counts' \in Counters
               /\ calls' \in [Calls -> CallStates] /\ infra' \in 0..5
               /\ state' = "open" => \A d \in Calls : calls'[d] # "current"
               /\ state' = "closed" => counts'.failures <= infra'
               /\ ~(state = "closed" /\ state' = "open")
    BY CountersAre DEF BreakerInv, BreakerTypeOK, FailuresAreOwn, TripAt, CallStates
<1>3. CASE \E c \in Calls : Admit(c)
    <2>1. PICK c \in Calls : Admit(c)
        BY <1>3
    <2>2. /\ state' = state /\ infra' = infra /\ state # "open"
          /\ calls' = [calls EXCEPT ![c] = "current"]
          /\ counts' = [counts EXCEPT !.requests = UpTo(counts.requests + 1, MaxRequests)]
        BY <2>1 DEF Admit
    <2>3. UpTo(counts.requests + 1, MaxRequests) \in 0..3
        BY <1>1 DEF UpTo, MaxRequests, Counters
    <2>4. counts' \in Counters /\ counts'.failures = counts.failures
        BY <1>1, <2>2, <2>3 DEF Counters
    <2>5. calls' \in [Calls -> CallStates]
        BY <1>1, <2>2 DEF CallStates
    <2> QED BY <1>1, <2>2, <2>4, <2>5
<1>4. CASE IntervalEnds
    <2>1. NewGeneration("closed", calls) /\ infra' = 0
        BY <1>4 DEF IntervalEnds
    <2> QED BY <1>1, <2>1, NewGenerationIs
<1>5. CASE TimeoutEnds
    <2>1. NewGeneration("half-open", calls) /\ infra' = infra /\ state = "open"
        BY <1>5 DEF TimeoutEnds
    <2> QED BY <1>1, <2>1, NewGenerationIs
<1>6. CASE Flip \/ UNCHANGED breakerVars
    BY <1>1, <1>6 DEF Flip, breakerVars
<1> QED BY <1>3, <1>4, <1>5, <1>6

LEMMA BreakerStep ==
    ASSUME BreakerInv, [BreakerNext]_breakerVars
    PROVE  BreakerInv' /\ (state = "closed" /\ state' = "open" => infra' >= TripAt)
BY AnswerStep, OtherStep DEF BreakerNext

LEMMA BreakerHolds == BreakerSpec => []BreakerInv
<1>1. BreakerInit => BreakerInv
    <2> SUFFICES ASSUME BreakerInit PROVE BreakerInv
        OBVIOUS
    <2>1. counts \in Counters /\ counts.failures = 0
        BY ZeroIsCounter DEF BreakerInit
    <2>2. /\ state = "closed" /\ infra = 0 /\ calls \in [Calls -> {"none", "current", "old"}]
        BY DEF BreakerInit
    <2>3. BreakerTypeOK
        <3>1. infra \in 0..TripAt
            BY <2>2 DEF TripAt
        <3>2. counts \in [requests : 0..MaxRequests, failures : 0..TripAt - 1,
                          successes : 0..MaxRequests]
            BY <2>1, CountersAre
        <3> QED BY <2>2, <3>1, <3>2 DEF BreakerTypeOK
    <2>4. FailuresAreOwn
        BY <2>1, <2>2 DEF FailuresAreOwn
    <2> QED BY <2>3, <2>4 DEF BreakerInv
<1>2. BreakerInv /\ [BreakerNext]_breakerVars => BreakerInv'
    BY BreakerStep
<1> QED BY <1>1, <1>2, PTL DEF BreakerSpec

-----------------------------------------------------------------------------
\* In every reachable state no counter has passed its threshold, and an open breaker
\* has no call of its own generation (gobreaker's counts, breaker.go:14-34).
THEOREM CountersStayBelow == BreakerSpec => []BreakerTypeOK
<1>1. BreakerInv => BreakerTypeOK
    BY DEF BreakerInv
<1> QED BY <1>1, BreakerHolds, PTL

\* However many calls overlap, the breaker opens only after five infrastructure errors
\* of calls that its closed generation let through (isInfraError and ReadyToTrip).
THEOREM OpensOnInfraOnly == BreakerSpec => TripsOnlyOnInfra
<1>1. BreakerInv /\ [BreakerNext]_breakerVars
        => [state = "closed" /\ state' = "open" => infra' >= TripAt]_breakerVars
    BY BreakerStep
<1> QED BY <1>1, BreakerHolds, PTL DEF BreakerSpec, TripsOnlyOnInfra
=============================================================================
