---------------------------- MODULE RateLimiter ----------------------------
(***************************************************************************)
(* The gateway's rate limiter, internal/gateway/middleware/ratelimit.go:   *)
(* the map of visitors, the two halves of allow (look the bucket up under  *)
(* the mutex, take a token outside it) and the clean-up goroutine.  A      *)
(* bucket is an object of its own: a request keeps the pointer it found.   *)
(* Time passes in seconds.                                                 *)
(***************************************************************************)
EXTENDS Integers

CONSTANTS IPs,        \* client addresses
          Requests,   \* request goroutines
          Buckets,    \* limiter objects
          NoBucket,
          Rate,       \* rateLimitPerSecond
          Burst,      \* rateLimitBurst
          IdleTTL,    \* visitorIdleTTL
          MaxPause    \* seconds a goroutine may rest between the halves of allow

\* The comment at ratelimit.go:17-19 relies on a bucket being full again long
\* before its visitor is removed; this is what that takes.
ASSUME LimiterAssumption ==
    /\ Rate \in Nat /\ Burst \in Nat \ {0}
    /\ IdleTTL \in Nat /\ MaxPause \in 0..IdleTTL
    /\ Rate * (IdleTTL + 1 - MaxPause) >= Burst
    /\ NoBucket \notin Buckets

VARIABLES visitors,   \* address -> its bucket, or NoBucket
          idle,       \* address -> seconds since lastSeen, up to IdleTTL + 1
          tokens,     \* bucket -> tokens in it
          req         \* request -> what it holds, or Outside

limiterVars == <<visitors, idle, tokens, req>>

Outside == [ip |-> NoBucket, bucket |-> NoBucket, waited |-> 0]
Inside(q) == req[q] # Outside

LimiterInit ==
    /\ visitors = [ip \in IPs |-> NoBucket]
    /\ idle = [ip \in IPs |-> 0]
    /\ tokens = [b \in Buckets |-> Burst]
    /\ req = [q \in Requests |-> Outside]

Unused(b) == /\ \A ip \in IPs : visitors[ip] # b
             /\ \A q \in Requests : req[q].bucket # b

\* A bug to catch: lastSeen of a known visitor is not refreshed.
FoundUnseen(q, ip, b) ==
    /\ UNCHANGED idle
    /\ req' = [req EXCEPT ![q] = [ip |-> ip, bucket |-> b, waited |-> 0]]

\* The locked half of allow for a request of address ip that uses bucket b.
Found(q, ip, b) ==
    /\ idle' = [idle EXCEPT ![ip] = 0]
    /\ req' = [req EXCEPT ![q] = [ip |-> ip, bucket |-> b, waited |-> 0]]

Known(q, ip) ==
    /\ ~Inside(q) /\ visitors[ip] # NoBucket
    /\ Found(q, ip, visitors[ip])
    /\ UNCHANGED <<visitors, tokens>>

NewVisitor(q, ip) ==
    /\ ~Inside(q) /\ visitors[ip] = NoBucket
    /\ \E b \in Buckets :
         /\ Unused(b)
         /\ visitors' = [visitors EXCEPT ![ip] = b]
         /\ tokens' = [tokens EXCEPT ![b] = Burst]
         /\ Found(q, ip, b)

Leave(q) == req' = [req EXCEPT ![q] = Outside]

\* limiter.Allow() outside the mutex: one token, or 429.
Allow(q) ==
    /\ Inside(q) /\ tokens[req[q].bucket] > 0
    /\ tokens' = [tokens EXCEPT ![req[q].bucket] = @ - 1]
    /\ Leave(q)
    /\ UNCHANGED <<visitors, idle>>

Refuse(q) ==
    /\ Inside(q) /\ tokens[req[q].bucket] = 0
    /\ Leave(q)
    /\ UNCHANGED <<visitors, idle, tokens>>

\* Bugs to catch: an idle time too short for the bucket to fill, and no expiry.
ExpiredEarly(ip) == visitors[ip] # NoBucket /\ idle[ip] > MaxPause
ExpiredNever(ip) == visitors[ip] # NoBucket /\ idle[ip] > IdleTTL + 1

\* One sweep of cleanupLoop, under the mutex.
Expired(ip) == visitors[ip] # NoBucket /\ idle[ip] > IdleTTL

Cleanup ==
    /\ \E ip \in IPs : Expired(ip)
    /\ visitors' = [ip \in IPs |-> IF Expired(ip) THEN NoBucket ELSE visitors[ip]]
    /\ UNCHANGED <<idle, tokens, req>>

\* A second passes for every bucket, address and waiting request.
Refilled(n) == IF n + Rate < Burst THEN n + Rate ELSE Burst
Older(n) == IF n <= IdleTTL THEN n + 1 ELSE n

Tick ==
    /\ \A q \in Requests : req[q].waited < MaxPause
    /\ tokens' = [b \in Buckets |-> Refilled(tokens[b])]
    /\ idle' = [ip \in IPs |-> Older(idle[ip])]
    /\ req' = [q \in Requests |->
                 IF Inside(q) THEN [req[q] EXCEPT !.waited = @ + 1] ELSE req[q]]
    /\ UNCHANGED visitors

LimiterNext ==
    \/ \E q \in Requests, ip \in IPs : Known(q, ip) \/ NewVisitor(q, ip)
    \/ \E q \in Requests : Allow(q) \/ Refuse(q)
    \/ Cleanup
    \/ Tick

LimiterSpec == LimiterInit /\ [][LimiterNext]_limiterVars

\* Requests finish, the ticker of cleanupLoop fires, time passes.
LimiterFairSpec ==
    /\ LimiterSpec
    /\ \A q \in Requests : WF_limiterVars(Allow(q) \/ Refuse(q))
    /\ WF_limiterVars(Cleanup) /\ WF_limiterVars(Tick)

-----------------------------------------------------------------------------
LimiterTypeOK ==
    /\ visitors \in [IPs -> Buckets \cup {NoBucket}]
    /\ idle \in [IPs -> 0..IdleTTL + 1]
    /\ tokens \in [Buckets -> 0..Burst]
    /\ req \in [Requests -> [ip : IPs, bucket : Buckets, waited : 0..MaxPause] \cup {Outside}]

\* No bucket serves two addresses.
OwnBuckets == \A i, j \in IPs : visitors[i] = visitors[j] /\ i # j => visitors[i] = NoBucket

\* A request in the middle of allow holds the bucket that is in the map now,
\* so no token is taken from a bucket that clean-up has thrown away.
HeldIsCurrent ==
    \A q \in Requests : Inside(q) =>
        /\ visitors[req[q].ip] = req[q].bucket
        /\ idle[req[q].ip] <= req[q].waited

\* The older the last request of an address, the fuller its bucket.
FullerWithAge ==
    \A ip \in IPs : visitors[ip] # NoBucket =>
        \/ tokens[visitors[ip]] = Burst
        \/ tokens[visitors[ip]] >= Rate * (idle[ip] - MaxPause)

LimiterInv == LimiterTypeOK /\ OwnBuckets /\ HeldIsCurrent /\ FullerWithAge

\* Removing an idle visitor and giving the address a new bucket later is not
\* observable: the limiter admits exactly what one everlasting bucket for each
\* address would admit.
Level == [ip \in IPs |-> IF visitors[ip] = NoBucket THEN Burst ELSE tokens[visitors[ip]]]
Ideal == INSTANCE TokenBucket WITH level <- Level
ImplementsTokenBucket == Ideal!Spec

\* The map does not grow for ever: an address that stays away disappears from it.
IdleVisitorsLeave ==
    \A ip \in IPs : \/ []<>(\E q \in Requests : req[q].ip = ip)
                    \/ <>[](visitors[ip] = NoBucket)
=============================================================================
