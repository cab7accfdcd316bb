SPECIFICATION LimiterFairSpec
CONSTANTS
    IPs = {ip1, ip2}
    Requests = {q1, q2}
    Buckets = {b1, b2, b3}
    NoBucket = NoBucket
    Rate = 1
    Burst = 3
    IdleTTL = 4
    MaxPause = 2
INVARIANTS LimiterInv
PROPERTIES ImplementsTokenBucket IdleVisitorsLeave
