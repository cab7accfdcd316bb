SPECIFICATION BreakerFairSpec
CONSTANTS
    Calls = {c1, c2, c3}
INVARIANTS BreakerTypeOK
PROPERTIES TripsOnlyOnInfra RecoversWhenHealthy
