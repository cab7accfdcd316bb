SPECIFICATION StartupFairSpec
CONSTANTS
    NoOne = NoOne
    MaxWait = 3
    MaxDelay = 2
    LockWait = 2
    Services = {user, product, order}
    MaxFaults = 3
INVARIANTS OverlapNeedsLoss
PROPERTIES EveryoneServes
