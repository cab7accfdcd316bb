SPECIFICATION GatewaySpec
CONSTANTS
    r1 = r1
    r2 = r2
    ann = ann
    bob = bob
    Requests = {r1, r2}
    People = {ann, bob}
    Accounts <- MCAccounts
    Owner = 1
    Seeded <- MCSeeded
    Uses <- MCUses
    MaxReseeds = 1
CHECK_DEADLOCK FALSE
INVARIANTS GatewayTypeOK DefiniteAnswers ChangesAreOwn
PROPERTIES SessionEndsWithItsToken
