CONSTANTS
  r1 = r1
  r2 = r2
  p1 = p1
  p2 = p2
  Products = {p1, p2}
  Requests = {r1, r2}
  Handlers = {}
  Cart <- MCCart
  InitialStock <- MCStock
  MaxRetry = 1
  CommitUnknown = TRUE
SPECIFICATION SagaSpec
INVARIANTS
  RefusedLeaksNothing
PROPERTIES
  CreateOrderEnds
CHECK_DEADLOCK FALSE
