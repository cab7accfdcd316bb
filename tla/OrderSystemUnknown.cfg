CONSTANTS
  r1 = r1
  r2 = r2
  p1 = p1
  Products = {p1}
  Requests = {r1, r2}
  Handlers = {h1, h2}
  NoOrder = NoOrder
  NoMessage = NoMessage
  Workers = {w1}
  Cart <- MCCart
  InitialStock <- MCStock
  NoForm = NoForm
  Extras <- MCExtras
  MaxUpdates = 0
  CommitUnknown = TRUE
  MaxRetry = 2
  BatchSize = 2
  Undecodable <- NoCorruption
  MaxFaults = 1
SYMMETRY Symmetry
SPECIFICATION SystemSpec
INVARIANTS
  AtMostOneRestore
CHECK_DEADLOCK FALSE
