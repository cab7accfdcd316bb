CONSTANTS
  r1 = r1
  p1 = p1
  h1 = h1
  Products = {p1}
  Requests = {r1}
  Handlers = {h1, h2}
  NoOrder = NoOrder
  NoMessage = NoMessage
  Workers = {w1, w2}
  Cart <- MCCart
  InitialStock <- MCStock
  MaxRetry = 2
  BatchSize = 2
  Undecodable <- NoCorruption
  MaxFaults = 1
SYMMETRY Symmetry
SPECIFICATION FlowSpec
INVARIANTS
  AckHolds
  OneBatchPerCancel
  SentMeansApplied
  AppliedOnce
  DeadOnlyWhenExhausted
  DeadIsReported
PROPERTIES
  MarksOverwriteNothing
CHECK_DEADLOCK FALSE
