CONSTANTS
  r1 = r1
  p1 = p1
  h1 = h1
  Products = {p1}
  Requests = {r1}
  Handlers = {h1}
  NoOrder = NoOrder
  NoMessage = NoMessage
  Workers = {w1, w2}
  Cart <- MCCart
  InitialStock <- MCStock
  MaxRetry = 2
  BatchSize = 1
  Undecodable <- FirstLineCorrupt
  MaxFaults = 1
SPECIFICATION FlowSpec
PROPERTIES
  EveryRowSettles
  CancelledStockComesBack
CHECK_DEADLOCK FALSE
