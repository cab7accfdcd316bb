CONSTANTS
  r1 = r1
  r2 = r2
  p1 = p1
  Products = {p1}
  Requests = {r1, r2}
  Handlers = {h1}
  NoOrder = NoOrder
  NoMessage = NoMessage
  Workers = {w1}
  Cart <- MCCart
  InitialStock <- MCStock
  NoForm = NoForm
  Extras <- MCExtras
  MaxUpdates = 1
  CommitUnknown = FALSE
  MaxRetry = 1
  BatchSize = 2
  Undecodable <- NoCorruption
  MaxFaults = 1
SPECIFICATION SystemSpec
INVARIANTS
  SystemTypeOK
  NoOversell
  LiveOrderKeepsStock
  AtMostOneRestore
  QuietBooksBalance
PROPERTIES
  ImplementsLedger
CHECK_DEADLOCK FALSE
