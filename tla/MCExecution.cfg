CONSTANTS
  MaxRequests = 2
  TokenLimit = 3
  MaxReserve = 2
  Receipts = {r1, r2}
  Outputs = {o1, o2}
  Collectors = {c1, c2}
  MaxTouches = 2
  MaxStops = 2
SPECIFICATION ExecutionSpec
INVARIANTS AllTypesOK RequestsAccounted RunIsWhole BytesKept
PROPERTIES CollectionIsDue ExecutionSettles
CHECK_DEADLOCK FALSE
