\* Ids and names at the edges of their encodings, requests back to back.
CONSTANTS
  Ids <- SomeIds
  Names <- SomeNames
  Leftovers <- SomeLeftovers
  MaxCalls = 2
SPECIFICATION Spec
INVARIANTS RequestsIntact ResultsIntact
CHECK_DEADLOCK FALSE
