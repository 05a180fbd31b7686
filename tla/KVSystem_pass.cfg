\* Reads and writes of one client race with the writes of another.
CONSTANTS
  w1 = w1  w2 = w2  p1 = p1
  Workers <- TwoWorkers
  Peers <- OnePeer
  Keys <- SomeKeys
  Values <- SomeValues
  MaxCalls <- FewCalls
  None = None
SPECIFICATION FairSpec
INVARIANTS TypeOK MapsExclusive ReadsAreRegular InsertedOnce
PROPERTY ClientEnds
CHECK_DEADLOCK FALSE
