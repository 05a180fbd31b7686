\* A destructor that runs before its network thread has entered Main.
CONSTANTS
  w1 = w1  w2 = w2  p1 = p1
  Workers <- TwoWorkers
  Peers <- OnePeer
  Keys <- SomeKeys
  Values <- SomeValues
  MaxCalls <- FewCalls
  None = None
SPECIFICATION Spec
INVARIANT MainOnLiveClient
CHECK_DEADLOCK FALSE
