\* A descriptor for every client: where every call is, and that it is answered.
CONSTANTS
  c1 = c1  c2 = c2  f1 = f1  f2 = f2  w1 = w1  w2 = w2
  Conns <- TwoConns
  Fds <- TwoFds
  ListenFd = ListenFd
  Workers <- TwoWorkers
  MaxTasks = 3
  MaxReqs = 2
  Kinds <- Calls
  Faults <- Segment
  None = None
SPECIFICATION FairSpec
INVARIANTS NothingLost DeafByOwnFault
PROPERTIES CallsAnswered ImplementsRpcService
CHECK_DEADLOCK FALSE
