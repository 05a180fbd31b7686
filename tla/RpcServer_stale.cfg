\* A client leaves before its answer; its descriptor is used again.
CONSTANTS
  c1 = c1  c2 = c2  f1 = f1  f2 = f2  w1 = w1  w2 = w2
  Conns <- TwoConns
  Fds <- OneFd
  ListenFd = ListenFd
  Workers <- TwoWorkers
  MaxTasks = 2
  MaxReqs = 1
  Kinds <- Calls
  Faults <- Abandon
  None = None
SPECIFICATION Spec
INVARIANT ResultsReachTheirCaller
CHECK_DEADLOCK FALSE
