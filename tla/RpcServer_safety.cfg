\* Every fault and every kind of request, one descriptor that is used again.
CONSTANTS
  c1 = c1  c2 = c2  f1 = f1  f2 = f2  w1 = w1  w2 = w2
  Conns <- TwoConns
  Fds <- OneFd
  ListenFd = ListenFd
  Workers <- TwoWorkers
  MaxTasks = 2
  MaxReqs = 1
  Kinds <- AllKinds
  Faults <- AllFaults
  None = None
SYMMETRY Interchangeable
SPECIFICATION Spec
INVARIANTS TypeOK FdExclusive HandlerFound PipeReady ReadFindsData DeafByOwnFault
CHECK_DEADLOCK FALSE
