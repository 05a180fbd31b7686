\* Three workers, three jobs, a queue of two: wakeups, a refusal and the
\* destructor.  The owner may stop, so the pool may come to rest.
CONSTANTS
  w1 = w1  w2 = w2  w3 = w3
  j1 = j1  j2 = j2  j3 = j3
  Workers <- ThreeWorkers
  Jobs <- ThreeJobs
  MaxSize = 2
  Idle = Idle
SPECIFICATION FairSpec
INVARIANTS TypeOK NoIdleWhileQueued OnePlacePerJob
PROPERTIES AcceptedJobsRun ImplementsTaskPool
CHECK_DEADLOCK FALSE
