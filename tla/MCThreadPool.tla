---------------------------- MODULE MCThreadPool ----------------------------
(* ThreadPool for TLC: more jobs than the queue holds, so that Enqueue     *)
(* refuses some; three workers competing for the mutex.                    *)
EXTENDS ThreadPool

CONSTANTS w1, w2, w3, j1, j2, j3

ThreeWorkers == {w1, w2, w3}
ThreeJobs    == {j1, j2, j3}

=============================================================================
