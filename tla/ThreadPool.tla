----------------------------- MODULE ThreadPool -----------------------------
(***************************************************************************)
(* ThreadPool and the SafeQueue<std::function<void()>> it owns             *)
(* (runtime/threadmodel).  Every worker runs ThreadPool::Run; one owner    *)
(* thread, the reactor, calls AddTask and finally the destructor.          *)
(*                                                                         *)
(* Enqueue and Dequeue hold the mutex from entry to exit, except that      *)
(* c.wait(lock) gives it up atomically with going to sleep: a Dequeue that *)
(* finds the queue empty is therefore two steps, falling asleep (Sleep)    *)
(* and, once notified or woken spuriously, looking again.  wait() has no   *)
(* predicate: what protects a sleeper is the second q.empty() test.        *)
(***************************************************************************)
EXTENDS Naturals, Sequences, FiniteSets

CONSTANTS
  Workers,   \* the pool's threads
  Jobs,      \* the tasks the owner may submit, each at most once
  MaxSize,   \* capacity of the queue
  Idle       \* "this worker holds no job"

ASSUME PoolAssumption ==
  /\ Workers # {} /\ IsFiniteSet(Workers)   \* assert(thread_num > 0)
  /\ MaxSize \in Nat \ {0}                  \* assert(task_queue_size > 0)
  /\ Idle \notin Jobs

VARIABLES
  q,         \* SafeQueue::q
  pc,        \* where each worker is in ThreadPool::Run / SafeQueue::Dequeue
  job,       \* the local `task' of each worker
  fate,      \* what became of each job (history)
  life       \* how far the owner is in destroying the pool

vars == <<q, pc, job, fate, life>>

-----------------------------------------------------------------------------

(* "check":   about to test !m_stop at the head of the loop                *)
(* "dequeue": past the test, about to lock the queue                       *)
(* "asleep":  in c.wait, not notified                                      *)
(* "woken":   out of c.wait, about to look at the queue again              *)
(* "run":     executing job[w];  "exit": has left the loop                 *)
PCs == {"check", "dequeue", "asleep", "woken", "run", "exit"}

Fates == {"new", "accepted", "refused", "done"}

(* "alive"; then ~ThreadPool has called Stop ("stopping"); ~SafeQueue has  *)
(* called notify_all ("notified") and has locked and unlocked the mutex    *)
(* once ("destroyed"); the vector of joinable threads has been destroyed,  *)
(* which calls std::terminate ("terminated").                              *)
Lives == {"alive", "stopping", "notified", "destroyed", "terminated"}

(* Types; and a worker holds a job exactly while it is at task() in        *)
(* ThreadPool::Run.                                                        *)
TypeOK ==
  /\ q \in Seq(Jobs)
  /\ pc \in [Workers -> PCs]
  /\ job \in [Workers -> Jobs \cup {Idle}]
  /\ fate \in [Jobs -> Fates]
  /\ life \in Lives
  /\ \A w \in Workers : pc[w] = "run" <=> job[w] # Idle

m_stop == life # "alive"

Init ==
  /\ q = <<>>
  /\ pc = [w \in Workers |-> "check"]
  /\ job = [w \in Workers |-> Idle]
  /\ fate = [j \in Jobs |-> "new"]
  /\ life = "alive"

-----------------------------------------------------------------------------
(* The workers.                                                            *)

Asleep == {w \in Workers : pc[w] = "asleep"}

Goto(w, l) == pc' = [pc EXCEPT ![w] = l]

(* while (!m_stop)                                                         *)
CheckStop(w) ==
  /\ pc[w] = "check"
  /\ Goto(w, IF m_stop THEN "exit" ELSE "dequeue")
  /\ UNCHANGED <<q, job, fate, life>>

(* Variant: the emptiness test is made before the mutex is taken.          *)
SleepOnOldTest(w) ==
  /\ pc[w] = "dequeue"
  /\ Goto(w, "asleep")
  /\ UNCHANGED <<q, job, fate, life>>

(* Dequeue finds the queue empty and waits.                                *)
Sleep(w) ==
  /\ pc[w] = "dequeue"
  /\ q = <<>>
  /\ Goto(w, "asleep")
  /\ UNCHANGED <<q, job, fate, life>>

(* A condition variable may wake a thread nobody notified.                 *)
WakeSpuriously(w) ==
  /\ pc[w] = "asleep"
  /\ Goto(w, "woken")
  /\ UNCHANGED <<q, job, fate, life>>

(* After the wait the queue is empty again: Dequeue returns false.         *)
WakeForNothing(w) ==
  /\ pc[w] = "woken"
  /\ q = <<>>
  /\ Goto(w, "check")
  /\ UNCHANGED <<q, job, fate, life>>

(* Variant: Dequeue copies the front element and forgets to pop it.        *)
TakeWithoutPop(w) ==
  /\ pc[w] \in {"dequeue", "woken"}
  /\ q # <<>>
  /\ job' = [job EXCEPT ![w] = Head(q)]
  /\ Goto(w, "run")
  /\ UNCHANGED <<q, fate, life>>

(* Dequeue returns the front element.                                      *)
Take(w) ==
  /\ pc[w] \in {"dequeue", "woken"}
  /\ q # <<>>
  /\ job' = [job EXCEPT ![w] = Head(q)]
  /\ q' = Tail(q)
  /\ Goto(w, "run")
  /\ UNCHANGED <<fate, life>>

(* Variant: the task object outlives its iteration of the loop.            *)
ExecuteKeepingTask(w) ==
  /\ pc[w] = "run"
  /\ fate' = [fate EXCEPT ![job[w]] = "done"]
  /\ Goto(w, "check")
  /\ UNCHANGED <<q, job, life>>

(* task()                                                                  *)
Execute(w) ==
  /\ pc[w] = "run"
  /\ fate' = [fate EXCEPT ![job[w]] = "done"]
  /\ job' = [job EXCEPT ![w] = Idle]
  /\ Goto(w, "check")
  /\ UNCHANGED <<q, life>>

(* Once the queue is destroyed a step on it is undefined; the model keeps  *)
(* the state in which that has become possible and takes no such step.     *)
WorkerStep(w) ==
  /\ life # "terminated"
  /\ \/ CheckStop(w)
     \/ Execute(w)
     \/ /\ life # "destroyed"
        /\ Sleep(w) \/ WakeForNothing(w) \/ Take(w)

-----------------------------------------------------------------------------
(* The owner.                                                              *)

(* c.notify_one(): some sleeper wakes, if there is one.                    *)
NotifyOne ==
  IF Asleep = {} THEN UNCHANGED pc
  ELSE \E w \in Asleep : Goto(w, "woken")

(* Variants: Enqueue without c.notify_one(); with > for >= in its test.    *)
AddTaskSilently(j) ==
  /\ life = "alive"
  /\ fate[j] = "new"
  /\ Len(q) < MaxSize
  /\ fate' = [fate EXCEPT ![j] = "accepted"]
  /\ q' = Append(q, j)
  /\ UNCHANGED <<pc, job, life>>

AddTaskBeyondBound(j) ==
  /\ life = "alive"
  /\ fate[j] = "new"
  /\ Len(q) <= MaxSize
  /\ fate' = [fate EXCEPT ![j] = "accepted"]
  /\ q' = Append(q, j)
  /\ NotifyOne
  /\ UNCHANGED <<job, life>>

(* AddTask: Enqueue refuses the job when the queue is full.                *)
AddTask(j) ==
  /\ life = "alive"
  /\ fate[j] = "new"
  /\ \/ /\ Len(q) >= MaxSize
        /\ fate' = [fate EXCEPT ![j] = "refused"]
        /\ UNCHANGED <<q, pc>>
     \/ /\ Len(q) < MaxSize
        /\ fate' = [fate EXCEPT ![j] = "accepted"]
        /\ q' = Append(q, j)
        /\ NotifyOne
  /\ UNCHANGED <<job, life>>

(* ~ThreadPool: Stop()                                                     *)
Stop ==
  /\ life = "alive"
  /\ life' = "stopping"
  /\ UNCHANGED <<q, pc, job, fate>>

(* ~SafeQueue: notify_all                                                  *)
NotifyAll ==
  /\ life = "stopping"
  /\ life' = "notified"
  /\ pc' = [w \in Workers |-> IF pc[w] = "asleep" THEN "woken" ELSE pc[w]]
  /\ UNCHANGED <<q, job, fate>>

(* ~SafeQueue: lock and unlock the mutex once, then release the members.   *)
DestroyQueue ==
  /\ life = "notified"
  /\ life' = "destroyed"
  /\ UNCHANGED <<q, pc, job, fate>>

(* The destructor of threads_ meets joinable threads: std::terminate.      *)
Terminate ==
  /\ life = "destroyed"
  /\ life' = "terminated"
  /\ UNCHANGED <<q, pc, job, fate>>

OwnerStep ==
  \/ \E j \in Jobs : AddTask(j)
  \/ Stop \/ NotifyAll \/ DestroyQueue \/ Terminate

Next ==
  \/ OwnerStep
  \/ \E w \in Workers : WorkerStep(w)
  \/ \E w \in Workers : life \notin {"destroyed", "terminated"} /\ WakeSpuriously(w)

Spec == Init /\ [][Next]_vars

(* Each worker is a kernel thread that is eventually scheduled and, since  *)
(* every critical section is finite, eventually gets the mutex.  Nothing   *)
(* is assumed of the owner or of spurious wakeups.                         *)
FairSpec == Spec /\ \A w \in Workers : WF_vars(WorkerStep(w))

-----------------------------------------------------------------------------
(* Properties.                                                             *)

(* Workers that will look at the queue before they can fall asleep.        *)
Looking == {w \in Workers : pc[w] \in {"check", "dequeue", "woken"}}

(* No lost wakeup: while the pool is alive and some worker sleeps, there   *)
(* are at least as many workers on their way to the queue as there are     *)
(* jobs in it, so no job waits for a sleeper that nobody will notify.      *)
NoIdleWhileQueued ==
  life = "alive" /\ Asleep # {} => Len(q) <= Cardinality(Looking)

(* An accepted job that is not done is in exactly one place, the queue or  *)
(* one worker, and nothing else is: Dequeue neither duplicates nor drops.  *)
OnePlacePerJob ==
  /\ \A i, k \in 1..Len(q) : q[i] = q[k] => i = k
  /\ \A v, w \in Workers : job[v] = job[w] /\ job[v] # Idle => v = w
  /\ \A i \in 1..Len(q), w \in Workers : q[i] # job[w]
  /\ \A j \in Jobs :
       fate[j] = "accepted" <=> \/ \E i \in 1..Len(q) : q[i] = j
                                \/ \E w \in Workers : job[w] = j

(* Every accepted job is executed unless the pool is being destroyed.      *)
AcceptedJobsRun ==
  \A j \in Jobs : fate[j] = "accepted" ~> fate[j] = "done" \/ m_stop

(* The pool with its mutex and condition variable implements the plain     *)
(* bounded FIFO of TaskPool.                                               *)
Pool == INSTANCE TaskPool WITH Tasks <- Jobs, queue <- q, held <- job
ImplementsTaskPool == Pool!PoolSpec

=============================================================================
