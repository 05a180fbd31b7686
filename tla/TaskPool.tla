------------------------------ MODULE TaskPool ------------------------------
(***************************************************************************)
(* What a ThreadPool promises its owner, without the mutex and the         *)
(* condition variable inside SafeQueue: a bounded FIFO of tasks, taken in  *)
(* order by whichever worker is idle.  A task offered to a full queue is   *)
(* refused and forgotten.                                                  *)
(*                                                                         *)
(* ThreadPool is shown to implement this specification; RpcServer is       *)
(* built on its three actions.                                             *)
(***************************************************************************)
EXTENDS Naturals, Sequences

CONSTANTS
  Workers,   \* the threads of the pool
  Tasks,     \* the tasks that may be offered
  MaxSize,   \* capacity of the queue (task_queue_size)
  Idle       \* "this worker holds no task"

VARIABLES
  queue,     \* tasks accepted and not yet taken
  held       \* the task each worker is executing, or Idle

poolVars == <<queue, held>>

PoolInit ==
  /\ queue = <<>>
  /\ held = [w \in Workers |-> Idle]

(* ThreadPool::AddTask: the caller learns from the result whether the task *)
(* was refused, but Reactor::Run ignores it.                               *)
Offer(t) ==
  /\ queue' = IF Len(queue) >= MaxSize THEN queue ELSE Append(queue, t)
  /\ UNCHANGED held

(* A worker's successful Dequeue: it leaves with the oldest task.          *)
Begin(w) ==
  /\ held[w] = Idle
  /\ queue # <<>>
  /\ held' = [held EXCEPT ![w] = Head(queue)]
  /\ queue' = Tail(queue)

(* The task's function returns and the worker goes back to its loop.       *)
Finish(w) ==
  /\ held[w] # Idle
  /\ held' = [held EXCEPT ![w] = Idle]
  /\ UNCHANGED queue

PoolNext ==
  \/ \E t \in Tasks : Offer(t)
  \/ \E w \in Workers : Begin(w) \/ Finish(w)

PoolSpec == PoolInit /\ [][PoolNext]_poolVars

=============================================================================
