-------------------------- MODULE ThreadPoolProofs --------------------------
(* The thread pool, for every number of workers, jobs and queue slots.     *)
EXTENDS ThreadPool, FiniteSetTheorems, TLAPS

(* Sets of workers are finite.                                             *)
LEMMA Finiteness ==
  ASSUME NEW S, S \subseteq Workers
  PROVE  IsFiniteSet(S) /\ Cardinality(S) \in Nat
BY PoolAssumption, FS_Subset, FS_CardinalityType

(* A pool just constructed has the types.                                  *)
LEMMA InitTyped == Init => TypeOK
BY PoolAssumption DEF Init, TypeOK, PCs, Fates, Lives

(* Every step keeps each component in its type and keeps `holds a task'    *)
(* and `is executing' together.                                            *)
LEMMA StepTyped == TypeOK /\ [Next]_vars => TypeOK'
<1> SUFFICES ASSUME TypeOK, [Next]_vars PROVE TypeOK'
  OBVIOUS
<1> USE PoolAssumption DEF TypeOK, PCs, Fates, Lives
<1>1. ASSUME NEW j \in Jobs, AddTask(j) PROVE TypeOK'
  <2>1. Append(q, j) \in Seq(Jobs)
    OBVIOUS
  <2>2. q' \in Seq(Jobs) /\ fate' \in [Jobs -> Fates]
    BY <1>1, <2>1 DEF AddTask
  <2>3. /\ pc' \in [Workers -> PCs]
        /\ \A w \in Workers : pc'[w] = "run" <=> pc[w] = "run"
    BY <1>1 DEF AddTask, NotifyOne, Asleep, Goto
  <2> QED BY <1>1, <2>2, <2>3 DEF AddTask
<1>2. ASSUME Stop \/ NotifyAll \/ DestroyQueue \/ Terminate PROVE TypeOK'
  BY <1>2 DEF Stop, NotifyAll, DestroyQueue, Terminate
<1>3. ASSUME NEW w \in Workers, CheckStop(w) PROVE TypeOK'
  BY <1>3 DEF CheckStop, Goto
<1>4. ASSUME NEW w \in Workers, Sleep(w) PROVE TypeOK'
  BY <1>4 DEF Sleep, Goto
<1>5. ASSUME NEW w \in Workers, WakeForNothing(w) PROVE TypeOK'
  BY <1>5 DEF WakeForNothing, Goto
<1>6. ASSUME NEW w \in Workers, Take(w) PROVE TypeOK'
  <2>1. Head(q) \in Jobs /\ Tail(q) \in Seq(Jobs)
    BY <1>6 DEF Take
  <2> QED BY <1>6, <2>1 DEF Take, Goto
<1>7. ASSUME NEW w \in Workers, Execute(w) PROVE TypeOK'
  BY <1>7 DEF Execute, Goto
<1>8. ASSUME NEW w \in Workers, WakeSpuriously(w) PROVE TypeOK'
  BY <1>8 DEF WakeSpuriously, Goto
<1>9. ASSUME UNCHANGED vars PROVE TypeOK'
  BY <1>9 DEF vars
<1> QED
  BY <1>1, <1>2, <1>3, <1>4, <1>5, <1>6, <1>7, <1>8, <1>9
  DEF Next, OwnerStep, WorkerStep

-----------------------------------------------------------------------------
(* No lost wakeup.                                                         *)

(* A step that only takes workers into Looking, without touching the queue *)
(* and without sending anyone to sleep, cannot lose a wakeup.              *)
LEMMA LookingGrows ==
  ASSUME TypeOK, NoIdleWhileQueued, q' = q, Looking \subseteq Looking',
         life' = life, Asleep' \subseteq Asleep
  PROVE  NoIdleWhileQueued'
<1>1. Looking' \subseteq Workers /\ Looking \subseteq Workers
  BY DEF Looking
<1>2. Cardinality(Looking) <= Cardinality(Looking')
  BY <1>1, Finiteness, FS_Subset
<1>3. Cardinality(Looking) \in Nat /\ Cardinality(Looking') \in Nat
  BY <1>1, Finiteness
<1>4. Len(q) \in Nat
  BY DEF TypeOK
<1> QED
  BY <1>2, <1>3, <1>4 DEF NoIdleWhileQueued

(* No step of a worker or of the owner loses a wakeup.                     *)
LEMMA StepNotLost ==
  TypeOK /\ NoIdleWhileQueued /\ [Next]_vars => NoIdleWhileQueued'
<1> SUFFICES ASSUME TypeOK, NoIdleWhileQueued, [Next]_vars
             PROVE  NoIdleWhileQueued'
  OBVIOUS
<1> USE DEF TypeOK, PCs
<1>0. /\ Looking \subseteq Workers /\ Asleep \subseteq Workers
      /\ IsFiniteSet(Looking) /\ Cardinality(Looking) \in Nat
      /\ Len(q) \in Nat
  BY Finiteness DEF Looking, Asleep
<1>1. ASSUME NEW j \in Jobs, AddTask(j) PROVE NoIdleWhileQueued'
  <2>1. CASE q' = q /\ pc' = pc
    BY <1>1, <2>1 DEF AddTask, NoIdleWhileQueued, Looking, Asleep
  <2>2. CASE q' = Append(q, j) /\ NotifyOne
    <3>1. CASE Asleep = {}
      BY <2>2, <3>1 DEF NotifyOne, Asleep, NoIdleWhileQueued
    <3>2. CASE Asleep # {}
      <4>1. PICK w \in Asleep : Goto(w, "woken")
        BY <2>2, <3>2 DEF NotifyOne
      <4>2. Looking' = Looking \cup {w} /\ w \notin Looking
        BY <4>1 DEF Goto, Looking, Asleep
      <4>3. Cardinality(Looking') = Cardinality(Looking) + 1
        BY <1>0, <4>2, FS_AddElement
      <4>4. Len(q') = Len(q) + 1
        BY <2>2
      <4> QED BY <1>0, <1>1, <3>2, <4>3, <4>4 DEF NoIdleWhileQueued, AddTask
    <3> QED BY <3>1, <3>2
  <2> QED BY <1>1, <2>1, <2>2 DEF AddTask
<1>2. ASSUME Stop \/ NotifyAll \/ DestroyQueue \/ Terminate
      PROVE NoIdleWhileQueued'
  BY <1>2 DEF Stop, NotifyAll, DestroyQueue, Terminate, NoIdleWhileQueued
<1>3. ASSUME NEW w \in Workers, CheckStop(w) PROVE NoIdleWhileQueued'
  <2>1. CASE life # "alive"
    BY <1>3, <2>1 DEF CheckStop, NoIdleWhileQueued
  <2>2. CASE life = "alive"
    <3>1. Looking \subseteq Looking' /\ Asleep' \subseteq Asleep
      BY <1>3, <2>2 DEF CheckStop, Goto, Looking, Asleep, m_stop
    <3> QED BY <1>3, <3>1, LookingGrows DEF CheckStop
  <2> QED BY <2>1, <2>2
<1>4. ASSUME NEW w \in Workers, Sleep(w) PROVE NoIdleWhileQueued'
  <2>1. Len(q') = 0
    BY <1>4 DEF Sleep
  <2>2. Cardinality(Looking') \in Nat
    BY Finiteness DEF Looking
  <2> QED BY <2>1, <2>2 DEF NoIdleWhileQueued
<1>5. ASSUME NEW w \in Workers, WakeForNothing(w) PROVE NoIdleWhileQueued'
  <2>1. Looking \subseteq Looking' /\ Asleep' \subseteq Asleep
    BY <1>5 DEF WakeForNothing, Goto, Looking, Asleep
  <2> QED BY <1>5, <2>1, LookingGrows DEF WakeForNothing
<1>6. ASSUME NEW w \in Workers, Take(w) PROVE NoIdleWhileQueued'
  <2>1. /\ w \in Looking /\ Looking' = Looking \ {w} /\ Asleep' = Asleep
    BY <1>6 DEF Take, Goto, Looking, Asleep
  <2>2. Cardinality(Looking') = Cardinality(Looking) - 1
    BY <1>0, <2>1, FS_RemoveElement
  <2>3. Len(q') = Len(q) - 1
    BY <1>6 DEF Take
  <2> QED BY <1>0, <1>6, <2>1, <2>2, <2>3 DEF NoIdleWhileQueued, Take
<1>7. ASSUME NEW w \in Workers, Execute(w) PROVE NoIdleWhileQueued'
  <2>1. Looking \subseteq Looking' /\ Asleep' \subseteq Asleep
    BY <1>7 DEF Execute, Goto, Looking, Asleep
  <2> QED BY <1>7, <2>1, LookingGrows DEF Execute
<1>8. ASSUME NEW w \in Workers, WakeSpuriously(w) PROVE NoIdleWhileQueued'
  <2>1. Looking \subseteq Looking' /\ Asleep' \subseteq Asleep
    BY <1>8 DEF WakeSpuriously, Goto, Looking, Asleep
  <2> QED BY <1>8, <2>1, LookingGrows DEF WakeSpuriously
<1>9. ASSUME UNCHANGED vars PROVE NoIdleWhileQueued'
  BY <1>9 DEF vars, NoIdleWhileQueued, Looking, Asleep
<1> QED
  BY <1>1, <1>2, <1>3, <1>4, <1>5, <1>6, <1>7, <1>8, <1>9
  DEF Next, OwnerStep, WorkerStep

-----------------------------------------------------------------------------
(* Jobs are neither duplicated nor dropped.                                *)

(* No step of Enqueue or Dequeue drops or doubles a job.                   *)
LEMMA StepOnePlace ==
  TypeOK /\ OnePlacePerJob /\ [Next]_vars => OnePlacePerJob'
<1> SUFFICES ASSUME TypeOK, OnePlacePerJob, [Next]_vars
             PROVE  OnePlacePerJob'
  OBVIOUS
<1> USE PoolAssumption DEF TypeOK, Fates, OnePlacePerJob
<1>1. ASSUME NEW j \in Jobs, AddTask(j) PROVE OnePlacePerJob'
  <2>1. /\ \A i \in 1..Len(q) : q[i] # j
        /\ \A w \in Workers : job[w] # j
    BY <1>1 DEF AddTask
  <2>2. CASE fate' = [fate EXCEPT ![j] = "refused"] /\ q' = q
    BY <1>1, <2>1, <2>2 DEF AddTask
  <2>3. CASE fate' = [fate EXCEPT ![j] = "accepted"] /\ q' = Append(q, j)
    <3>1. /\ Len(q') = Len(q) + 1
          /\ \A i \in 1..Len(q) : q'[i] = q[i]
          /\ q'[Len(q) + 1] = j
          /\ Len(q) \in Nat
      BY <2>3
    <3>2. 1..Len(q') = 1..Len(q) \cup {Len(q) + 1}
      BY <3>1
    <3>3. job' = job
      BY <1>1 DEF AddTask
    <3>4. \A i, k \in 1..Len(q') : q'[i] = q'[k] => i = k
      BY <2>1, <3>1, <3>2
    <3>5. \A i \in 1..Len(q'), w \in Workers : q'[i] # job'[w]
      BY <2>1, <3>1, <3>2, <3>3
    <3>6. ASSUME NEW k \in Jobs
          PROVE  fate'[k] = "accepted" <=> \/ \E i \in 1..Len(q') : q'[i] = k
                                           \/ \E w \in Workers : job'[w] = k
      <4>1. (\E i \in 1..Len(q') : q'[i] = k) <=>
               k = j \/ \E i \in 1..Len(q) : q[i] = k
        BY <3>1, <3>2
      <4> QED BY <2>3, <3>3, <4>1
    <3>7. \A v, w \in Workers : job'[v] = job'[w] /\ job'[v] # Idle => v = w
      BY <3>3
    <3> QED BY ONLY <3>4, <3>5, <3>6, <3>7 DEF OnePlacePerJob
  <2> QED BY <1>1, <2>2, <2>3 DEF AddTask
<1>2. ASSUME NEW w \in Workers, Take(w) PROVE OnePlacePerJob'
  <2>1. /\ Len(q) \in Nat \ {0}
        /\ Len(q') = Len(q) - 1
        /\ \A i \in 1..Len(q') : q'[i] = q[i + 1]
        /\ Head(q) = q[1] /\ q[1] \in Jobs
    BY <1>2 DEF Take
  <2>2. \A i \in 1..Len(q') : i + 1 \in 1..Len(q) /\ i + 1 # 1
    BY <2>1
  <2>3. \A i \in 1..Len(q) : i = 1 \/ (i - 1 \in 1..Len(q') /\ q'[i - 1] = q[i])
    BY <2>1
  <2>4. 1 \in 1..Len(q)
    BY <2>1
  <2>5. /\ job[w] = Idle /\ fate' = fate
        /\ job' = [job EXCEPT ![w] = q[1]]
    BY <1>2, <2>1 DEF Take
  <2>6. \A i, k \in 1..Len(q') : q'[i] = q'[k] => i = k
    BY <2>1, <2>2
  <2>7. \A u, v \in Workers : job'[u] = job'[v] /\ job'[u] # Idle => u = v
    BY <2>4, <2>5
  <2>8. \A i \in 1..Len(q'), v \in Workers : q'[i] # job'[v]
    BY <2>1, <2>2, <2>4, <2>5
  <2>9. ASSUME NEW j \in Jobs
        PROVE  fate'[j] = "accepted" <=> \/ \E i \in 1..Len(q') : q'[i] = j
                                         \/ \E v \in Workers : job'[v] = j
    <3>1. (\E i \in 1..Len(q') : q'[i] = j) =>
             \E i \in 1..Len(q) : q[i] = j
      BY <2>1, <2>2
    <3>2. (\E i \in 1..Len(q) : q[i] = j) =>
             j = q[1] \/ \E i \in 1..Len(q') : q'[i] = j
      BY <2>3
    <3>3. (\E v \in Workers : job'[v] = j) <=>
             j = q[1] \/ \E v \in Workers : job[v] = j
      BY <2>5
    <3> QED BY <2>4, <2>5, <3>1, <3>2, <3>3
  <2> QED BY <2>6, <2>7, <2>8, <2>9
<1>3. ASSUME NEW w \in Workers, Execute(w) PROVE OnePlacePerJob'
  <2>1. /\ job[w] \in Jobs /\ q' = q
        /\ fate' = [fate EXCEPT ![job[w]] = "done"]
        /\ job' = [job EXCEPT ![w] = Idle]
    BY <1>3 DEF Execute
  <2> QED BY <2>1
<1>4. CASE UNCHANGED <<q, job, fate>>
  BY <1>4
<1> QED
  BY <1>1, <1>2, <1>3, <1>4
  DEF Next, OwnerStep, WorkerStep, Stop, NotifyAll, DestroyQueue, Terminate,
      CheckStop, Sleep, WakeForNothing, WakeSpuriously, vars

-----------------------------------------------------------------------------
(* The theorems.                                                           *)

(* The pool's state is well formed in every reachable state.               *)
THEOREM PoolTyped == Spec => []TypeOK
BY InitTyped, StepTyped, PTL DEF Spec

(* No lost wakeup (SafeQueue::Enqueue's notify_one against c.wait in       *)
(* Dequeue): while a worker sleeps, each queued job has a worker of its    *)
(* own on its way to it.                                                   *)
THEOREM NoLostWakeup == Spec => []NoIdleWhileQueued
<1>1. Init => NoIdleWhileQueued
  BY DEF Init, NoIdleWhileQueued, Asleep
<1> QED BY <1>1, InitTyped, StepTyped, StepNotLost, PTL DEF Spec

(* SafeQueue::Dequeue hands every accepted job to exactly one worker.      *)
THEOREM JobsNeitherLostNorDoubled == Spec => []OnePlacePerJob
<1>1. Init => OnePlacePerJob
  BY PoolAssumption DEF Init, OnePlacePerJob
<1> QED BY <1>1, InitTyped, StepTyped, StepOnePlace, PTL DEF Spec

(* ThreadPool with SafeQueue's mutex and condition variable implements the *)
(* bounded FIFO of TaskPool on which RpcServer is built.                   *)
THEOREM PoolRefinement == Spec => ImplementsTaskPool
<1>1. Init => Pool!PoolInit
  BY DEF Init, Pool!PoolInit
<1>2. TypeOK /\ [Next]_vars => [Pool!PoolNext]_(Pool!poolVars)
  <2> SUFFICES ASSUME TypeOK, [Next]_vars
               PROVE  Pool!PoolNext \/ UNCHANGED <<q, job>>
    BY DEF Pool!poolVars
  <2>1. ASSUME NEW j \in Jobs, AddTask(j) PROVE Pool!Offer(j)
    BY <2>1, PoolAssumption DEF AddTask, Pool!Offer, TypeOK
  <2>2. ASSUME NEW w \in Workers, Take(w) PROVE Pool!Begin(w)
    BY <2>2 DEF Take, Pool!Begin, TypeOK
  <2>3. ASSUME NEW w \in Workers, Execute(w) PROVE Pool!Finish(w)
    BY <2>3 DEF Execute, Pool!Finish, TypeOK
  <2> QED
    BY <2>1, <2>2, <2>3
    DEF Next, OwnerStep, WorkerStep, Stop, NotifyAll, DestroyQueue, Terminate,
        CheckStop, Sleep, WakeForNothing, WakeSpuriously, vars, Pool!PoolNext
<1> QED
  BY <1>1, <1>2, InitTyped, StepTyped, PTL
  DEF Spec, ImplementsTaskPool, Pool!PoolSpec

=============================================================================
