-------------------------- MODULE RpcClientProofs ---------------------------
(***************************************************************************)
(* A result runs the callback of its own call, for any number of threads,  *)
(* calls, ids and slots, any order of answers and any dropped requests.    *)
(***************************************************************************)
EXTENDS RpcClient, FiniteSetTheorems, TLAPS

-----------------------------------------------------------------------------
(* The inductive invariant.                                                *)

(* What a thread's label says of its local variables.                      *)
Labels ==
  /\ \A t \in Threads : pc[t] \in {"register", "push"} <=> id[t] # None
  /\ \A t \in Threads : pc[t] \in {"register", "push"} => made[t] >= 1
  /\ net \in {"exec", "clear", "recycle"} <=> res # None
  /\ net = "read" => results # <<>>

(* No two of a kind carry one id,                                          *)
Distinct ==
  /\ \A s, t \in Threads : id[s] # None /\ id[s] = id[t] => s = t
  /\ \A j, k \in 1..Len(pending) : pending[j].seq = pending[k].seq => j = k
  /\ \A m, n \in requests : m.seq = n.seq => m = n
  /\ \A j, k \in 1..Len(results) : results[j].seq = results[k].seq => j = k

(* nor do two of different kinds,                                          *)
Apart ==
  /\ \A t \in Threads, k \in 1..Len(pending) : id[t] # pending[k].seq
  /\ \A t \in Threads, m \in requests : id[t] # m.seq
  /\ \A t \in Threads, k \in 1..Len(results) : id[t] # results[k].seq
  /\ \A t \in Threads : res # None => id[t] # res.seq
  /\ \A j \in 1..Len(pending), m \in requests : pending[j].seq # m.seq
  /\ \A j \in 1..Len(pending), k \in 1..Len(results) :
       pending[j].seq # results[k].seq
  /\ \A j \in 1..Len(pending) : res # None => pending[j].seq # res.seq
  /\ \A m \in requests, k \in 1..Len(results) : m.seq # results[k].seq
  /\ \A m \in requests : res # None => m.seq # res.seq
  /\ \A k \in 1..Len(results) : res # None => results[k].seq # res.seq

(* and Guid will not hand out an id that someone carries.                  *)
InUse == (1..bound) \ free
Allocated ==
  /\ free \subseteq 1..bound
  /\ \A t \in Threads : id[t] # None => id[t] \in InUse
  /\ \A k \in 1..Len(pending) : pending[k].seq \in InUse
  /\ \A m \in requests : m.seq \in InUse
  /\ \A k \in 1..Len(results) : results[k].seq \in InUse
  /\ res # None => res.seq \in InUse

(* From Register to Exec the slot of an id holds the call.                 *)
Slots ==
  /\ \A t \in Threads : pc[t] = "push" => slots[id[t]] = CallOf(t)
  /\ \A k \in 1..Len(pending) : slots[pending[k].seq] = pending[k].call
  /\ \A m \in requests : slots[m.seq] = m.call
  /\ \A k \in 1..Len(results) : slots[results[k].seq] = results[k].call
  /\ net = "exec" => slots[res.seq] = res.call

Route == TypeOK /\ Labels /\ Distinct /\ Apart /\ Allocated /\ Slots

-----------------------------------------------------------------------------
(* The inductive invariant is strong enough.                               *)
LEMMA RouteImpliesMatch == Route => CallbackMatches
BY DEF Route, Slots, CallbackMatches

(* A client just connected satisfies it.                                   *)
LEMMA InitRoute == Init => Route
<1> SUFFICES ASSUME Init PROVE Route
  OBVIOUS
<1> USE ClientAssumption, NoneAssumption DEF Init, Guid!GuidInit
<1>1. TypeOK
  <2>1. pending \in Seq(Messages) /\ results \in Seq(Messages)
    OBVIOUS
  <2>2. free \subseteq Ids /\ bound \in 0..MaxGuid
    OBVIOUS
  <2>3. pc \in [Threads -> PCs] /\ net \in NetPCs
    BY DEF PCs, NetPCs
  <2>4. made \in [Threads -> 0..MaxCalls]
    OBVIOUS
  <2>5. /\ id \in [Threads -> Ids \cup {None}]
        /\ slots \in [Ids -> Calls \cup {None}]
        /\ executed \in [Calls -> Nat]
    OBVIOUS
  <2> QED BY <2>1, <2>2, <2>3, <2>4, <2>5 DEF TypeOK
<1>2. Labels /\ Distinct /\ Apart /\ Allocated /\ Slots
  BY DEF Labels, Distinct, Apart, Allocated, Slots
<1> QED BY <1>1, <1>2 DEF Route

(* What a step does to the end of a queue.                                 *)
LEMMA AppendFacts ==
  ASSUME NEW S, NEW s \in Seq(S), NEW e \in S
  PROVE  /\ Append(s, e) \in Seq(S)
         /\ Len(s) \in Nat
         /\ Len(Append(s, e)) = Len(s) + 1
         /\ \A i \in 1..Len(s) : Append(s, e)[i] = s[i]
         /\ Append(s, e)[Len(s) + 1] = e
OBVIOUS

(* What remains after a pop is what was there before, one place on.        *)
LEMMA TailFacts ==
  ASSUME NEW S, NEW s \in Seq(S), s # <<>>
  PROVE  /\ Tail(s) \in Seq(S)
         /\ Len(s) \in Nat \ {0}
         /\ Len(Tail(s)) = Len(s) - 1
         /\ \A i \in 1..Len(Tail(s)) : i + 1 \in 1..Len(s) /\ Tail(s)[i] = s[i + 1]
         /\ Head(s) = s[1]
         /\ Head(s) \in S
OBVIOUS

(* CallOf is a call once the thread has begun one.                         *)
LEMMA CallTyped ==
  ASSUME TypeOK, NEW t \in Threads, made[t] >= 1
  PROVE  CallOf(t) \in Calls
BY ClientAssumption DEF TypeOK, CallOf, Calls

-----------------------------------------------------------------------------
(* Every step keeps the types.                                             *)
LEMMA TypeStep == Route /\ [Next]_vars => TypeOK'
<1> SUFFICES ASSUME Route, [Next]_vars PROVE TypeOK'
  OBVIOUS
<1>0. TypeOK /\ Labels
  BY DEF Route
<1> USE <1>0, ClientAssumption, NoneAssumption
    DEF TypeOK, PCs, NetPCs, Goto, threadVars, netVars
<1>1. ASSUME NEW t \in Threads, BeginCall(t) PROVE TypeOK'
  <2>1. PICK i \in Ids : Guid!Allocate(i) /\ id' = [id EXCEPT ![t] = i]
    BY <1>1 DEF BeginCall
  <2>2. \/ free' = free \ {i} /\ bound' = bound
        \/ free' = free /\ bound < MaxGuid /\ bound' = bound + 1
    BY <2>1 DEF Guid!Allocate
  <2>3. free' \subseteq Ids /\ bound' \in 0..MaxGuid
    BY <2>2
  <2>4. made' \in [Threads -> 0..MaxCalls]
    BY <1>1 DEF BeginCall
  <2> QED BY <1>1, <2>1, <2>3, <2>4 DEF BeginCall
<1>2. ASSUME NEW t \in Threads, BeginRefused(t) PROVE TypeOK'
  BY <1>2 DEF BeginRefused
<1>3. ASSUME NEW t \in Threads, Register(t) PROVE TypeOK'
  <2>1. CallOf(t) \in Calls /\ id[t] \in Ids
    BY <1>3, CallTyped DEF Register, Labels
  <2>2. slots' \in [Ids -> Calls \cup {None}] /\ alive' \in BOOLEAN
    BY <1>3, <2>1 DEF Register
  <2> QED BY <1>3, <2>2 DEF Register
<1>4. ASSUME NEW t \in Threads, Push(t) PROVE TypeOK'
  <2>1. CallOf(t) \in Calls /\ id[t] \in Ids
    BY <1>4, CallTyped DEF Push, Labels
  <2>2. [seq |-> id[t], call |-> CallOf(t)] \in Messages
    BY <2>1 DEF Messages
  <2>3. pending' \in Seq(Messages)
    BY <1>4, <2>2, AppendFacts DEF Push
  <2> QED BY <1>4, <2>3 DEF Push
<1>5. ASSUME NEW t \in Threads, EndCall(t) PROVE TypeOK'
  BY <1>5 DEF EndCall
<1>6. CASE Dispatch
  BY <1>6 DEF Dispatch
<1>7. CASE Recv
  <2>1. Head(results) \in Messages /\ Tail(results) \in Seq(Messages)
    BY <1>7, TailFacts DEF Recv, Labels
  <2> QED BY <1>7, <2>1 DEF Recv
<1>8. CASE Exec
  <2>1. res.seq \in Ids
    BY <1>8 DEF Exec, Labels, Messages
  <2>2. executed' \in [Calls -> Nat]
    BY <1>8, <2>1 DEF Exec
  <2> QED BY <1>8, <2>2 DEF Exec
<1>9. CASE Clear
  BY <1>9 DEF Clear
<1>10. CASE RecycleGuid
  <2>1. res.seq \in Ids
    BY <1>10 DEF RecycleGuid, Labels, Messages
  <2> QED BY <1>10, <2>1 DEF RecycleGuid, Guid!Recycle
<1>11. CASE HandleWriteEvent
  <2>1. CASE pending = <<>>
    BY <1>11, <2>1 DEF HandleWriteEvent
  <2>2. CASE pending # <<>>
    <3>1. Head(pending) \in Messages /\ Tail(pending) \in Seq(Messages)
      BY <2>2, TailFacts
    <3> QED BY <1>11, <2>2, <3>1 DEF HandleWriteEvent
  <2> QED BY <2>1, <2>2
<1>12. ASSUME NEW m \in Messages, Answer(m) PROVE TypeOK'
  <2>1. results' \in Seq(Messages)
    BY <1>12, AppendFacts DEF Answer
  <2> QED BY <1>12, <2>1 DEF Answer
<1>13. CASE ServerCloses \/ UNCHANGED vars
  BY <1>13 DEF ServerCloses, vars
<1> QED
  BY <1>1, <1>2, <1>3, <1>4, <1>5, <1>6, <1>7, <1>8, <1>9, <1>10, <1>11, <1>12,
     <1>13
  DEF Next, ThreadStep, NetStep

(* Every step keeps labels and local variables together.                   *)
LEMMA LabelsStep == Route /\ [Next]_vars => Labels'
<1> SUFFICES ASSUME Route, [Next]_vars PROVE Labels'
  OBVIOUS
<1>0. TypeOK /\ Labels
  BY DEF Route
<1> USE <1>0, ClientAssumption, NoneAssumption
    DEF TypeOK, PCs, NetPCs, Goto, threadVars, netVars, Labels
<1>1. ASSUME NEW t \in Threads, BeginCall(t) PROVE Labels'
  BY <1>1 DEF BeginCall
<1>2. ASSUME NEW t \in Threads, BeginRefused(t) PROVE Labels'
  BY <1>2 DEF BeginRefused
<1>3. ASSUME NEW t \in Threads, Register(t) \/ Push(t) \/ EndCall(t)
      PROVE Labels'
  <2>1. CASE Register(t)
    BY <2>1 DEF Register
  <2>2. CASE Push(t)
    BY <2>2 DEF Push
  <2>3. CASE EndCall(t)
    BY <2>3 DEF EndCall
  <2> QED BY <1>3, <2>1, <2>2, <2>3
<1>4. CASE Dispatch \/ Exec \/ Clear \/ RecycleGuid \/ HandleWriteEvent
  BY <1>4 DEF Dispatch, Exec, Clear, RecycleGuid, HandleWriteEvent
<1>5. CASE Recv
  <2>1. res' \in Messages
    BY <1>5, TailFacts DEF Recv
  <2> QED BY <1>5, <2>1 DEF Recv
<1>6. ASSUME NEW m \in Messages, Answer(m) PROVE Labels'
  <2>1. Len(results') = Len(results) + 1 /\ Len(results) \in Nat
    BY <1>6, AppendFacts DEF Answer
  <2>2. results' # <<>>
    BY <2>1
  <2> QED BY <1>6, <2>2 DEF Answer
<1>7. CASE ServerCloses \/ UNCHANGED vars
  BY <1>7 DEF ServerCloses, vars
<1> QED
  BY <1>1, <1>2, <1>3, <1>4, <1>5, <1>6, <1>7 DEF Next, ThreadStep, NetStep

-----------------------------------------------------------------------------
(* An id moves from one place to the next and is never in two.             *)

(* The id GetGuid returns is one that nobody carries.                      *)
LEMMA FreshId ==
  ASSUME TypeOK, free \subseteq 1..bound, NEW i \in Ids, Guid!Allocate(i)
  PROVE  /\ i \notin InUse
         /\ InUse' = InUse \cup {i}
         /\ free' \subseteq 1..bound'
<1>1. CASE i \in free /\ free' = free \ {i} /\ bound' = bound
  BY <1>1 DEF InUse
<1>2. CASE i = bound + 1 /\ bound' = i /\ free' = free /\ free = {}
  BY <1>2 DEF InUse, TypeOK
<1> QED BY <1>1, <1>2 DEF Guid!Allocate

(* No step hands an id to two carriers or to a carrier beside Guid.        *)
LEMMA CarriedStep ==
  Route /\ [Next]_vars => Distinct' /\ Apart' /\ Allocated'
<1> SUFFICES ASSUME Route, [Next]_vars
             PROVE  Distinct' /\ Apart' /\ Allocated'
  OBVIOUS
<1>0. /\ TypeOK /\ Labels /\ Distinct /\ Apart /\ Allocated
      /\ id \in [Threads -> Ids \cup {None}]
      /\ pending \in Seq(Messages)
      /\ results \in Seq(Messages)
      /\ requests \subseteq Messages
      /\ Len(pending) \in Nat /\ Len(results) \in Nat
      /\ \A m \in Messages : m.seq \in Ids
      /\ None \notin Ids /\ None \notin Messages
  BY NoneAssumption DEF Route, TypeOK, Messages
<1> USE <1>0
<1>1. ASSUME NEW t \in Threads, BeginCall(t)
      PROVE  Distinct' /\ Apart' /\ Allocated'
  <2>1. PICK i \in Ids : Guid!Allocate(i) /\ id' = [id EXCEPT ![t] = i]
    BY <1>1 DEF BeginCall
  <2>2. /\ i \notin InUse /\ InUse' = InUse \cup {i}
        /\ free' \subseteq 1..bound'
    BY <2>1, FreshId DEF Allocated
  <2>3. UNCHANGED <<pending, requests, results, res>>
    BY <1>1 DEF BeginCall, netVars
  <2>4. Allocated'
    BY <2>1, <2>2, <2>3 DEF Allocated
  <2>a. \A s \in Threads : id'[s] = IF s = t THEN i ELSE id[s]
    BY <2>1
  <2>b. /\ \A s \in Threads : id[s] # i
        /\ \A k \in 1..Len(pending) : pending[k].seq # i
        /\ \A m \in requests : m.seq # i
        /\ \A k \in 1..Len(results) : results[k].seq # i
        /\ res # None => res.seq # i
    BY <2>2 DEF Allocated
  <2>5. Distinct'
    BY <2>3, <2>a, <2>b DEF Distinct
  <2>6. Apart'
    BY <2>3, <2>a, <2>b DEF Apart
  <2> QED BY <2>4, <2>5, <2>6
<1>2. ASSUME NEW t \in Threads, Push(t)
      PROVE  Distinct' /\ Apart' /\ Allocated'
  <2> DEFINE m == [seq |-> id[t], call |-> CallOf(t)]
  <2>1. /\ id[t] \in Ids /\ CallOf(t) \in Calls
        /\ m.seq = id[t] /\ m \in Messages
    BY <1>2, CallTyped DEF Push, Labels, Messages
  <2>2. /\ Len(pending') = Len(pending) + 1
        /\ \A k \in 1..Len(pending) : pending'[k] = pending[k]
        /\ pending'[Len(pending) + 1] = m
    BY <1>2, <2>1, AppendFacts DEF Push
  <2>3. \A k \in 1..Len(pending') :
          \/ k \in 1..Len(pending) /\ pending'[k].seq = pending[k].seq
          \/ k = Len(pending) + 1 /\ pending'[k].seq = id[t]
    BY <2>1, <2>2
  <2>4. /\ id' = [id EXCEPT ![t] = None]
        /\ UNCHANGED <<free, bound, requests, results, res>>
    BY <1>2 DEF Push, netVars
  <2> HIDE DEF m
  <2>5. Allocated'
    BY <2>1, <2>3, <2>4 DEF Allocated, InUse
  <2>6. Distinct'
    BY <2>1, <2>3, <2>4 DEF Distinct, Apart
  <2>7. \A s \in Threads : id'[s] # id[t] /\ id'[s] \in {id[s], None}
    BY <2>1, <2>4 DEF Distinct
  <2>8. \A s \in Threads, k \in 1..Len(pending') : id'[s] # pending'[k].seq
    <3> TAKE s \in Threads, k \in 1..Len(pending')
    <3>1. CASE k \in 1..Len(pending) /\ pending'[k].seq = pending[k].seq
      <4>1. pending[k].seq \in Ids /\ id[s] # pending[k].seq
        BY <3>1 DEF Apart
      <4> QED BY <2>7, <3>1, <4>1
    <3>2. CASE pending'[k].seq = id[t]
      BY <2>7, <3>2
    <3> QED BY <2>3, <3>1, <3>2
  <2>9. \A s \in Threads :
          /\ \A r \in requests' : id'[s] # r.seq
          /\ \A k \in 1..Len(results') : id'[s] # results'[k].seq
          /\ res' # None => id'[s] # res'.seq
    BY <2>4, <2>7, <1>0 DEF Apart, TypeOK
  <2>10. \A k \in 1..Len(pending') :
          /\ \A r \in requests' : pending'[k].seq # r.seq
          /\ \A j \in 1..Len(results') : pending'[k].seq # results'[j].seq
          /\ res' # None => pending'[k].seq # res'.seq
    <3> TAKE k \in 1..Len(pending')
    <3>1. CASE k \in 1..Len(pending) /\ pending'[k].seq = pending[k].seq
      BY <2>4, <3>1 DEF Apart
    <3>2. CASE pending'[k].seq = id[t]
      BY <2>4, <3>2 DEF Apart
    <3> QED BY <2>3, <3>1, <3>2
  <2> QED BY <2>4, <2>5, <2>6, <2>8, <2>9, <2>10 DEF Apart
<1>3. CASE HandleWriteEvent /\ pending # <<>>
  <2>0. pending' = Tail(pending) /\ pending # <<>> /\ pending \in Seq(Messages)
    BY <1>3 DEF HandleWriteEvent
  <2>1. /\ Head(pending) = pending[1] /\ Head(pending) \in Messages
        /\ 1 \in 1..Len(pending)
        /\ \A k \in 1..Len(pending') :
             k + 1 \in 1..Len(pending) /\ pending'[k] = pending[k + 1]
    BY ONLY <2>0, TailFacts
  <2>2. Len(pending') \in Nat
    BY ONLY <2>0, TailFacts
  <2>3. \A m \in requests' : m \in requests \/ m = pending[1]
    BY <1>3, <2>1 DEF HandleWriteEvent
  <2>4. UNCHANGED <<free, bound, id, results, res>>
    BY <1>3 DEF HandleWriteEvent, threadVars
  <2>5. Allocated'
    BY <2>1, <2>2, <2>3, <2>4 DEF Allocated, InUse
  <2>6. \A k \in 1..Len(pending') : pending'[k].seq # pending[1].seq
    BY <2>1, <2>2 DEF Distinct
  <2>7. \A j, k \in 1..Len(pending') : pending'[j].seq = pending'[k].seq => j = k
    BY <2>1, <2>2 DEF Distinct
  <2>8. \A m, n \in requests' : m.seq = n.seq => m = n
    BY <2>1, <2>3 DEF Distinct, Apart
  <2>9. Distinct'
    BY <2>4, <2>7, <2>8 DEF Distinct
  <2>10. \A k \in 1..Len(pending') :
          /\ \A t \in Threads : id'[t] # pending'[k].seq
          /\ \A m \in requests' : pending'[k].seq # m.seq
          /\ \A j \in 1..Len(results') : pending'[k].seq # results'[j].seq
          /\ res' # None => pending'[k].seq # res'.seq
    <3> TAKE k \in 1..Len(pending')
    <3>1. k + 1 \in 1..Len(pending) /\ pending'[k].seq = pending[k + 1].seq
      BY <2>1
    <3>2. \A m \in requests' : pending'[k].seq # m.seq
      BY <2>3, <2>6, <3>1 DEF Apart
    <3>3. /\ \A t \in Threads : id[t] # pending[k + 1].seq
          /\ \A j \in 1..Len(results) : pending[k + 1].seq # results[j].seq
          /\ res # None => pending[k + 1].seq # res.seq
      BY <3>1 DEF Apart
    <3> QED BY <2>4, <3>1, <3>2, <3>3
  <2>11. \A m \in requests' :
          /\ \A t \in Threads : id'[t] # m.seq
          /\ \A j \in 1..Len(results') : m.seq # results'[j].seq
          /\ res' # None => m.seq # res'.seq
    BY <2>1, <2>3, <2>4 DEF Apart
  <2> QED BY <2>4, <2>5, <2>9, <2>10, <2>11 DEF Apart
<1>4. ASSUME NEW m \in Messages, Answer(m)
      PROVE  Distinct' /\ Apart' /\ Allocated'
  <2>1. /\ Len(results') = Len(results) + 1
        /\ \A k \in 1..Len(results) : results'[k] = results[k]
        /\ results'[Len(results) + 1] = m
    BY <1>4, AppendFacts DEF Answer
  <2>2. \A k \in 1..Len(results') :
          \/ k \in 1..Len(results) /\ results'[k].seq = results[k].seq
          \/ k = Len(results) + 1 /\ results'[k].seq = m.seq
    BY <2>1
  <2>3. m \in requests /\ requests' = requests \ {m}
    BY <1>4 DEF Answer
  <2>4. UNCHANGED <<free, bound, id, pending, res>>
    BY <1>4 DEF Answer, threadVars, netVars
  <2>5. Allocated'
    BY <2>2, <2>3, <2>4 DEF Allocated, InUse
  <2>6. Distinct'
    BY <2>2, <2>3, <2>4 DEF Distinct, Apart
  <2>a. /\ \A r \in requests' : r.seq # m.seq
        /\ \A t \in Threads : id[t] # m.seq
        /\ \A k \in 1..Len(pending) : pending[k].seq # m.seq
        /\ res # None => m.seq # res.seq
    BY <2>3 DEF Distinct, Apart
  <2>b. \A k \in 1..Len(results') :
          /\ \A r \in requests' : r.seq # results'[k].seq
          /\ \A t \in Threads : id[t] # results'[k].seq
          /\ \A j \in 1..Len(pending) : pending[j].seq # results'[k].seq
          /\ res # None => results'[k].seq # res.seq
    <3> TAKE k \in 1..Len(results')
    <3>1. CASE k \in 1..Len(results) /\ results'[k].seq = results[k].seq
      BY <2>3, <3>1 DEF Apart
    <3>2. CASE results'[k].seq = m.seq
      BY <2>a, <3>2
    <3> QED BY <2>2, <3>1, <3>2
  <2>7. Apart'
    BY <2>3, <2>4, <2>b DEF Apart
  <2> QED BY <2>5, <2>6, <2>7
<1>5. CASE Recv
  <2>0. /\ results' = Tail(results) /\ results # <<>>
        /\ results \in Seq(Messages)
        /\ res' = Head(results)
    BY <1>5 DEF Recv, Labels
  <2>1. /\ res' = results[1] /\ res' \in Messages
        /\ 1 \in 1..Len(results)
        /\ Len(results') \in Nat
        /\ \A k \in 1..Len(results') :
             k + 1 \in 1..Len(results) /\ results'[k] = results[k + 1]
    BY ONLY <2>0, TailFacts
  <2>2. UNCHANGED <<free, bound, id, pending, requests>>
    BY <1>5 DEF Recv, threadVars
  <2>3. Allocated'
    BY <2>1, <2>2 DEF Allocated, InUse
  <2>a. \A j, k \in 1..Len(results') : results'[j].seq = results'[k].seq => j = k
    <3> TAKE j, k \in 1..Len(results')
    <3>1. results[j + 1].seq = results[k + 1].seq => j + 1 = k + 1
      BY <2>1 DEF Distinct
    <3> QED BY <2>1, <3>1
  <2>4. Distinct'
    BY <2>2, <2>a DEF Distinct
  <2>5. \A k \in 1..Len(results') : results'[k].seq # res'.seq
    <3> TAKE k \in 1..Len(results')
    <3>1. k + 1 \in 1..Len(results) /\ results'[k] = results[k + 1]
      BY <2>1
    <3>2. results[k + 1].seq = results[1].seq => k + 1 = 1
      BY <2>1, <3>1 DEF Distinct
    <3>3. k + 1 # 1
      OBVIOUS
    <3> QED BY <2>1, <3>1, <3>2, <3>3
  <2>6. \A k \in 1..Len(results') :
          /\ \A t \in Threads : id'[t] # results'[k].seq
          /\ \A j \in 1..Len(pending') : pending'[j].seq # results'[k].seq
          /\ \A m \in requests' : m.seq # results'[k].seq
    BY <2>1, <2>2 DEF Apart
  <2>7. /\ \A t \in Threads : id'[t] # res'.seq
        /\ \A j \in 1..Len(pending') : pending'[j].seq # res'.seq
        /\ \A m \in requests' : m.seq # res'.seq
    BY <2>1, <2>2 DEF Apart
  <2> QED BY <2>2, <2>3, <2>4, <2>5, <2>6, <2>7 DEF Apart
<1>6. CASE RecycleGuid
  <2>1. /\ res # None /\ res' = None
        /\ InUse' = InUse \ {res.seq}
        /\ free' \subseteq 1..bound'
        /\ UNCHANGED <<id, pending, requests, results>>
    BY <1>6 DEF RecycleGuid, Guid!Recycle, InUse, Labels, Allocated, threadVars
  <2>2. Allocated'
    BY <2>1 DEF Allocated, Apart
  <2>3. Distinct' /\ Apart'
    BY <2>1 DEF Distinct, Apart
  <2> QED BY <2>2, <2>3
<1>7. CASE UNCHANGED <<free, bound, id, pending, requests, results, res>>
  BY <1>7 DEF Distinct, Apart, Allocated, InUse
<1>8. ASSUME NEW t \in Threads, BeginRefused(t) \/ Register(t) \/ EndCall(t)
      PROVE  UNCHANGED <<free, bound, id, pending, requests, results, res>>
  BY <1>8 DEF BeginRefused, Register, EndCall, netVars
<1>9. CASE Dispatch \/ Exec \/ Clear \/ ServerCloses \/ UNCHANGED vars
  BY <1>7, <1>9 DEF Dispatch, Exec, Clear, ServerCloses, vars, threadVars, netVars
<1>10. CASE HandleWriteEvent /\ pending = <<>>
  BY <1>7, <1>10 DEF HandleWriteEvent, threadVars
<1> QED
  BY <1>1, <1>2, <1>3, <1>4, <1>5, <1>6, <1>7, <1>8, <1>9, <1>10
  DEF Next, ThreadStep, NetStep

-----------------------------------------------------------------------------
(* The slot of an id that is carried holds the call that carries it.       *)
LEMMA SlotsStep == Route /\ [Next]_vars => Slots'
<1> SUFFICES ASSUME Route, [Next]_vars PROVE Slots'
  OBVIOUS
<1>0. /\ TypeOK /\ Labels /\ Distinct /\ Apart /\ Slots
      /\ pc \in [Threads -> PCs]
      /\ id \in [Threads -> Ids \cup {None}]
      /\ slots \in [Ids -> Calls \cup {None}]
      /\ pending \in Seq(Messages)
      /\ results \in Seq(Messages)
      /\ requests \subseteq Messages
      /\ res \in Messages \cup {None}
      /\ Len(pending) \in Nat /\ Len(results) \in Nat
      /\ \A m \in Messages : m.seq \in Ids
      /\ None \notin Ids /\ None \notin Messages
  BY NoneAssumption DEF Route, TypeOK, Messages
<1> USE <1>0 DEF Goto
<1>1. ASSUME NEW t \in Threads, BeginCall(t) PROVE Slots'
  <2>1. \A s \in Threads : pc'[s] = "push" =>
          s # t /\ pc[s] = "push" /\ id'[s] = id[s] /\ made'[s] = made[s]
    BY <1>1 DEF BeginCall, TypeOK
  <2> QED BY <1>1, <2>1 DEF BeginCall, Slots, CallOf, netVars
<1>2. ASSUME NEW t \in Threads, BeginRefused(t) PROVE Slots'
  <2>1. \A s \in Threads : pc'[s] = "push" =>
          s # t /\ pc[s] = "push" /\ made'[s] = made[s]
    BY <1>2 DEF BeginRefused, TypeOK
  <2> QED BY <1>2, <2>1 DEF BeginRefused, Slots, CallOf, netVars
<1>3. ASSUME NEW t \in Threads, Register(t) PROVE Slots'
  <2>1. /\ id[t] \in Ids
        /\ slots'[id[t]] = CallOf(t)
        /\ \A i \in Ids : i # id[t] => slots'[i] = slots[i]
        /\ UNCHANGED <<made, id, pending, requests, results, net, res>>
    BY <1>3 DEF Register, Labels, netVars
  <2>2. \A s \in Threads : pc'[s] = "push" => slots'[id'[s]] = CallOf(s)'
    <3> SUFFICES ASSUME NEW s \in Threads, pc'[s] = "push"
                 PROVE  slots'[id'[s]] = CallOf(s)'
      OBVIOUS
    <3>1. CASE s = t
      BY <2>1, <3>1 DEF CallOf
    <3>2. CASE s # t
      <4>1. pc[s] = "push" /\ id[s] \in Ids /\ id[s] # id[t]
        BY <1>3, <2>1, <3>2 DEF Register, Labels, Distinct
      <4> QED BY <2>1, <4>1 DEF Slots, CallOf
    <3> QED BY <3>1, <3>2
  <2>a. /\ \A k \in 1..Len(pending) : pending[k].seq \in Ids
        /\ \A k \in 1..Len(results) : results[k].seq \in Ids
    OBVIOUS
  <2>b. \A k \in 1..Len(pending) : slots'[pending[k].seq] = pending[k].call
    BY <2>1, <2>a DEF Slots, Apart
  <2>c. \A k \in 1..Len(results) : slots'[results[k].seq] = results[k].call
    BY <2>1, <2>a DEF Slots, Apart
  <2>4. /\ \A m \in requests : slots'[m.seq] = m.call
        /\ net = "exec" => slots'[res.seq] = res.call
    BY <2>1 DEF Slots, Apart, Labels
  <2> QED BY <2>1, <2>2, <2>b, <2>c, <2>4 DEF Slots
<1>4. ASSUME NEW t \in Threads, Push(t) PROVE Slots'
  <2> DEFINE m == [seq |-> id[t], call |-> CallOf(t)]
  <2>1. /\ m.seq = id[t] /\ m.call = CallOf(t) /\ m \in Messages
        /\ slots[id[t]] = CallOf(t)
    BY <1>4, CallTyped DEF Push, Labels, Messages, Slots
  <2>2. /\ Len(pending') = Len(pending) + 1
        /\ \A k \in 1..Len(pending) : pending'[k] = pending[k]
        /\ pending'[Len(pending) + 1] = m
    BY <1>4, <2>1, AppendFacts DEF Push
  <2> HIDE DEF m
  <2>3. \A k \in 1..Len(pending') : slots[pending'[k].seq] = pending'[k].call
    BY <2>1, <2>2 DEF Slots
  <2>4. \A s \in Threads : pc'[s] = "push" =>
          s # t /\ pc[s] = "push" /\ id'[s] = id[s]
    BY <1>4 DEF Push
  <2> QED BY <1>4, <2>3, <2>4 DEF Push, Slots, CallOf, netVars
<1>5. ASSUME NEW t \in Threads, EndCall(t) PROVE Slots'
  BY <1>5 DEF EndCall, Slots, CallOf, netVars
<1>6. CASE Dispatch \/ Exec \/ RecycleGuid \/ ServerCloses \/ UNCHANGED vars
  BY <1>6 DEF Dispatch, Exec, RecycleGuid, ServerCloses, Slots, CallOf, vars,
              threadVars, netVars
<1>7. CASE Recv
  <2>0. /\ results' = Tail(results) /\ results # <<>>
        /\ results \in Seq(Messages)
        /\ res' = Head(results)
    BY <1>7 DEF Recv, Labels
  <2>1. /\ res' = results[1]
        /\ 1 \in 1..Len(results)
        /\ \A k \in 1..Len(results') :
             k + 1 \in 1..Len(results) /\ results'[k] = results[k + 1]
    BY ONLY <2>0, TailFacts
  <2>2. UNCHANGED <<pc, made, id, slots, pending, requests>>
    BY <1>7 DEF Recv, threadVars
  <2>3. slots[res'.seq] = res'.call
    BY <2>1 DEF Slots
  <2>4. \A k \in 1..Len(results') : slots[results'[k].seq] = results'[k].call
    BY <2>1 DEF Slots
  <2> QED BY <2>2, <2>3, <2>4 DEF Slots, CallOf
<1>8. CASE Clear
  <2>1. /\ res # None /\ net' = "recycle"
        /\ \A i \in Ids : i # res.seq => slots'[i] = slots[i]
        /\ UNCHANGED <<pc, made, id, pending, requests, results>>
    BY <1>8 DEF Clear, Labels, threadVars
  <2>2. \A t \in Threads : pc[t] = "push" => slots'[id[t]] = CallOf(t)
    BY <2>1 DEF Slots, Apart, Labels
  <2>3. /\ \A k \in 1..Len(pending) : slots'[pending[k].seq] = pending[k].call
        /\ \A k \in 1..Len(results) : slots'[results[k].seq] = results[k].call
        /\ \A m \in requests : slots'[m.seq] = m.call
    BY <2>1 DEF Slots, Apart
  <2> QED BY <2>1, <2>2, <2>3 DEF Slots, CallOf
<1>9. CASE HandleWriteEvent
  <2>1. CASE pending = <<>>
    BY <1>9, <2>1 DEF HandleWriteEvent, Slots, CallOf, threadVars
  <2>2. CASE pending # <<>>
    <3>0. pending' = Tail(pending) /\ pending # <<>> /\ pending \in Seq(Messages)
      BY <1>9, <2>2 DEF HandleWriteEvent
    <3>1. /\ Head(pending) = pending[1] /\ 1 \in 1..Len(pending)
          /\ \A k \in 1..Len(pending') :
               k + 1 \in 1..Len(pending) /\ pending'[k] = pending[k + 1]
      BY ONLY <3>0, TailFacts
    <3>2. \A m \in requests' : m \in requests \/ m = pending[1]
      BY <1>9, <2>2, <3>1 DEF HandleWriteEvent
    <3>3. UNCHANGED <<pc, made, id, slots, results, res>> /\ net' = "poll"
      BY <1>9 DEF HandleWriteEvent, threadVars
    <3>4. \A k \in 1..Len(pending') : slots[pending'[k].seq] = pending'[k].call
      BY <3>1 DEF Slots
    <3>5. \A m \in requests' : slots[m.seq] = m.call
      BY <3>1, <3>2 DEF Slots
    <3> QED BY <3>3, <3>4, <3>5 DEF Slots, CallOf
  <2> QED BY <2>1, <2>2
<1>10. ASSUME NEW m \in Messages, Answer(m) PROVE Slots'
  <2>1. /\ Len(results') = Len(results) + 1
        /\ \A k \in 1..Len(results) : results'[k] = results[k]
        /\ results'[Len(results) + 1] = m
    BY <1>10, AppendFacts DEF Answer
  <2>2. \A k \in 1..Len(results') : slots[results'[k].seq] = results'[k].call
    BY <1>10, <2>1 DEF Answer, Slots
  <2> QED BY <1>10, <2>2 DEF Answer, Slots, CallOf, threadVars, netVars
<1> QED
  BY <1>1, <1>2, <1>3, <1>4, <1>5, <1>6, <1>7, <1>8, <1>9, <1>10
  DEF Next, ThreadStep, NetStep

-----------------------------------------------------------------------------
(* The invariant holds throughout.                                         *)
LEMMA RouteInvariant == Spec => []Route
<1>1. Init => Route
  BY InitRoute
<1>2. Route /\ [Next]_vars => Route'
  BY TypeStep, LabelsStep, CarriedStep, SlotsStep DEF Route
<1> QED BY <1>1, <1>2, PTL DEF Spec

(* The client keeps its types, whatever ids are handed out and recycled.   *)
THEOREM ClientTyped == Spec => []TypeOK
<1>1. Route => TypeOK
  BY DEF Route
<1> QED BY <1>1, RouteInvariant, PTL

(* HandleReadEvent runs the callback of the call whose result it received, *)
(* for any number of threads and calls and any number of ids.              *)
THEOREM ResultsFindTheirCallback == Spec => []CallbackMatches
BY RouteImpliesMatch, RouteInvariant, PTL

-----------------------------------------------------------------------------
(* Push and HandleWriteEvent leave EPOLLOUT as the queue demands.          *)
LEMMA ArmedStep == TypeOK /\ OutArmed /\ [Next]_vars => OutArmed'
<1> SUFFICES ASSUME TypeOK, OutArmed, [Next]_vars PROVE OutArmed'
  OBVIOUS
<1>0. pending \in Seq(Messages) /\ out \in BOOLEAN
  BY DEF TypeOK
<1>1. ASSUME NEW t \in Threads, Push(t) PROVE OutArmed'
  <2>1. pending' # <<>>
    BY <1>0, <1>1 DEF Push
  <2> QED BY <1>1, <2>1 DEF Push, OutArmed
<1>2. CASE HandleWriteEvent
  <2>1. CASE pending = <<>>
    BY <1>2, <2>1 DEF HandleWriteEvent, OutArmed
  <2>2. CASE pending # <<>>
    <3>1. out /\ out' = (out /\ pending' # <<>>)
      BY <1>2, <2>2 DEF HandleWriteEvent, OutArmed
    <3> QED BY <3>1 DEF OutArmed
  <2> QED BY <2>1, <2>2
<1>3. CASE UNCHANGED <<out, pending>>
  BY <1>3 DEF OutArmed
<1>4. ASSUME NEW t \in Threads,
             BeginCall(t) \/ BeginRefused(t) \/ Register(t) \/ EndCall(t)
      PROVE  UNCHANGED <<out, pending>>
  BY <1>4 DEF BeginCall, BeginRefused, Register, EndCall
<1>5. CASE Dispatch \/ Recv \/ Exec \/ Clear \/ RecycleGuid \/ ServerCloses
  BY <1>3, <1>5 DEF Dispatch, Recv, Exec, Clear, RecycleGuid, ServerCloses
<1>6. ASSUME NEW m \in Messages, Answer(m) PROVE OutArmed'
  BY <1>3, <1>6 DEF Answer
<1>7. CASE UNCHANGED vars
  BY <1>3, <1>7 DEF vars
<1> QED
  BY <1>1, <1>2, <1>3, <1>4, <1>5, <1>6, <1>7 DEF Next, ThreadStep, NetStep

(* Push and HandleWriteEvent keep EPOLLOUT armed exactly while requests    *)
(* are waiting.                                                            *)
THEOREM WriteEventArmed == Spec => []OutArmed
<1>1. Init => OutArmed
  BY DEF Init, OutArmed
<1> QED BY <1>1, ArmedStep, ClientTyped, PTL DEF Spec

-----------------------------------------------------------------------------
(* Where the ids are.                                                      *)

Items(q) == {q[k] : k \in 1..Len(q)}

Travelling ==
  Items(pending) \cup requests \cup Items(results) \cup ({res} \ {None})

(* The ids that a thread, a message or the network thread has.             *)
Carried ==
  ({id[t] : t \in Threads} \ {None}) \cup {m.seq : m \in Travelling}

Gone == {m.seq : m \in dropped}

(* Guid's books: each id in use is carried, or gone with one request.      *)
Books ==
  /\ InUse = Carried \cup Gone
  /\ Carried \cap Gone = {}
  /\ \A m, n \in dropped : m.seq = n.seq => m = n

LEMMA ItemsFacts ==
  /\ \A q \in Seq(Messages) : Items(q) \subseteq Messages
  /\ \A q \in Seq(Messages), m \in Messages : Items(Append(q, m)) = Items(q) \cup {m}
  /\ \A q \in Seq(Messages) : q # <<>> =>
       Head(q) \in Messages /\ Items(q) = Items(Tail(q)) \cup {Head(q)}
<1>1. ASSUME NEW q \in Seq(Messages) PROVE Items(q) \subseteq Messages
  BY DEF Items
<1>2. ASSUME NEW q \in Seq(Messages), NEW m \in Messages
      PROVE  Items(Append(q, m)) = Items(q) \cup {m}
  <2>1. /\ Len(q) \in Nat /\ Len(Append(q, m)) = Len(q) + 1
        /\ \A i \in 1..Len(q) : Append(q, m)[i] = q[i]
        /\ Append(q, m)[Len(q) + 1] = m
    BY AppendFacts
  <2>2. \A i : i \in 1..(Len(q) + 1) <=> i \in 1..Len(q) \/ i = Len(q) + 1
    BY <2>1
  <2> QED BY <2>1, <2>2 DEF Items
<1>3. ASSUME NEW q \in Seq(Messages), q # <<>>
      PROVE  Head(q) \in Messages /\ Items(q) = Items(Tail(q)) \cup {Head(q)}
  <2>1. /\ Len(q) \in Nat \ {0} /\ Len(Tail(q)) = Len(q) - 1
        /\ \A i \in 1..Len(Tail(q)) : i + 1 \in 1..Len(q) /\ Tail(q)[i] = q[i + 1]
        /\ Head(q) = q[1] /\ Head(q) \in Messages
    BY <1>3, TailFacts
  <2>2. ASSUME NEW i \in 1..Len(q), i # 1
        PROVE  i - 1 \in 1..Len(Tail(q)) /\ Tail(q)[i - 1] = q[i]
    <3>1. i - 1 \in 1..Len(Tail(q)) /\ (i - 1) + 1 = i
      BY <2>1, <2>2
    <3> QED BY <2>1, <3>1
  <2>3. 1 \in 1..Len(q)
    BY <2>1
  <2>4. ASSUME NEW x \in Items(q) PROVE x \in Items(Tail(q)) \/ x = Head(q)
    BY <2>1, <2>2 DEF Items
  <2>5. Items(Tail(q)) \subseteq Items(q) /\ Head(q) \in Items(q)
    BY <2>1, <2>3 DEF Items
  <2> QED BY <2>1, <2>4, <2>5
<1> QED BY <1>1, <1>2, <1>3

(* Every step keeps the books.                                             *)
LEMMA BooksStep == Route /\ Books /\ [Next]_vars => Books'
<1> SUFFICES ASSUME Route, Books, [Next]_vars PROVE Books'
  OBVIOUS
<1>0. /\ TypeOK /\ Labels /\ Distinct /\ Apart /\ Allocated
      /\ id \in [Threads -> Ids \cup {None}]
      /\ pending \in Seq(Messages) /\ results \in Seq(Messages)
      /\ None \notin Ids /\ None \notin Messages
      /\ InUse = Carried \cup Gone /\ Carried \cap Gone = {}
  BY NoneAssumption DEF Route, TypeOK, Books
<1>1. ASSUME Carried' = Carried, InUse' = InUse, dropped' = dropped PROVE Books'
  BY <1>1 DEF Books, Gone
<1>2. CASE UNCHANGED <<free, bound, id, pending, requests, results, res, dropped>>
  BY <1>1, <1>2 DEF Carried, Travelling, Items, InUse
<1>3. ASSUME NEW t \in Threads, BeginCall(t) PROVE Books'
  <2>1. PICK i \in Ids : Guid!Allocate(i) /\ id' = [id EXCEPT ![t] = i]
    BY <1>3 DEF BeginCall
  <2>2. i \notin InUse /\ InUse' = InUse \cup {i}
    BY <1>0, <2>1, FreshId DEF Allocated
  <2>3. UNCHANGED <<pending, requests, results, res, dropped>> /\ id[t] = None
    BY <1>0, <1>3 DEF BeginCall, netVars, Labels
  <2>4. {id'[s] : s \in Threads} \ {None} = ({id[s] : s \in Threads} \ {None}) \cup {i}
    <3>1. \A s \in Threads : id'[s] = IF s = t THEN i ELSE id[s]
      BY <1>0, <2>1
    <3> QED BY <1>0, <2>3, <3>1
  <2>5. Carried' = Carried \cup {i}
    <3>1. Travelling' = Travelling
      BY <2>3 DEF Travelling, Items
    <3> QED BY <2>4, <3>1 DEF Carried
  <2>6. Gone' = Gone
    BY <2>3 DEF Gone
  <2> QED BY <1>0, <2>2, <2>3, <2>5, <2>6 DEF Books
<1>4. ASSUME NEW t \in Threads, Push(t) PROVE Books'
  <2> DEFINE m == [seq |-> id[t], call |-> CallOf(t)]
  <2>1. /\ id[t] \in Ids /\ m.seq = id[t] /\ m \in Messages
    BY <1>0, <1>4, CallTyped DEF Push, Labels, Messages
  <2>2. /\ pending' = Append(pending, m) /\ id' = [id EXCEPT ![t] = None]
        /\ UNCHANGED <<free, bound, requests, results, res, dropped>>
    BY <1>4 DEF Push, netVars
  <2> HIDE DEF m
  <2>3. Items(pending') = Items(pending) \cup {m}
    BY <1>0, <2>1, <2>2, ItemsFacts
  <2>4. Items(results)' = Items(results)
    BY <2>2 DEF Items
  <2>5. Travelling' = Travelling \cup {m}
    <3>1. Items(pending)' = Items(pending) \cup {m}
      BY <2>3 DEF Items
    <3> QED BY <2>2, <2>4, <3>1 DEF Travelling
  <2>6. {id[s] : s \in Threads} \ {None}
          = ({id'[s] : s \in Threads} \ {None}) \cup {id[t]}
    <3>1. \A s \in Threads : id'[s] = IF s = t THEN None ELSE id[s]
      BY <1>0, <2>2
    <3> QED BY <1>0, <2>1, <3>1
  <2>7. {q.seq : q \in Travelling'} = {q.seq : q \in Travelling} \cup {id[t]}
    BY <2>1, <2>5
  <2>8. Carried' = Carried
    BY <2>6, <2>7 DEF Carried
  <2> QED BY <1>1, <2>2, <2>8 DEF InUse
<1>5. CASE HandleWriteEvent /\ pending # <<>>
  <2> DEFINE m == Head(pending)
  <2>1. /\ pending' = Tail(pending)
        /\ UNCHANGED <<free, bound, id, results, res>>
        /\ \/ requests' = requests \cup {m} /\ dropped' = dropped
           \/ requests' = requests /\ dropped' = dropped \cup {m}
    BY <1>5 DEF HandleWriteEvent, threadVars
  <2>2. Items(pending) = Items(pending)' \cup {m} /\ m \in Messages
    <3>1. Items(pending) = Items(pending') \cup {m} /\ m \in Messages
      BY <1>0, <1>5, <2>1, ItemsFacts
    <3> QED BY <3>1 DEF Items
  <2>3. Items(results)' = Items(results)
    BY <2>1 DEF Items
  <2> HIDE DEF m
  <2>4. CASE requests' = requests \cup {m} /\ dropped' = dropped
    <3>1. Travelling' = Travelling
      BY <2>1, <2>2, <2>3, <2>4 DEF Travelling
    <3>2. Carried' = Carried
      BY <2>1, <3>1 DEF Carried
    <3> QED BY <1>1, <2>1, <2>4, <3>2 DEF InUse
  <2>5. CASE requests' = requests /\ dropped' = dropped \cup {m}
    <3>1. Travelling = Travelling' \cup {m}
      BY <2>1, <2>2, <2>3, <2>5 DEF Travelling
    <3>2. Carried = Carried' \cup {m.seq}
      BY <2>1, <3>1 DEF Carried
    <3>3. m.seq \notin Carried'
      <4>1. m = pending[1] /\ 1 \in 1..Len(pending) /\ Len(pending) \in Nat
            /\ \A k \in 1..Len(pending') :
                 k + 1 \in 1..Len(pending) /\ pending'[k] = pending[k + 1] /\ k + 1 # 1
        BY <1>0, <1>5, <2>1, TailFacts DEF m
      <4>2. \A k \in 1..Len(pending') : pending'[k].seq # m.seq
        BY <1>0, <4>1 DEF Distinct
      <4>3. /\ \A s \in Threads : id[s] # m.seq
            /\ \A n \in requests : n.seq # m.seq
            /\ \A k \in 1..Len(results) : results[k].seq # m.seq
            /\ res # None => res.seq # m.seq
        BY <1>0, <4>1 DEF Apart
      <4>4. \A n \in Travelling' : n.seq # m.seq
        BY <2>1, <2>5, <4>2, <4>3 DEF Travelling, Items
      <4>5. m.seq \notin {id'[s] : s \in Threads}
        BY <2>1, <4>3
      <4> QED BY <4>4, <4>5 DEF Carried
    <3>4. Gone' = Gone \cup {m.seq}
      BY <2>5 DEF Gone
    <3>5. m.seq \in Carried
      BY <3>2
    <3>6. \A n \in dropped : n.seq # m.seq
      BY <1>0, <3>5 DEF Gone
    <3>7. \A n, q \in dropped' : n.seq = q.seq => n = q
      BY <2>5, <3>6 DEF Books
    <3>8. InUse' = InUse
      BY <2>1 DEF InUse
    <3>9. InUse' = Carried' \cup Gone' /\ Carried' \cap Gone' = {}
      BY <1>0, <3>2, <3>3, <3>4, <3>8
    <3> QED BY <3>7, <3>9 DEF Books
  <2> QED BY <2>1, <2>4, <2>5
<1>6. ASSUME NEW m \in Messages, Answer(m) PROVE Books'
  <2>1. /\ m \in requests /\ requests' = requests \ {m}
        /\ results' = Append(results, m)
        /\ UNCHANGED <<free, bound, id, pending, res, dropped>>
    BY <1>6 DEF Answer, threadVars, netVars
  <2>2. Items(results)' = Items(results) \cup {m}
    BY <1>0, <2>1, ItemsFacts DEF Items
  <2>3. Items(pending)' = Items(pending)
    BY <2>1 DEF Items
  <2>4. Travelling' = Travelling
    BY <2>1, <2>2, <2>3 DEF Travelling
  <2>5. Carried' = Carried
    BY <2>1, <2>4 DEF Carried
  <2> QED BY <1>1, <2>1, <2>5 DEF InUse
<1>7. CASE Recv
  <2>1. /\ results # <<>> /\ results' = Tail(results) /\ res' = Head(results)
        /\ res = None
        /\ UNCHANGED <<free, bound, id, pending, requests, dropped>>
    BY <1>0, <1>7 DEF Recv, Labels, threadVars
  <2>2. Items(results) = Items(results)' \cup {res'} /\ res' \in Messages
    <3>1. Items(results) = Items(results') \cup {res'} /\ res' \in Messages
      BY <1>0, <2>1, ItemsFacts
    <3> QED BY <3>1 DEF Items
  <2>3. Items(pending)' = Items(pending)
    BY <2>1 DEF Items
  <2>4. {res'} \ {None} = {res'} /\ {res} \ {None} = {}
    BY <1>0, <2>1, <2>2
  <2>5. Travelling' = Travelling
    BY <2>1, <2>2, <2>3, <2>4 DEF Travelling
  <2>6. Carried' = Carried
    BY <2>1, <2>5 DEF Carried
  <2> QED BY <1>1, <2>1, <2>6 DEF InUse
<1>8. CASE RecycleGuid
  <2>1. /\ res # None /\ res' = None
        /\ InUse' = InUse \ {res.seq}
        /\ UNCHANGED <<id, pending, requests, results, dropped>>
    BY <1>0, <1>8 DEF RecycleGuid, Guid!Recycle, InUse, Labels, threadVars
  <2>2. Travelling = Travelling' \cup {res}
    BY <2>1 DEF Travelling, Items
  <2>3. Carried = Carried' \cup {res.seq}
    BY <2>1, <2>2 DEF Carried
  <2>4. res.seq \notin Carried'
    <3>1. /\ \A s \in Threads : id[s] # res.seq
          /\ \A n \in requests : n.seq # res.seq
          /\ \A k \in 1..Len(pending) : pending[k].seq # res.seq
          /\ \A k \in 1..Len(results) : results[k].seq # res.seq
      BY <1>0, <2>1 DEF Apart
    <3>2. \A n \in Travelling' : n.seq # res.seq
      BY <2>1, <3>1 DEF Travelling, Items
    <3> QED BY <2>1, <3>1, <3>2 DEF Carried
  <2>5. Gone' = Gone
    BY <2>1 DEF Gone
  <2>6. InUse' = Carried' \cup Gone' /\ Carried' \cap Gone' = {}
    BY <1>0, <2>1, <2>3, <2>4, <2>5
  <2> QED BY <2>1, <2>6 DEF Books
<1>9. ASSUME NEW t \in Threads, BeginRefused(t) \/ Register(t) \/ EndCall(t)
      PROVE  Books'
  BY <1>2, <1>9 DEF BeginRefused, Register, EndCall, netVars
<1>10. CASE Dispatch \/ Exec \/ Clear \/ ServerCloses \/ UNCHANGED vars
  BY <1>2, <1>10 DEF Dispatch, Exec, Clear, ServerCloses, vars, threadVars, netVars
<1>11. CASE HandleWriteEvent /\ pending = <<>>
  BY <1>2, <1>11 DEF HandleWriteEvent, threadVars
<1> QED
  BY <1>3, <1>4, <1>5, <1>6, <1>7, <1>8, <1>9, <1>10, <1>11
  DEF Next, ThreadStep, NetStep

LEMMA BooksInvariant == Spec => []Books
<1>1. Init => Books
  BY DEF Init, Guid!GuidInit, Books, InUse, Carried, Travelling, Items, Gone
<1> QED BY <1>1, BooksStep, RouteInvariant, PTL DEF Spec

(* An id in use has one holder, and one that Guid may hand out has none.   *)
LEMMA BooksBalance == Route /\ Books => IdsAccounted
<1> SUFFICES ASSUME Route, Books, NEW i \in Ids
             PROVE  Cardinality(Holders(i)) = IF i \in (1..bound) \ free THEN 1 ELSE 0
  BY DEF IdsAccounted
<1> DEFINE A == {t \in Threads : id[t] = i}
           B == {k \in 1..Len(pending) : pending[k].seq = i}
           C == {m \in requests : m.seq = i}
           D == {k \in 1..Len(results) : results[k].seq = i}
           E == {m \in {res} \ {None} : m.seq = i}
           F == {m \in dropped : m.seq = i}
<1>0. /\ Distinct /\ Apart /\ InUse = Carried \cup Gone /\ Carried \cap Gone = {}
      /\ InUse = (1..bound) \ free /\ i # None
      /\ \A m, n \in dropped : m.seq = n.seq => m = n
  BY NoneAssumption DEF Route, Books, InUse
<1>1. Holders(i) = ({"thread"} \X A) \cup ({"pending"} \X B) \cup ({"request"} \X C)
                     \cup ({"result"} \X D) \cup ({"network"} \X E)
                     \cup ({"dropped"} \X F)
  BY DEF Holders
<1>2. i \in Carried <=> A # {} \/ B # {} \/ C # {} \/ D # {} \/ E # {}
  BY <1>0 DEF Carried, Travelling, Items
<1>3. i \in Gone <=> F # {}
  BY DEF Gone
<1>4. /\ \A x, y \in A : x = y
      /\ \A x, y \in B : x = y
      /\ \A x, y \in C : x = y
      /\ \A x, y \in D : x = y
      /\ \A x, y \in E : x = y
      /\ \A x, y \in F : x = y
  BY <1>0 DEF Distinct
<1>5. /\ A # {} => B = {} /\ C = {} /\ D = {} /\ E = {}
      /\ B # {} => C = {} /\ D = {} /\ E = {}
      /\ C # {} => D = {} /\ E = {}
      /\ D # {} => E = {}
  BY <1>0 DEF Apart
<1>6. F # {} => A = {} /\ B = {} /\ C = {} /\ D = {} /\ E = {}
  BY <1>0, <1>2, <1>3
<1> HIDE DEF A, B, C, D, E, F
<1>7. CASE i \in InUse
  <2>1. \E h : Holders(i) = {h}
    <3>1. CASE A # {}
      <4>1. PICK x : A = {x}
        BY <1>4, <3>1
      <4>2. Holders(i) = {<<"thread", x>>}
        BY <1>1, <1>5, <1>6, <3>1, <4>1
      <4> QED BY <4>2
    <3>2. CASE A = {} /\ B # {}
      <4>1. PICK x : B = {x}
        BY <1>4, <3>2
      <4>2. Holders(i) = {<<"pending", x>>}
        BY <1>1, <1>5, <1>6, <3>2, <4>1
      <4> QED BY <4>2
    <3>3. CASE A = {} /\ B = {} /\ C # {}
      <4>1. PICK x : C = {x}
        BY <1>4, <3>3
      <4>2. Holders(i) = {<<"request", x>>}
        BY <1>1, <1>5, <1>6, <3>3, <4>1
      <4> QED BY <4>2
    <3>4. CASE A = {} /\ B = {} /\ C = {} /\ D # {}
      <4>1. PICK x : D = {x}
        BY <1>4, <3>4
      <4>2. Holders(i) = {<<"result", x>>}
        BY <1>1, <1>5, <1>6, <3>4, <4>1
      <4> QED BY <4>2
    <3>5. CASE A = {} /\ B = {} /\ C = {} /\ D = {} /\ E # {}
      <4>1. PICK x : E = {x}
        BY <1>4, <3>5
      <4>2. Holders(i) = {<<"network", x>>}
        BY <1>1, <1>6, <3>5, <4>1
      <4> QED BY <4>2
    <3>6. CASE A = {} /\ B = {} /\ C = {} /\ D = {} /\ E = {}
      <4>1. F # {}
        BY <1>0, <1>2, <1>3, <1>7, <3>6
      <4>2. PICK x : F = {x}
        BY <1>4, <4>1
      <4>3. Holders(i) = {<<"dropped", x>>}
        BY <1>1, <3>6, <4>2
      <4> QED BY <4>3
    <3> QED BY <3>1, <3>2, <3>3, <3>4, <3>5, <3>6
  <2> QED BY <1>0, <1>7, <2>1, FS_Singleton
<1>8. CASE i \notin InUse
  <2>1. A = {} /\ B = {} /\ C = {} /\ D = {} /\ E = {} /\ F = {}
    BY <1>0, <1>2, <1>3, <1>8
  <2>2. Holders(i) = {}
    BY <1>1, <2>1
  <2> QED BY <1>0, <1>8, <2>2, FS_EmptySet
<1> QED BY <1>7, <1>8

(* Every id that Guid has handed out and not got back is in one place, and *)
(* one it may hand out is nowhere: ids are lost only with a request that   *)
(* send() refused, for any number of threads, calls and ids.               *)
THEOREM NoIdLeaks == Spec => []IdsAccounted
BY BooksBalance, BooksInvariant, RouteInvariant, PTL

-----------------------------------------------------------------------------
(* Which calls have been called back.                                      *)

(* The requests and results on their way whose callback is still to run.   *)
Flying ==
  Items(pending) \cup requests \cup Items(results)
  \cup (IF net = "exec" THEN {res} ELSE {})

(* A call is in one of them only, and has not been called back; nor has    *)
(* one that its thread has not yet sent or begun.                          *)
Once ==
  /\ \A c \in Calls : executed[c] \in {0, 1}
  /\ \A c \in Calls : c.nth > made[c.thread] => executed[c] = 0
  /\ \A m \in Flying : m.call.nth <= made[m.call.thread] /\ executed[m.call] = 0
  /\ \A m, n \in Flying : m.call = n.call => m.seq = n.seq
  /\ \A t \in Threads : pc[t] \in {"register", "push"} =>
       /\ executed[CallOf(t)] = 0
       /\ \A m \in Flying : m.call # CallOf(t)

LEMMA InitOnce == Init => Once
BY DEF Init, Once, Flying, Items

(* What is on its way is a message; nothing else carries the id of res.    *)
LEMMA FlyingFacts ==
  ASSUME Route
  PROVE  /\ \A m \in Flying : m.call \in Calls /\ m.call.thread \in Threads
                                /\ m.call.nth \in Nat
         /\ net = "exec" => \A m \in Items(pending) \cup requests \cup Items(results) :
                              m.seq # res.seq
<1>0. /\ TypeOK /\ Labels /\ Apart /\ pending \in Seq(Messages)
      /\ results \in Seq(Messages) /\ requests \subseteq Messages
      /\ res \in Messages \cup {None}
  BY DEF Route, TypeOK
<1>1. Flying \subseteq Messages
  <2>1. Items(pending) \subseteq Messages /\ Items(results) \subseteq Messages
    BY <1>0, ItemsFacts
  <2>2. net = "exec" => res \in Messages
    BY <1>0 DEF Labels
  <2> QED BY <1>0, <2>1, <2>2 DEF Flying
<1>2. \A m \in Messages : m.call \in Calls /\ m.call.thread \in Threads /\ m.call.nth \in Nat
  BY DEF Messages, Calls
<1>3. net = "exec" => \A m \in Items(pending) \cup requests \cup Items(results) :
                        m.seq # res.seq
  BY <1>0 DEF Labels, Apart, Items
<1> QED BY <1>1, <1>2, <1>3

(* Nothing new is on its way, no callback runs, and no call is begun.      *)
LEMMA OnceFrame ==
  ASSUME Once, Flying' \subseteq Flying, executed' = executed, made' = made,
         \A t \in Threads : pc'[t] \in {"register", "push"} =>
                              pc[t] \in {"register", "push"}
  PROVE  Once'
<1>1. \A t \in Threads : CallOf(t)' = CallOf(t)
  BY DEF CallOf
<1> QED BY <1>1 DEF Once

(* A new call: nothing carries it.                                         *)
LEMMA OnceBegin ==
  ASSUME Route, Once, NEW t \in Threads, BeginCall(t) \/ BeginRefused(t)
  PROVE  Once'
<1>0. /\ TypeOK /\ made \in [Threads -> 0..MaxCalls] /\ pc \in [Threads -> PCs]
      /\ made[t] \in Nat /\ made[t] < MaxCalls /\ MaxCalls \in Nat
  BY ClientAssumption DEF Route, TypeOK, BeginCall, BeginRefused
<1>1. /\ made' = [made EXCEPT ![t] = made[t] + 1]
      /\ executed' = executed /\ Flying' = Flying
      /\ \A s \in Threads : s # t => pc'[s] = pc[s]
  BY <1>0 DEF BeginCall, BeginRefused, Goto, Flying, Items, netVars
<1>2. /\ made'[t] = made[t] + 1
      /\ \A s \in Threads : s # t => made'[s] = made[s]
      /\ \A s \in Threads : made[s] \in Nat /\ made'[s] \in Nat /\ made[s] <= made'[s]
  BY <1>0, <1>1
<1>3. CallOf(t)' \in Calls /\ CallOf(t)'.nth = made[t] + 1 /\ CallOf(t)'.thread = t
  BY <1>0, <1>2 DEF CallOf, Calls
<1>4. executed[CallOf(t)'] = 0
  <2>1. PICK c \in Calls : c = CallOf(t)'
    BY <1>3
  <2>2. c.nth > made[c.thread]
    BY <1>0, <1>3, <2>1
  <2> QED BY <2>1, <2>2 DEF Once
<1>5. \A m \in Flying : m.call # CallOf(t)'
  <2> SUFFICES ASSUME NEW m \in Flying, m.call = CallOf(t)' PROVE FALSE
    OBVIOUS
  <2>1. m.call.nth <= made[m.call.thread]
    BY DEF Once
  <2>2. m.call.nth = made[t] + 1 /\ m.call.thread = t
    BY <1>3
  <2> QED BY <1>0, <2>1, <2>2
<1>6. ASSUME NEW s \in Threads, pc'[s] \in {"register", "push"}
      PROVE  executed'[CallOf(s)'] = 0 /\ \A m \in Flying' : m.call # CallOf(s)'
  <2>1. CASE s = t
    BY <1>1, <1>4, <1>5, <2>1
  <2>2. CASE s # t
    <3>1. CallOf(s)' = CallOf(s) /\ pc[s] = pc'[s]
      BY <1>1, <1>2, <2>2 DEF CallOf
    <3> QED BY <1>1, <1>6, <3>1 DEF Once
  <2> QED BY <2>1, <2>2
<1>7. ASSUME NEW c \in Calls, c.nth > made'[c.thread] PROVE executed'[c] = 0
  <2>1. c.thread \in Threads /\ c.nth \in Nat
    BY DEF Calls
  <2>2. c.nth > made[c.thread]
    BY <1>2, <1>7, <2>1
  <2> QED BY <1>1, <2>2 DEF Once
<1>8. ASSUME NEW m \in Flying PROVE m.call.nth <= made'[m.call.thread]
  <2>1. m.call.thread \in Threads /\ m.call.nth \in Nat
    BY FlyingFacts
  <2>2. m.call.nth <= made[m.call.thread]
    BY DEF Once
  <2> QED BY <1>2, <2>1, <2>2
<1> QED BY <1>1, <1>6, <1>7, <1>8 DEF Once

(* A thread sends its call, which nothing else carries.                    *)
LEMMA OncePush ==
  ASSUME Route, Once, NEW t \in Threads, Push(t)
  PROVE  Once'
<1> DEFINE m == [seq |-> id[t], call |-> CallOf(t)]
<1>0. /\ TypeOK /\ pending \in Seq(Messages) /\ pc \in [Threads -> PCs]
      /\ pc[t] = "push" /\ made[t] >= 1 /\ id[t] \in Ids /\ made[t] \in Nat
  BY DEF Route, TypeOK, Push, Labels
<1>1. m \in Messages /\ m.call = CallOf(t) /\ CallOf(t).nth = made[t]
      /\ CallOf(t).thread = t
  BY <1>0, CallTyped DEF Messages, CallOf
<1>2. /\ pending' = Append(pending, m) /\ pc'[t] \notin {"register", "push"}
      /\ \A s \in Threads : s # t => pc'[s] = pc[s]
      /\ UNCHANGED <<made, executed, requests, results, net, res>>
  BY <1>0 DEF Push, Goto, netVars
<1> HIDE DEF m
<1>3. Flying' = Flying \cup {m}
  <2>1. Items(pending') = Items(pending) \cup {m}
    BY <1>0, <1>1, <1>2, ItemsFacts
  <2>2. Items(pending)' = Items(pending) \cup {m} /\ Items(results)' = Items(results)
    BY <1>2, <2>1 DEF Items
  <2> QED BY <1>2, <2>2 DEF Flying
<1>4. executed[m.call] = 0 /\ \A n \in Flying : n.call # m.call
  BY <1>0, <1>1 DEF Once
<1>5. m.call.nth <= made[m.call.thread]
  BY <1>0, <1>1
<1>6. /\ \A c \in Calls : executed'[c] \in {0, 1}
      /\ \A c \in Calls : c.nth > made'[c.thread] => executed'[c] = 0
  BY <1>2 DEF Once
<1>7. \A n \in Flying' : n.call.nth <= made'[n.call.thread] /\ executed'[n.call] = 0
  BY <1>2, <1>3, <1>4, <1>5 DEF Once
<1>8. \A n, q \in Flying' : n.call = q.call => n.seq = q.seq
  BY <1>3, <1>4 DEF Once
<1>9. ASSUME NEW s \in Threads, pc'[s] \in {"register", "push"}
      PROVE  executed'[CallOf(s)'] = 0 /\ \A n \in Flying' : n.call # CallOf(s)'
  <2>1. s # t /\ pc[s] = pc'[s] /\ CallOf(s)' = CallOf(s)
    BY <1>2, <1>9 DEF CallOf
  <2>2. CallOf(s) # CallOf(t)
    BY <2>1 DEF CallOf
  <2> QED BY <1>1, <1>2, <1>3, <1>9, <2>1, <2>2 DEF Once
<1> QED BY <1>6, <1>7, <1>8, <1>9 DEF Once

(* A callback runs, and its call is no longer on its way.                  *)
LEMMA OnceExec ==
  ASSUME Route, Once, Exec
  PROVE  Once'
<1>0. /\ TypeOK /\ Labels /\ net = "exec" /\ res \in Messages
      /\ executed \in [Calls -> Nat] /\ net' = "clear"
      /\ slots[res.seq] = res.call /\ res.call \in Calls /\ res.call # None
      /\ UNCHANGED <<pc, made, pending, requests, results, res>>
  BY NoneAssumption DEF Route, TypeOK, Labels, Slots, Exec, threadVars, Messages
<1> DEFINE c == res.call
<1>1. executed' = [executed EXCEPT ![c] = executed[c] + 1]
  BY <1>0 DEF Exec
<1>2. res \in Flying /\ Flying' = Items(pending) \cup requests \cup Items(results)
      /\ Flying' \subseteq Flying
  BY <1>0 DEF Flying, Items
<1>3. executed[c] = 0 /\ c.nth <= made[c.thread]
  BY <1>2 DEF Once
<1>4. \A m \in Flying' : m.call # c
  BY <1>0, <1>2, FlyingFacts DEF Once
<1>5. \A d \in Calls : executed'[d] = IF d = c THEN 1 ELSE executed[d]
  BY <1>0, <1>1, <1>3
<1>6. ASSUME NEW t \in Threads, pc[t] \in {"register", "push"}
      PROVE  /\ CallOf(t) # c /\ CallOf(t) \in Calls /\ executed[CallOf(t)] = 0
             /\ \A m \in Flying' : m.call # CallOf(t)
  <2>1. CallOf(t) \in Calls
    BY <1>0, <1>6, CallTyped DEF Labels
  <2> QED BY <1>2, <1>6, <2>1 DEF Once
<1>7. \A m \in Flying : m.call \in Calls
  BY FlyingFacts
<1>8. ~(c.nth > made[c.thread])
  <2>1. c.nth \in Nat /\ made[c.thread] \in Nat
    BY <1>0, <1>2, FlyingFacts DEF TypeOK
  <2> QED BY <1>3, <2>1
<1> HIDE DEF c
<1>9. /\ \A d \in Calls : executed'[d] \in {0, 1}
      /\ \A d \in Calls : d.nth > made'[d.thread] => executed'[d] = 0
  BY <1>0, <1>5, <1>8 DEF Once
<1>10. \A m \in Flying' : m.call.nth <= made'[m.call.thread] /\ executed'[m.call] = 0
  BY <1>0, <1>2, <1>4, <1>5, <1>7 DEF Once
<1>11. \A m, n \in Flying' : m.call = n.call => m.seq = n.seq
  BY <1>2 DEF Once
<1>12. \A t \in Threads : pc'[t] \in {"register", "push"} =>
         executed'[CallOf(t)'] = 0 /\ \A m \in Flying' : m.call # CallOf(t)'
  BY <1>0, <1>5, <1>6 DEF CallOf
<1> QED BY <1>9, <1>10, <1>11, <1>12 DEF Once

LEMMA OnceStep == Route /\ Once /\ [Next]_vars => Once'
<1> SUFFICES ASSUME Route, Once, [Next]_vars PROVE Once'
  OBVIOUS
<1>0. /\ TypeOK /\ Labels /\ pc \in [Threads -> PCs]
      /\ pending \in Seq(Messages) /\ results \in Seq(Messages)
  BY DEF Route, TypeOK
<1>1. ASSUME NEW t \in Threads, Register(t) \/ EndCall(t) PROVE Once'
  <2>1. /\ Flying' = Flying /\ executed' = executed /\ made' = made
        /\ \A s \in Threads : pc'[s] \in {"register", "push"} =>
                                pc[s] \in {"register", "push"}
    BY <1>0, <1>1 DEF Register, EndCall, Goto, Flying, Items, netVars
  <2> QED BY <2>1, OnceFrame
<1>2. CASE Dispatch \/ Clear \/ RecycleGuid \/ ServerCloses \/ UNCHANGED vars
  <2>1. executed' = executed /\ made' = made /\ pc' = pc
        /\ UNCHANGED <<pending, requests, results>>
    BY <1>2 DEF Dispatch, Clear, RecycleGuid, ServerCloses, vars, threadVars
  <2>2. net' = "exec" => net = "exec" /\ res' = res
    BY <1>2 DEF Dispatch, Clear, RecycleGuid, ServerCloses, vars, netVars
  <2>3. Flying' \subseteq Flying
    BY <2>1, <2>2 DEF Flying, Items
  <2> QED BY <2>1, <2>3, OnceFrame
<1>3. CASE Recv
  <2>1. /\ results # <<>> /\ results' = Tail(results) /\ res' = Head(results)
        /\ UNCHANGED <<pending, requests, executed, made, pc>>
    BY <1>0, <1>3 DEF Recv, Labels, threadVars
  <2>2. Items(results) = Items(results') \cup {res'}
    BY <1>0, <2>1, ItemsFacts
  <2>3. Items(results) = Items(results)' \cup {res'} /\ Items(pending)' = Items(pending)
    BY <2>1, <2>2 DEF Items
  <2>4. Flying' \subseteq Flying
    BY <2>1, <2>3 DEF Flying
  <2> QED BY <2>1, <2>4, OnceFrame
<1>4. CASE HandleWriteEvent
  <2>1. UNCHANGED <<results, executed, made, pc>> /\ net' = "poll"
    BY <1>4 DEF HandleWriteEvent, threadVars
  <2>2. Flying' \subseteq Flying
    <3>1. CASE pending = <<>>
      BY <1>4, <2>1, <3>1 DEF HandleWriteEvent, Flying, Items
    <3>2. CASE pending # <<>>
      <4>1. pending' = Tail(pending) /\ requests' \subseteq requests \cup {Head(pending)}
        BY <1>4, <3>2 DEF HandleWriteEvent
      <4>2. Items(pending) = Items(pending') \cup {Head(pending)}
        BY <1>0, <3>2, <4>1, ItemsFacts
      <4>3. Items(pending) = Items(pending)' \cup {Head(pending)}
            /\ Items(results)' = Items(results)
        BY <2>1, <4>2 DEF Items
      <4> QED BY <2>1, <4>1, <4>3 DEF Flying
    <3> QED BY <3>1, <3>2
  <2> QED BY <2>1, <2>2, OnceFrame
<1>5. ASSUME NEW m \in Messages, Answer(m) PROVE Once'
  <2>1. /\ m \in requests /\ requests' = requests \ {m}
        /\ results' = Append(results, m)
        /\ UNCHANGED <<pending, net, res, executed, made, pc>>
    BY <1>5 DEF Answer, threadVars, netVars
  <2>2. Items(results') = Items(results) \cup {m}
    BY <1>0, <2>1, ItemsFacts
  <2>3. Items(results)' = Items(results) \cup {m} /\ Items(pending)' = Items(pending)
    BY <2>1, <2>2 DEF Items
  <2>4. Flying' \subseteq Flying
    BY <2>1, <2>3 DEF Flying
  <2> QED BY <2>1, <2>4, OnceFrame
<1> QED BY <1>1, <1>2, <1>3, <1>4, <1>5, OnceBegin, OncePush, OnceExec
        DEF Next, ThreadStep, NetStep

(* No callback runs twice, whatever ids are recycled and handed out again  *)
(* meanwhile: p.set_value in CallRPC is called once for each promise.      *)
THEOREM CalledBackOnce == Spec => []CallbackOnce
<1>1. Once => CallbackOnce
  BY DEF Once, CallbackOnce
<1> QED BY <1>1, InitOnce, OnceStep, RouteInvariant, PTL DEF Spec

=============================================================================
