--------------------------- MODULE KVSystemProofs ---------------------------
(***************************************************************************)
(* The sample application for any number of workers, keys, values, other   *)
(* clients and calls: its types, the locks of the key-value store, who is  *)
(* told that a key is new, and what a GetValue may return.                 *)
(***************************************************************************)
EXTENDS KVSystem, FiniteSetTheorems, TLAPS

-----------------------------------------------------------------------------
(* What a worker has while it is at work.                                  *)

Busy ==
  \A w \in Workers :
    /\ step[w] # "idle" => req[w] \in Requests /\ serving[w] \in Conns
    /\ step[w] = "store" => req[w].val # None
    /\ step[w] \in {"store", "unlock", "end"} => rsp[w] \in Replies

(* Who is inside a map holds its lock.                                     *)
Held == \A w \in Workers : Inside(w) => dict_locks[Index(w)] = w

IInv == TypeOK /\ Busy

(* Every key has a map.                                                    *)
LEMMA BucketInRange == ASSUME NEW k \in Keys PROVE getAllottedBucket(k) \in Buckets
<1>1. k \in Nat  BY StoreAssumption
<1>2. QED  BY <1>1, SMT DEF getAllottedBucket, Buckets

(* The number of a call that may still be made.                            *)
LEMMA NextNth ==
  ASSUME NEW c \in Conns, NEW n \in Nths \cup {0}, n < MaxCalls[c]
  PROVE  n + 1 \in Nths
<1>1. MaxCalls[c] \in Nat  BY CallsAssumption
<1>2. Nths \subseteq Nat   BY CallsAssumption DEF Nths
<1>3. n \in Nat /\ n + 1 \in 1..MaxCalls[c]  BY <1>1, <1>2
<1>4. QED  BY <1>3 DEF Nths

LEMMA InitTyped == Init => IInv
  BY CallsAssumption DEF Init, IInv, TypeOK, Busy, StoreInit, StoreTypeOK, Service!SvcInit

(* The worker's steps inside the store keep what the store is.             *)
LEMMA StoreSteps ==
  ASSUME IInv, NEW w \in Workers, UNCHANGED serving,
         Lock(w) \/ Find(w) \/ Store(w) \/ Unlock(w)
  PROVE  StoreTypeOK' /\ Busy'
<1> USE DEF IInv, TypeOK, StoreTypeOK, Busy
<1>1. req[w] \in Requests /\ Index(w) \in Buckets /\ req[w].key \in Keys
  <2>1. req[w] \in Requests  BY DEF Lock, Find, Store, Unlock
  <2>2. QED  BY <2>1, BucketInRange DEF Index, Requests
<1>2. CASE Lock(w)   BY <1>1, <1>2 DEF Lock
<1>3. CASE Find(w)
  <2>1. dicts[Index(w)][req[w].key] \in Values \cup {None}  BY <1>1
  <2> DEFINE it == dicts[Index(w)][req[w].key]
  <2>7. PICK r \in Replies : rsp' = [rsp EXCEPT ![w] = r]
    <3>1. CASE req[w].val = None /\ it # None
      <4>1. it \in Replies  BY <2>1, <3>1 DEF Replies
      <4>2. rsp' = [rsp EXCEPT ![w] = it]  BY <1>3, <3>1 DEF Find
      <4>3. QED  BY <4>1, <4>2
    <3>2. CASE req[w].val = None /\ it = None
      <4>1. rsp' = [rsp EXCEPT ![w] = "not found"]  BY <1>3, <3>2 DEF Find
      <4>2. QED  BY <4>1 DEF Replies
    <3>3. CASE req[w].val # None
      <4>1. rsp' = [rsp EXCEPT ![w] = "code 1"] \/ rsp' = [rsp EXCEPT ![w] = "code 2"]
        BY <1>3, <3>3 DEF Find
      <4>2. QED  BY <4>1 DEF Replies
    <3>4. QED  BY <3>1, <3>2, <3>3
  <2>2. rsp' \in [Workers -> Replies \cup {None}] /\ rsp'[w] \in Replies
    BY <2>7
  <2>3. step' \in [Workers -> {"idle", "lock", "find", "store", "unlock", "end"}]
        /\ (step'[w] = "store" => req[w].val # None)
    BY <1>3 DEF Find
  <2>4. \A v \in Workers : v # w => step'[v] = step[v] /\ rsp'[v] = rsp[v]
    BY <1>3, <2>7 DEF Find
  <2>5. UNCHANGED <<dicts, dict_locks, req>> /\ step[w] = "find"  BY <1>3 DEF Find
  <2>6. QED  BY <2>2, <2>3, <2>4, <2>5
<1>4. CASE Store(w)
  <2>1. req[w].val \in Values \cup {None}  BY <1>1 DEF Requests
  <2>2. dicts' \in [Buckets -> [Keys -> Values \cup {None}]]
    BY <1>1, <1>4, <2>1 DEF Store
  <2>3. QED  BY <1>4, <2>2 DEF Store
<1>5. CASE Unlock(w)  BY <1>1, <1>5 DEF Unlock
<1>6. QED  BY <1>2, <1>3, <1>4, <1>5

LEMMA StoreStays ==
  ASSUME IInv, UNCHANGED <<storeVars, serving>>
  PROVE  StoreTypeOK' /\ Busy'
BY DEF IInv, TypeOK, StoreTypeOK, Busy, storeVars

(* The main thread.                                                        *)
LEMMA MainTyped == ASSUME IInv, MainStep PROVE IInv'
<1>1. UNCHANGED <<storeVars, netVars, made, pending, seen>>
  BY DEF MainStep, Make, MakeFails, Launch, Joined, Stop, Drop, Exit
<1>2. StoreTypeOK' /\ Busy'  BY <1>1, StoreStays DEF netVars
<1>3. Last \in Stubs  BY DEF Last, Stubs
<1> USE DEF IInv, TypeOK
<1>4. (main \in {"make", "wait", "stop", "drop", "exit"})'
  BY DEF MainStep, Make, MakeFails, Launch, Joined, Stop, Drop, Exit
<1>5. (stub \in [Stubs -> {"none", "null", "live", "dead"}])'
  <2>1. ASSUME NEW s \in Stubs, Make(s)
        PROVE  (stub \in [Stubs -> {"none", "null", "live", "dead"}])'
    <3>1. stub' = [stub EXCEPT ![s] = "live"] \/ stub' = [stub EXCEPT ![s] = "null"]
      BY <2>1 DEF Make
    <3>2. QED  BY <3>1
  <2>2. CASE Drop  BY <2>2, <1>3 DEF Drop
  <2>3. CASE UNCHANGED stub  BY <2>3
  <2>4. QED  BY <2>1, <2>2, <2>3 DEF MainStep, MakeFails, Launch, Joined, Stop, Exit
<1>6. (app \in [Stubs -> {"off", "run", "get", "hung", "done"}])'
  BY DEF MainStep, Make, MakeFails, Launch, Joined, Stop, Drop, Exit
<1>7. (net \in [Stubs -> {"none", "new", "loop", "over"}])'
  BY DEF MainStep, Make, MakeFails, Launch, Joined, Stop, Drop, Exit
<1>8. (m_stop \in [Stubs -> BOOLEAN])'
  <2>1. m_stop' = m_stop \/ m_stop' = [m_stop EXCEPT ![Last] = TRUE]
    BY DEF MainStep, Make, MakeFails, Launch, Joined, Stop, Drop, Exit
  <2>2. QED  BY <1>3, <2>1
<1>9. QED  BY <1>1, <1>2, <1>4, <1>5, <1>6, <1>7, <1>8 DEF netVars

(* A value under a key, or that there is none, is an answer.               *)
LEMMA ValueIsReply ==
  ASSUME IInv, NEW k \in Keys
  PROVE  (IF Value(k) = None THEN "not found" ELSE Value(k)) \in Replies
<1>1. Value(k) \in Values \cup {None}
  BY BucketInRange DEF Value, IInv, TypeOK, StoreTypeOK
<1>2. QED  BY <1>1 DEF Replies

(* A new call.                                                             *)
LEMMA CallTyped ==
  ASSUME IInv, NEW c \in Conns, made[c] < MaxCalls[c], NEW k \in Keys,
         NEW v \in Values \cup {None}
  PROVE  Call(c, k, v) \in Calls /\ made[c] + 1 \in Nths
<1>1. made[c] \in Nths \cup {0}  BY DEF IInv, TypeOK
<1>2. QED  BY <1>1, NextNth DEF Call, Calls

(* The application threads.                                                *)
LEMMA AppTyped == ASSUME IInv, NEW s \in Stubs, AppStep(s) PROVE IInv'
<1>1. UNCHANGED <<storeVars, netVars, main, stub, net, m_stop>>
  BY DEF AppStep, Finish, NullCall, Answered, MakeCall
<1>2. StoreTypeOK' /\ Busy'  BY <1>1, StoreStays DEF netVars
<1>3. (app \in [Stubs -> {"off", "run", "get", "hung", "done"}])'
  BY DEF IInv, TypeOK, AppStep, Finish, NullCall, Answered, MakeCall
<1>4. CASE UNCHANGED <<made, pending, seen>>
  BY <1>1, <1>2, <1>3, <1>4 DEF IInv, TypeOK, netVars
<1>5. ASSUME NEW k \in Keys, NEW v \in Values \cup {None}, MakeCall(s, k, v)
      PROVE  IInv'
  <2>1. s \in Conns /\ made[s] < MaxCalls[s]  BY <1>5 DEF MakeCall, Conns
  <2>2. Call(s, k, v) \in Calls /\ made[s] + 1 \in Nths  BY <2>1, CallTyped
  <2>3. made' = [made EXCEPT ![s] = made[s] + 1]
        /\ pending' = [pending EXCEPT ![s] = Append(pending[s], Call(s, k, v))]
    BY <1>5 DEF MakeCall
  <2>4. (made \in [Conns -> Nths \cup {0}])'  BY <2>1, <2>2, <2>3 DEF IInv, TypeOK
  <2>5. (pending \in [Stubs -> Seq(Calls)])'  BY <2>2, <2>3 DEF IInv, TypeOK
  <2>6. (seen \in [1..MaxCalls["getter"] -> SUBSET Replies])'
    <3> DEFINE r == IF Value(k) = None THEN "not found" ELSE Value(k)
    <3>1. r \in Replies  BY ValueIsReply
    <3>2. seen' = seen \/ seen' = [seen EXCEPT ![made'[s]] = {r}]
      BY <1>5 DEF MakeCall
    <3> HIDE DEF r
    <3>3. QED  BY <3>1, <3>2 DEF IInv, TypeOK
  <2>7. QED  BY <1>1, <1>2, <1>3, <2>4, <2>5, <2>6 DEF IInv, TypeOK, netVars
<1>6. QED  BY <1>4, <1>5 DEF AppStep, Finish, NullCall, Answered

(* A call is posted or a result delivered over any connection.             *)
LEMMA PostTyped ==
  ASSUME IInv, NEW c \in Conns, NEW m \in Calls, Service!Post(c, m)
  PROVE  /\ (inbox \in [Conns -> Seq(Calls)])'
         /\ (outbox \in [Conns -> Seq(Results)])'
         /\ (got \in [Conns -> Seq(Results)])'
BY DEF IInv, TypeOK, Service!Post

LEMMA DeliverTyped ==
  ASSUME IInv, NEW c \in Conns, Service!Deliver(c)
  PROVE  /\ (inbox \in [Conns -> Seq(Calls)])'
         /\ (outbox \in [Conns -> Seq(Results)])'
         /\ (got \in [Conns -> Seq(Results)])'
<1>1. outbox[c] \in Seq(Results) /\ outbox[c] # <<>>  BY DEF IInv, TypeOK, Service!Deliver
<1>2. Head(outbox[c]) \in Results /\ Tail(outbox[c]) \in Seq(Results)  BY <1>1
<1>3. QED  BY <1>2 DEF IInv, TypeOK, Service!Deliver

(* The network threads.                                                    *)
LEMMA NetTyped == ASSUME IInv, NEW s \in Stubs, NetStep(s) PROVE IInv'
<1>1. UNCHANGED <<storeVars, serving, made, main, stub, app, m_stop, seen>>
  BY DEF NetStep, Enter, SendPending, Receive, Return, procVars, netVars
<1>2. StoreTypeOK' /\ Busy'  BY <1>1, StoreStays
<1>3. (net \in [Stubs -> {"none", "new", "loop", "over"}])'
  BY DEF IInv, TypeOK, NetStep, Enter, SendPending, Receive, Return, procVars
<1>4. s \in Conns  BY DEF Conns
<1>5. CASE Enter(s) \/ Return(s)
  BY <1>1, <1>2, <1>3, <1>5 DEF IInv, TypeOK, Enter, Return, netVars
<1>6. CASE SendPending(s)
  <2>1. pending[s] \in Seq(Calls) /\ pending[s] # <<>>
    BY <1>6 DEF IInv, TypeOK, SendPending
  <2>2. Head(pending[s]) \in Calls /\ Tail(pending[s]) \in Seq(Calls)  BY <2>1
  <2>3. Service!Post(s, Head(pending[s]))  BY <1>6 DEF SendPending
  <2>4. (pending \in [Stubs -> Seq(Calls)])'  BY <1>6, <2>2 DEF IInv, TypeOK, SendPending
  <2>5. QED
    BY <1>1, <1>2, <1>3, <1>4, <2>2, <2>3, <2>4, PostTyped DEF IInv, TypeOK
<1>7. CASE Receive(s)
  BY <1>1, <1>2, <1>3, <1>4, <1>7, DeliverTyped DEF IInv, TypeOK, Receive, procVars
<1>8. QED  BY <1>5, <1>6, <1>7 DEF NetStep

(* Other clients.                                                          *)
LEMMA PeerTyped ==
  ASSUME IInv, NEW c \in Peers,
         PeerReceives(c) \/ \E k \in Keys, v \in Values : PeerCalls(c, k, v)
  PROVE  IInv'
<1>1. c \in Conns  BY DEF Conns
<1>2. UNCHANGED <<storeVars, serving, procVars, seen>>  BY DEF PeerReceives, PeerCalls
<1>3. StoreTypeOK' /\ Busy'  BY <1>2, StoreStays
<1>4. CASE PeerReceives(c)
  BY <1>1, <1>2, <1>3, <1>4, DeliverTyped DEF IInv, TypeOK, PeerReceives, procVars
<1>5. ASSUME NEW k \in Keys, NEW v \in Values, PeerCalls(c, k, v) PROVE IInv'
  <2>1. Call(c, k, v) \in Calls /\ made[c] + 1 \in Nths
    BY <1>1, <1>5, CallTyped DEF PeerCalls
  <2>2. (made \in [Conns -> Nths \cup {0}])'
    BY <1>1, <1>5, <2>1 DEF IInv, TypeOK, PeerCalls
  <2>3. Service!Post(c, Call(c, k, v))  BY <1>5 DEF PeerCalls
  <2>4. QED
    BY <1>1, <1>2, <1>3, <2>1, <2>2, <2>3, PostTyped DEF IInv, TypeOK, procVars
<1>6. QED  BY <1>4, <1>5

(* The server's workers.                                                   *)
LEMMA WorkerTyped == ASSUME IInv, NEW w \in Workers, WorkerStep(w) PROVE IInv'
<1>1. UNCHANGED <<made, procVars>>
  BY DEF WorkerStep, Accept, Work, WorkStore, Answer
<1>2. ASSUME NEW c \in Conns, Accept(w, c) PROVE IInv'
  <2> DEFINE r == [key |-> Head(inbox[c]).key, val |-> Head(inbox[c]).val]
  <2>1. Head(inbox[c]) \in Calls
    <3>1. inbox[c] \in Seq(Calls) /\ inbox[c] # <<>>  BY <1>2 DEF Accept, IInv, TypeOK
    <3>2. QED  BY <3>1
  <2>2. r \in Requests  BY <2>1 DEF Calls, Requests
  <2>3. Begin(w, r) /\ serving' = [serving EXCEPT ![w] = c]  BY <1>2 DEF Accept
  <2> HIDE DEF r
  <2>4. StoreTypeOK'  BY <2>2, <2>3 DEF Begin, IInv, TypeOK, StoreTypeOK
  <2>5. Busy'  BY <2>2, <2>3 DEF Begin, IInv, TypeOK, StoreTypeOK, Busy
  <2>6. (serving \in [Workers -> Conns \cup {None}])'  BY <2>3 DEF IInv, TypeOK
  <2>7. UNCHANGED <<inbox, outbox, got, seen>>  BY <1>2 DEF Accept
  <2>8. QED  BY <1>1, <2>4, <2>5, <2>6, <2>7 DEF IInv, TypeOK, procVars
<1>3. CASE Work(w)
  <2>1. UNCHANGED <<inbox, outbox, got, serving, seen>>  BY <1>3 DEF Work, netVars
  <2>2. StoreTypeOK' /\ Busy'  BY <1>3, <2>1, StoreSteps DEF Work
  <2>3. QED  BY <1>1, <2>1, <2>2 DEF IInv, TypeOK, procVars
<1>4. CASE WorkStore(w)
  <2>1. UNCHANGED <<inbox, outbox, got, serving>>  BY <1>4 DEF WorkStore, netVars
  <2>2. StoreTypeOK' /\ Busy'  BY <1>4, <2>1, StoreSteps DEF WorkStore
  <2>3. req[w].val \in Replies
    <3>1. req[w] \in Requests /\ req[w].val # None
      BY <1>4 DEF WorkStore, Store, IInv, Busy
    <3>2. QED  BY <3>1 DEF Requests, Replies
  <2>4. (seen \in [1..MaxCalls["getter"] -> SUBSET Replies])'
    <3>1. \A n \in DOMAIN seen : seen'[n] = seen[n] \/ seen'[n] = seen[n] \cup {req[w].val}
      BY <1>4 DEF WorkStore
    <3>2. \E f : seen' = [n \in DOMAIN seen |-> f[n]]
      <4>1. seen' = [n \in DOMAIN seen |-> seen'[n]]  BY <1>4 DEF WorkStore
      <4>2. QED  BY <4>1
    <3>3. DOMAIN seen = 1..MaxCalls["getter"] /\ \A n \in DOMAIN seen : seen[n] \in SUBSET Replies
      BY DEF IInv, TypeOK
    <3>4. \A n \in DOMAIN seen : seen'[n] \in SUBSET Replies  BY <2>3, <3>1, <3>3
    <3>5. DOMAIN seen' = DOMAIN seen /\ seen' = [n \in DOMAIN seen' |-> seen'[n]]  BY <3>2
    <3>6. QED  BY <3>3, <3>4, <3>5
  <2>5. QED  BY <1>1, <2>1, <2>2, <2>4 DEF IInv, TypeOK, procVars
<1>5. CASE Answer(w)
  <2> DEFINE c == serving[w]
             r == [call |-> Head(inbox[c]), rsp |-> rsp[w]]
  <2>1. c \in Conns /\ rsp[w] \in Replies  BY <1>5 DEF Answer, End, IInv, Busy
  <2>2. Service!Serve(c, r)  BY <1>5 DEF Answer
  <2>3. inbox[c] \in Seq(Calls) /\ inbox[c] # <<>>
    BY <2>1, <2>2 DEF IInv, TypeOK, Service!Serve
  <2>4. Head(inbox[c]) \in Calls /\ Tail(inbox[c]) \in Seq(Calls)  BY <2>3
  <2>5. r \in Results  BY <2>1, <2>4 DEF Results
  <2> HIDE DEF r
  <2>6. /\ (inbox \in [Conns -> Seq(Calls)])'
        /\ (outbox \in [Conns -> Seq(Results)])'
        /\ (got \in [Conns -> Seq(Results)])'
    BY <2>1, <2>2, <2>4, <2>5 DEF IInv, TypeOK, Service!Serve
  <2>7. End(w) /\ serving' = [serving EXCEPT ![w] = None] /\ UNCHANGED seen
    BY <1>5 DEF Answer
  <2>8. StoreTypeOK'  BY <2>7 DEF End, IInv, TypeOK, StoreTypeOK
  <2>9. Busy'  BY <2>7 DEF End, IInv, TypeOK, StoreTypeOK, Busy
  <2>10. (serving \in [Workers -> Conns \cup {None}])'  BY <2>7 DEF IInv, TypeOK
  <2>11. QED  BY <1>1, <2>6, <2>7, <2>8, <2>9, <2>10 DEF IInv, TypeOK, procVars
<1>6. QED  BY <1>2, <1>3, <1>4, <1>5 DEF WorkerStep

LEMMA NextTyped == IInv /\ [Next]_vars => IInv'
<1> SUFFICES ASSUME IInv, [Next]_vars PROVE IInv'
  OBVIOUS
<1>1. CASE Next
  BY <1>1, MainTyped, AppTyped, NetTyped, PeerTyped, WorkerTyped DEF Next
<1>2. CASE UNCHANGED vars
  <2>1. StoreTypeOK' /\ Busy'  BY <1>2, StoreStays DEF vars, netVars
  <2>2. QED  BY <1>2, <2>1 DEF IInv, TypeOK, vars, netVars, procVars
<1>3. QED  BY <1>1, <1>2

(* Types of the whole application: what travels between the process, the   *)
(* server and the store is always a call, a request or an answer.          *)
THEOREM SystemTyped == Spec => []TypeOK
<1>1. IInv => TypeOK  BY DEF IInv
<1>2. QED  BY <1>1, InitTyped, NextTyped, PTL DEF Spec

-----------------------------------------------------------------------------
(* The locks of the store.                                                 *)

LEMMA StoreHeld ==
  ASSUME IInv, Held, NEW w \in Workers,
         \/ Lock(w) \/ Find(w) \/ Store(w) \/ Unlock(w) \/ End(w)
         \/ \E r \in Requests : Begin(w, r)
  PROVE  Held'
<1> USE DEF IInv, TypeOK, StoreTypeOK, Held, Inside, Index
<1>1. CASE \E r \in Requests : Begin(w, r)  BY <1>1 DEF Begin
<1>2. CASE Lock(w)
  <2>1. Index(w) \in Buckets
    BY <1>2, BucketInRange DEF Lock, Busy, Requests
  <2>2. None \notin Workers  BY StoreAssumption
  <2>3. QED  BY <1>2, <2>1, <2>2 DEF Lock
<1>3. CASE Find(w)
  <2>1. \A v \in Workers : Inside(v)' => Inside(v)  BY <1>3 DEF Find
  <2>2. QED  BY <1>3, <2>1 DEF Find
<1>4. CASE Store(w)  BY <1>4 DEF Store
<1>5. CASE Unlock(w)
  <2>1. Index(w) \in Buckets
    BY <1>5, BucketInRange DEF Unlock, Busy, Requests
  <2>2. dict_locks[Index(w)] = w  BY <1>5 DEF Unlock
  <2>3. QED  BY <1>5, <2>1, <2>2 DEF Unlock
<1>6. CASE End(w)  BY <1>6 DEF End
<1>7. QED  BY <1>1, <1>2, <1>3, <1>4, <1>5, <1>6

LEMMA NextHeld == IInv /\ Held /\ [Next]_vars => Held'
<1> SUFFICES ASSUME IInv, Held, [Next]_vars PROVE Held'
  OBVIOUS
<1>1. CASE UNCHANGED storeVars  BY <1>1 DEF Held, Inside, Index, storeVars
<1>2. ASSUME NEW w \in Workers, WorkerStep(w) PROVE Held'
  <2>1. ASSUME NEW c \in Conns, Accept(w, c) PROVE Held'
    <3>1. inbox[c] \in Seq(Calls) /\ inbox[c] # <<>>  BY <2>1 DEF Accept, IInv, TypeOK
    <3>2. Head(inbox[c]) \in Calls  BY <3>1
    <3>3. [key |-> Head(inbox[c]).key, val |-> Head(inbox[c]).val] \in Requests
      BY <3>2 DEF Calls, Requests
    <3>4. QED  BY <2>1, <3>3, StoreHeld DEF Accept
  <2>2. QED  BY <1>2, <2>1, StoreHeld DEF WorkerStep, Work, WorkStore, Answer
<1>3. CASE UNCHANGED vars  BY <1>1, <1>3 DEF vars
<1>4. CASE MainStep
  BY <1>1, <1>4 DEF MainStep, Make, MakeFails, Launch, Joined, Stop, Drop, Exit
<1>5. ASSUME NEW s \in Stubs, AppStep(s) \/ NetStep(s) PROVE Held'
  <2>1. UNCHANGED storeVars
    BY <1>5 DEF AppStep, Finish, NullCall, Answered, MakeCall, NetStep, Enter,
                SendPending, Receive, Return
  <2>2. QED  BY <1>1, <2>1
<1>6. ASSUME NEW c \in Peers,
             PeerReceives(c) \/ \E k \in Keys, v \in Values : PeerCalls(c, k, v)
      PROVE  Held'
  BY <1>1, <1>6 DEF PeerReceives, PeerCalls
<1>7. QED  BY <1>2, <1>3, <1>4, <1>5, <1>6 DEF Next

(* For any number of workers, keys and clients no two workers are in the   *)
(* same std::map at once.                                                  *)
THEOREM OneWorkerPerMap == Spec => []MapsExclusive
<1>1. Init => Held  BY DEF Init, StoreInit, Held, Inside
<1>2. Held => MapsExclusive  BY DEF Held, MapsExclusive
<1>3. QED  BY <1>1, <1>2, InitTyped, NextTyped, NextHeld, PTL DEF Spec

-----------------------------------------------------------------------------
(* What a worker serves is the first call of its connection, which it has  *)
(* to itself.                                                              *)
FirstCall(w) == Head(inbox[serving[w]])

Served ==
  \A w \in Workers : step[w] # "idle" =>
    /\ inbox[serving[w]] # <<>>
    /\ req[w].key = FirstCall(w).key /\ req[w].val = FirstCall(w).val
    /\ \A v \in Workers : v # w /\ step[v] # "idle" => serving[v] # serving[w]

(* The results there are, and the workers that are inserting a key or have *)
(* inserted it and not answered yet.                                       *)
Answers == UNION {ResultsOf(c) : c \in Conns}
SaysInserted(r, k) == r.call.key = k /\ r.rsp = "code 2"
Inserting(w, k) ==
  step[w] \in {"store", "unlock", "end"} /\ req[w].key = k /\ rsp[w] = "code 2"

(* Of a key without a value nobody has been told that it was inserted; a   *)
(* worker that is about to insert finds no value; and one result or worker *)
(* says that a key was inserted.                                           *)
Fresh(k) ==
  Value(k) = None =>
    /\ \A r \in Answers : ~SaysInserted(r, k)
    /\ \A w \in Workers : Inserting(w, k) => step[w] = "store"

Unique(k) ==
  /\ \A r1, r2 \in Answers : SaysInserted(r1, k) /\ SaysInserted(r2, k) => r1 = r2
  /\ \A r \in Answers, w \in Workers : ~(SaysInserted(r, k) /\ Inserting(w, k))
  /\ \A v, w \in Workers : Inserting(v, k) /\ Inserting(w, k) => v = w

Inserts ==
  \A k \in Keys :
    /\ Fresh(k) /\ Unique(k)
    /\ \A w \in Workers : step[w] = "store" /\ Inserting(w, k) => Value(k) = None

(* The gets that are under way, and what a get of a key would report now.  *)
Gets == {pending["getter"][i] : i \in 1..Len(pending["getter"])}
          \cup {inbox["getter"][i] : i \in 1..Len(inbox["getter"])}
Now(k) == IF Value(k) = None THEN "not found" ELSE Value(k)

(* Every get was given its number, and what it would report now, what a    *)
(* worker is about to answer and what was answered has been seen since.    *)
Reads ==
  /\ made["getter"] <= MaxCalls["getter"]
  /\ \A m \in Gets : /\ m.conn = "getter" /\ m.val = None
                     /\ m.nth \in 1..made["getter"]
                     /\ Now(m.key) \in seen[m.nth]
  /\ \A w \in Workers :
       serving[w] = "getter" /\ step[w] \in {"unlock", "end"}
         => rsp[w] \in seen[FirstCall(w).nth]
  /\ \A r \in ResultsOf("getter") :
       r.call.nth \in 1..made["getter"] /\ r.rsp \in seen[r.call.nth]

(* The elements of a queue.                                                *)
Elems(s) == {s[i] : i \in 1..Len(s)}

LEMMA ElemsAppend ==
  ASSUME NEW S, NEW s \in Seq(S), NEW x \in S
  PROVE  Elems(Append(s, x)) = Elems(s) \cup {x}
<1>1. Len(Append(s, x)) = Len(s) + 1 /\ Len(s) \in Nat  OBVIOUS
<1>2. \A i \in 1..Len(s) : Append(s, x)[i] = s[i]  OBVIOUS
<1>3. Append(s, x)[Len(s) + 1] = x  OBVIOUS
<1>4. \A i : i \in 1..(Len(s) + 1) <=> i \in 1..Len(s) \/ i = Len(s) + 1  BY <1>1
<1>5. QED  BY <1>1, <1>2, <1>3, <1>4 DEF Elems

LEMMA ElemsTail ==
  ASSUME NEW S, NEW s \in Seq(S), s # <<>>
  PROVE  Elems(s) = {Head(s)} \cup Elems(Tail(s))
<1>1. Len(s) \in Nat /\ Len(s) > 0 /\ Len(Tail(s)) = Len(s) - 1 /\ Head(s) = s[1]
  OBVIOUS
<1>2. \A i \in 1..Len(Tail(s)) : Tail(s)[i] = s[i + 1]  OBVIOUS
<1>3. ASSUME NEW i \in 1..Len(s) PROVE s[i] \in {Head(s)} \cup Elems(Tail(s))
  <2>1. CASE i = 1  BY <1>1, <2>1
  <2>2. CASE i # 1
    <3>1. i - 1 \in 1..Len(Tail(s)) /\ (i - 1) + 1 = i  BY <1>1, <2>2
    <3>2. Tail(s)[i - 1] = s[i]  BY <1>2, <3>1
    <3>3. QED  BY <3>1, <3>2 DEF Elems
  <2>3. QED  BY <2>1, <2>2
<1>4. ASSUME NEW i \in 1..Len(Tail(s)) PROVE Tail(s)[i] \in Elems(s)
  <2>1. i + 1 \in 1..Len(s)  BY <1>1
  <2>2. QED  BY <1>2, <2>1 DEF Elems
<1>5. Head(s) \in Elems(s)  BY <1>1 DEF Elems
<1>6. Elems(s) \subseteq {Head(s)} \cup Elems(Tail(s))  BY <1>3 DEF Elems
<1>7. Elems(Tail(s)) \subseteq Elems(s)  BY <1>4 DEF Elems
<1>8. QED  BY <1>5, <1>6, <1>7

LEMMA HeadStays ==
  ASSUME NEW S, NEW s \in Seq(S), s # <<>>, NEW x \in S
  PROVE  Head(Append(s, x)) = Head(s) /\ Append(s, x) # <<>>
OBVIOUS

LEMMA ResultsAre == \A c \in Conns : ResultsOf(c) = Elems(got[c]) \cup Elems(outbox[c])
  BY DEF ResultsOf, Elems

(* A delivered result is still a result, and a served call has a new one.  *)
LEMMA DeliverKeeps ==
  ASSUME IInv, NEW c \in Conns, Service!Deliver(c), NEW d \in Conns
  PROVE  ResultsOf(d)' = ResultsOf(d)
<1>1. got \in [Conns -> Seq(Results)] /\ outbox \in [Conns -> Seq(Results)]
  BY DEF IInv, TypeOK
<1>2. outbox[c] # <<>> /\ outbox' = [outbox EXCEPT ![c] = Tail(outbox[c])]
      /\ got' = [got EXCEPT ![c] = Append(got[c], Head(outbox[c]))]
  BY DEF Service!Deliver
<1>3. ResultsOf(d)' = Elems(got'[d]) \cup Elems(outbox'[d])  BY DEF ResultsOf, Elems
<1>4. CASE d # c
  <2>1. got'[d] = got[d] /\ outbox'[d] = outbox[d]  BY <1>1, <1>2, <1>4
  <2>2. QED  BY <1>3, <2>1, ResultsAre
<1>5. CASE d = c
  <2>1. got'[c] = Append(got[c], Head(outbox[c])) /\ outbox'[c] = Tail(outbox[c])
    BY <1>1, <1>2
  <2>2. got[c] \in Seq(Results) /\ outbox[c] \in Seq(Results)  BY <1>1
  <2>3. Head(outbox[c]) \in Results  BY <1>2, <2>2
  <2>4. Elems(got'[c]) = Elems(got[c]) \cup {Head(outbox[c])}
    BY <2>1, <2>2, <2>3, ElemsAppend
  <2>5. Elems(outbox[c]) = {Head(outbox[c])} \cup Elems(outbox'[c])
    BY <1>2, <2>1, <2>2, ElemsTail
  <2>6. ResultsOf(c) = Elems(got[c]) \cup Elems(outbox[c])  BY ResultsAre
  <2>7. QED  BY <1>3, <1>5, <2>4, <2>5, <2>6
<1>6. QED  BY <1>4, <1>5

LEMMA ServeAdds ==
  ASSUME IInv, NEW c \in Conns, NEW r \in Results, Service!Serve(c, r), NEW d \in Conns
  PROVE  ResultsOf(d)' = IF d = c THEN ResultsOf(d) \cup {r} ELSE ResultsOf(d)
<1>1. got \in [Conns -> Seq(Results)] /\ outbox \in [Conns -> Seq(Results)]
  BY DEF IInv, TypeOK
<1>2. outbox' = [outbox EXCEPT ![c] = Append(outbox[c], r)] /\ got' = got
  BY DEF Service!Serve
<1>3. ResultsOf(d)' = Elems(got'[d]) \cup Elems(outbox'[d])  BY DEF ResultsOf, Elems
<1>4. CASE d # c
  <2>1. got'[d] = got[d] /\ outbox'[d] = outbox[d]  BY <1>1, <1>2, <1>4
  <2>2. QED  BY <1>3, <1>4, <2>1, ResultsAre
<1>5. CASE d = c
  <2>1. outbox'[c] = Append(outbox[c], r) /\ outbox[c] \in Seq(Results)  BY <1>1, <1>2
  <2>2. Elems(outbox'[c]) = Elems(outbox[c]) \cup {r}  BY <2>1, ElemsAppend
  <2>3. QED  BY <1>2, <1>3, <1>5, <2>2, ResultsAre
<1>6. QED  BY <1>4, <1>5

(* The call a worker ends with a result.                                   *)
LEMMA AnswerServes ==
  ASSUME IInv, Served, NEW w \in Workers, Answer(w)
  PROVE  /\ serving[w] \in Conns /\ step[w] = "end"
         /\ inbox[serving[w]] \in Seq(Calls) /\ inbox[serving[w]] # <<>>
         /\ [call |-> FirstCall(w), rsp |-> rsp[w]] \in Results
         /\ Service!Serve(serving[w], [call |-> FirstCall(w), rsp |-> rsp[w]])
         /\ req[w].key = FirstCall(w).key
<1>1. step[w] = "end"  BY DEF Answer, End
<1>2. serving[w] \in Conns /\ rsp[w] \in Replies  BY <1>1 DEF IInv, Busy
<1>3. inbox[serving[w]] \in Seq(Calls) /\ inbox[serving[w]] # <<>>
      /\ req[w].key = FirstCall(w).key
  BY <1>1, <1>2 DEF IInv, TypeOK, Served
<1>4. FirstCall(w) \in Calls  BY <1>3 DEF FirstCall
<1>5. Service!Serve(serving[w], [call |-> FirstCall(w), rsp |-> rsp[w]])
  BY DEF Answer, FirstCall
<1>6. QED  BY <1>1, <1>2, <1>3, <1>4, <1>5 DEF Results

LEMMA NextServed == IInv /\ Served /\ [Next]_vars => Served'
<1> SUFFICES ASSUME IInv, Served, [Next]_vars PROVE Served'
  OBVIOUS
<1>0. inbox \in [Conns -> Seq(Calls)] /\ serving \in [Workers -> Conns \cup {None}]
      /\ \A w \in Workers : step[w] # "idle" => serving[w] \in Conns
  BY DEF IInv, TypeOK, Busy
<1>1. CASE UNCHANGED <<storeVars, serving, inbox>>
  BY <1>1 DEF Served, FirstCall, storeVars
<1>2. ASSUME NEW c \in Conns, NEW m \in Calls, Service!Post(c, m),
             UNCHANGED <<storeVars, serving>>
      PROVE  Served'
  <2>1. ASSUME NEW d \in Conns, inbox[d] # <<>>
        PROVE  inbox'[d] # <<>> /\ Head(inbox'[d]) = Head(inbox[d])
    <3>1. inbox' = [inbox EXCEPT ![c] = Append(inbox[c], m)]  BY <1>2 DEF Service!Post
    <3>2. CASE d = c
      <4>1. inbox'[d] = Append(inbox[d], m) /\ inbox[d] \in Seq(Calls)  BY <1>0, <3>1, <3>2
      <4>2. QED  BY <2>1, <4>1, HeadStays
    <3>3. CASE d # c  BY <1>0, <2>1, <3>1, <3>3
    <3>4. QED  BY <3>2, <3>3
  <2>2. QED  BY <1>0, <1>2, <2>1 DEF Served, FirstCall, storeVars
<1>3. ASSUME NEW s \in Stubs, SendPending(s) PROVE Served'
  <2>1. s \in Conns /\ pending[s] \in Seq(Calls) /\ pending[s] # <<>>
    BY <1>3 DEF Conns, SendPending, IInv, TypeOK
  <2>2. Head(pending[s]) \in Calls  BY <2>1
  <2>3. QED  BY <1>2, <1>3, <2>1, <2>2 DEF SendPending
<1>4. ASSUME NEW c \in Peers, NEW k \in Keys, NEW v \in Values, PeerCalls(c, k, v)
      PROVE  Served'
  <2>1. c \in Conns /\ Call(c, k, v) \in Calls
    BY <1>4, CallTyped DEF Conns, PeerCalls
  <2>2. QED  BY <1>2, <1>4, <2>1 DEF PeerCalls
<1>5. ASSUME NEW w \in Workers, NEW c \in Conns, Accept(w, c) PROVE Served'
  <2>1. /\ inbox[c] # <<>> /\ inbox' = inbox /\ serving' = [serving EXCEPT ![w] = c]
        /\ \A v \in Workers : serving[v] # c
        /\ step' = [step EXCEPT ![w] = "lock"]
        /\ req' = [req EXCEPT ![w] = [key |-> Head(inbox[c]).key, val |-> Head(inbox[c]).val]]
    BY <1>5 DEF Accept, Begin
  <2>2. serving'[w] = c /\ req'[w].key = Head(inbox[c]).key /\ req'[w].val = Head(inbox[c]).val
    BY <1>0, <2>1 DEF IInv, TypeOK, StoreTypeOK
  <2>3. \A v \in Workers : v # w => serving'[v] = serving[v] /\ step'[v] = step[v] /\ req'[v] = req[v]
    BY <1>0, <2>1 DEF IInv, TypeOK, StoreTypeOK
  <2>4. QED  BY <2>1, <2>2, <2>3 DEF Served, FirstCall
<1>6. ASSUME NEW w \in Workers, Lock(w) \/ Find(w) \/ Store(w) \/ Unlock(w),
             UNCHANGED <<inbox, serving>>
      PROVE  Served'
  <2>1. UNCHANGED req /\ step[w] # "idle"  BY <1>6 DEF Lock, Find, Store, Unlock
  <2>2. \A v \in Workers : v # w => step'[v] = step[v]
    BY <1>6 DEF Lock, Find, Store, Unlock, IInv, TypeOK, StoreTypeOK
  <2>3. QED  BY <1>6, <2>1, <2>2 DEF Served, FirstCall
<1>7. ASSUME NEW w \in Workers, Answer(w) PROVE Served'
  <2> DEFINE c == serving[w]
  <2>1. c \in Conns /\ step[w] = "end" /\ inbox' = [inbox EXCEPT ![c] = Tail(inbox[c])]
    BY <1>7, AnswerServes DEF Service!Serve
  <2>2. /\ step' = [step EXCEPT ![w] = "idle"] /\ req' = [req EXCEPT ![w] = None]
        /\ serving' = [serving EXCEPT ![w] = None]
    BY <1>7 DEF Answer, End
  <2>3. step'[w] = "idle"  BY <2>2 DEF IInv, TypeOK, StoreTypeOK
  <2>4. ASSUME NEW v \in Workers, v # w
        PROVE  serving'[v] = serving[v] /\ step'[v] = step[v] /\ req'[v] = req[v]
    BY <1>0, <2>2, <2>4 DEF IInv, TypeOK, StoreTypeOK
  <2>5. ASSUME NEW v \in Workers, v # w, step[v] # "idle"
        PROVE  inbox'[serving[v]] = inbox[serving[v]]
    <3>1. serving[v] # c  BY <2>1, <2>5 DEF Served
    <3>2. QED  BY <1>0, <2>1, <2>5, <3>1
  <2> HIDE DEF c
  <2>6. QED  BY <2>3, <2>4, <2>5 DEF Served, FirstCall
<1>8. CASE MainStep
  BY <1>1, <1>8 DEF MainStep, Make, MakeFails, Launch, Joined, Stop, Drop, Exit, netVars
<1>9. ASSUME NEW s \in Stubs, AppStep(s) \/ Enter(s) \/ Return(s) \/ Receive(s) PROVE Served'
  <2>1. UNCHANGED <<storeVars, serving, inbox>>
    BY <1>9 DEF AppStep, Finish, NullCall, Answered, MakeCall, Enter, Receive, Return,
                netVars, Service!Deliver
  <2>2. QED  BY <1>1, <2>1
<1>10. ASSUME NEW c \in Peers, PeerReceives(c) PROVE Served'
  BY <1>1, <1>10 DEF PeerReceives, Service!Deliver
<1>11. ASSUME NEW w \in Workers, WorkerStep(w) PROVE Served'
  BY <1>5, <1>6, <1>7, <1>11 DEF WorkerStep, Work, WorkStore, netVars
<1>12. CASE UNCHANGED vars  BY <1>1, <1>12 DEF vars, netVars
<1>13. QED
  BY <1>3, <1>4, <1>8, <1>9, <1>10, <1>11, <1>12 DEF Next, NetStep

(* A step that keeps the results, the maps and who is inserting.           *)
LEMMA InsertsStay ==
  ASSUME Inserts, UNCHANGED dicts, Answers' = Answers,
         \A w \in Workers, k \in Keys :
           Inserting(w, k)' => Inserting(w, k) /\ (step'[w] = "store" <=> step[w] = "store")
  PROVE  Inserts'
<1>1. \A k \in Keys : Value(k)' = Value(k)  BY DEF Value
<1>2. \A r, k : SaysInserted(r, k)' = SaysInserted(r, k)  BY DEF SaysInserted
<1>3. ASSUME NEW k \in Keys PROVE Fresh(k)'
  BY <1>1, <1>3 DEF Inserts, Fresh, SaysInserted
<1>4. ASSUME NEW k \in Keys PROVE Unique(k)'
  BY <1>4 DEF Inserts, Unique, SaysInserted
<1>5. ASSUME NEW k \in Keys, NEW w \in Workers, (step[w] = "store" /\ Inserting(w, k))'
      PROVE  (Value(k) = None)'
  BY <1>1, <1>5 DEF Inserts
<1>6. QED  BY <1>3, <1>4, <1>5 DEF Inserts

(* Two workers at one key are not both inside its map.                     *)
LEMMA OneAtKey ==
  ASSUME IInv, Held, NEW v \in Workers, NEW w \in Workers, Inside(v), Inside(w),
         req[v].key = req[w].key
  PROVE  v = w
BY DEF Held, Index

LEMMA FindInserts ==
  ASSUME IInv, Held, Inserts, NEW w \in Workers, Find(w), Answers' = Answers
  PROVE  Inserts'
<1> DEFINE key == req[w].key
           it == dicts[Index(w)][key]
<1>1. UNCHANGED <<dicts, req>> /\ step[w] = "find" /\ req[w] \in Requests
  BY DEF Find, IInv, Busy
<1>2. key \in Keys /\ it = Value(key)  BY <1>1 DEF Requests, Value, Index
<1>3. \A v \in Workers : v # w => step'[v] = step[v] /\ rsp'[v] = rsp[v]
  <2>1. \A v \in Workers : v # w => step'[v] = step[v]
    BY DEF Find, IInv, TypeOK, StoreTypeOK
  <2>2. \E r : rsp' = [rsp EXCEPT ![w] = r]  BY DEF Find
  <2>3. QED  BY <2>1, <2>2 DEF IInv, TypeOK, StoreTypeOK
<1>4. rsp'[w] = "code 2" => it = None /\ step'[w] = "store"
  <2>1. it \in Values \cup {None}
    BY <1>2, BucketInRange DEF Value, IInv, TypeOK, StoreTypeOK
  <2>2. CASE req[w].val = None
    <3>1. rsp' = [rsp EXCEPT ![w] = IF it # None THEN it ELSE "not found"]
      BY <2>2 DEF Find
    <3>2. rsp'[w] = IF it # None THEN it ELSE "not found"
      BY <3>1 DEF IInv, TypeOK, StoreTypeOK
    <3>3. "code 2" \notin Values  BY StoreAssumption
    <3> HIDE DEF it
    <3>4. QED  BY <2>1, <3>2, <3>3
  <2>3. CASE req[w].val # None
    <3>1. rsp' = [rsp EXCEPT ![w] = IF it # None THEN "code 1" ELSE "code 2"]
          /\ step' = [step EXCEPT ![w] = "store"]
      BY <2>3 DEF Find
    <3> HIDE DEF it
    <3>2. QED  BY <3>1 DEF IInv, TypeOK, StoreTypeOK
  <2>4. QED  BY <2>2, <2>3
<1>5. \A k \in Keys : Value(k)' = Value(k)  BY <1>1 DEF Value
<1> HIDE DEF it
<1>6. CASE rsp'[w] # "code 2"
  <2>1. \A v \in Workers, k \in Keys :
          Inserting(v, k)' => Inserting(v, k) /\ (step'[v] = "store" <=> step[v] = "store")
    BY <1>1, <1>3, <1>6 DEF Inserting
  <2>2. QED  BY <1>1, <2>1, InsertsStay
<1>7. CASE rsp'[w] = "code 2"
  <2>1. Value(key) = None /\ step'[w] = "store"  BY <1>2, <1>4, <1>7
  <2>2. \A v \in Workers, k \in Keys : v # w => (Inserting(v, k)' <=> Inserting(v, k))
    BY <1>1, <1>3 DEF Inserting
  <2>3. \A k \in Keys : Inserting(w, k)' => k = key  BY <1>1 DEF Inserting
  <2>4. /\ \A r \in Answers : ~SaysInserted(r, key)
        /\ \A v \in Workers : v # w => ~Inserting(v, key)
    <3>1. Fresh(key)  BY <1>2 DEF Inserts
    <3>2. ASSUME NEW v \in Workers, v # w, Inserting(v, key) PROVE FALSE
      <4>1. step[v] = "store"  BY <2>1, <3>1, <3>2 DEF Fresh
      <4>2. QED  BY <1>1, <3>2, <4>1, OneAtKey DEF Inside, Inserting
    <3>3. QED  BY <2>1, <3>1, <3>2 DEF Fresh
  <2>5. ASSUME NEW k \in Keys PROVE Fresh(k)'
    <3>1. Fresh(k)  BY DEF Inserts
    <3>2. ASSUME NEW v \in Workers, Inserting(v, k)', Value(k) = None PROVE step'[v] = "store"
      BY <1>3, <2>1, <2>2, <3>1, <3>2 DEF Fresh
    <3>3. QED  BY <1>5, <3>1, <3>2 DEF Fresh, SaysInserted
  <2>6. ASSUME NEW k \in Keys PROVE Unique(k)'
    <3>1. Unique(k)  BY DEF Inserts
    <3>2. CASE k = key  BY <2>2, <2>4, <3>1, <3>2 DEF Unique, SaysInserted
    <3>3. CASE k # key  BY <2>2, <2>3, <3>1, <3>3 DEF Unique, SaysInserted
    <3>4. QED  BY <3>2, <3>3
  <2>7. ASSUME NEW k \in Keys, NEW v \in Workers, (step[v] = "store" /\ Inserting(v, k))'
        PROVE  (Value(k) = None)'
    <3>1. CASE v = w  BY <1>5, <2>1, <2>3, <2>7, <3>1
    <3>2. CASE v # w  BY <1>3, <1>5, <2>2, <2>7, <3>2 DEF Inserts
    <3>3. QED  BY <3>1, <3>2
  <2>8. QED  BY <2>5, <2>6, <2>7 DEF Inserts
<1>8. QED  BY <1>6, <1>7

(* A value is stored under one key and never taken away.                   *)
LEMMA StoreSets ==
  ASSUME IInv, NEW w \in Workers, Store(w)
  PROVE  /\ req[w] \in Requests /\ req[w].key \in Keys /\ req[w].val \in Values
         /\ req[w].val # None
         /\ \A k \in Keys : Value(k)' = IF k = req[w].key THEN req[w].val ELSE Value(k)
<1>1. req[w] \in Requests /\ req[w].val # None  BY DEF Store, IInv, Busy
<1>2. req[w].key \in Keys /\ req[w].val \in Values  BY <1>1 DEF Requests
<1>3. dicts \in [Buckets -> [Keys -> Values \cup {None}]]  BY DEF IInv, TypeOK, StoreTypeOK
<1>4. dicts' = [dicts EXCEPT ![Index(w)][req[w].key] = req[w].val]  BY DEF Store
<1>5. ASSUME NEW k \in Keys
      PROVE  Value(k)' = IF k = req[w].key THEN req[w].val ELSE Value(k)
  <2> DEFINE b == getAllottedBucket(k)
  <2>1. b \in Buckets /\ Index(w) \in Buckets  BY <1>2, BucketInRange DEF Index
  <2>2. Value(k)' = dicts'[b][k]  BY DEF Value
  <2>3. CASE k = req[w].key
    <3>1. b = Index(w)  BY <2>3 DEF Index
    <3> HIDE DEF b
    <3>2. dicts'[b][k] = req[w].val  BY <1>3, <1>4, <2>1, <2>3, <3>1
    <3>3. QED  BY <2>2, <2>3, <3>2
  <2>4. CASE k # req[w].key
    <3> HIDE DEF b
    <3>1. dicts'[b][k] = dicts[b][k]  BY <1>3, <1>4, <2>1, <2>4
    <3>2. QED  BY <2>2, <2>4, <3>1 DEF Value, b
  <2>5. QED  BY <2>3, <2>4
<1>6. QED  BY <1>1, <1>2, <1>5

LEMMA StoreInserts ==
  ASSUME IInv, Held, Inserts, NEW w \in Workers, Store(w), Answers' = Answers
  PROVE  Inserts'
<1>0. PICK key \in Keys : key = req[w].key  BY StoreSets
<1>1. /\ UNCHANGED <<req, rsp>> /\ step[w] = "store" /\ step'[w] = "unlock"
      /\ \A v \in Workers : v # w => step'[v] = step[v]
  BY DEF Store, IInv, TypeOK, StoreTypeOK
<1>2. Value(key)' # None /\ \A k \in Keys : k # key => Value(k)' = Value(k)
  BY <1>0, StoreSets
<1>3. \A v \in Workers, k \in Keys : Inserting(v, k)' <=> Inserting(v, k)
  BY <1>1 DEF Inserting
<1>4. ASSUME NEW k \in Keys PROVE Fresh(k)'
  <2>1. Fresh(k)  BY DEF Inserts
  <2>2. CASE k = key  BY <1>2, <2>2 DEF Fresh
  <2>3. CASE k # key
    <3>1. ASSUME NEW v \in Workers, Inserting(v, k) PROVE v # w
      BY <1>0, <2>3, <3>1 DEF Inserting
    <3>2. QED  BY <1>1, <1>2, <1>3, <2>1, <2>3, <3>1 DEF Fresh, SaysInserted
  <2>4. QED  BY <2>2, <2>3
<1>5. ASSUME NEW k \in Keys PROVE Unique(k)'
  <2>1. Unique(k)  BY DEF Inserts
  <2>2. QED  BY <1>3, <2>1 DEF Unique, SaysInserted
<1>6. ASSUME NEW k \in Keys, NEW v \in Workers, (step[v] = "store" /\ Inserting(v, k))'
      PROVE  (Value(k) = None)'
  <2>1. v # w /\ step[v] = "store" /\ Inserting(v, k)  BY <1>1, <1>3, <1>6
  <2>2. k # key
    <3>1. req[v].key = k  BY <2>1 DEF Inserting
    <3>2. QED  BY <1>0, <1>1, <2>1, <3>1, OneAtKey DEF Inside
  <2>3. QED  BY <1>2, <2>1, <2>2 DEF Inserts
<1>7. QED  BY <1>4, <1>5, <1>6 DEF Inserts

LEMMA AnswerInserts ==
  ASSUME IInv, Served, Inserts, NEW w \in Workers, Answer(w)
  PROVE  Inserts'
<1> DEFINE r == [call |-> FirstCall(w), rsp |-> rsp[w]]
<1>1. /\ serving[w] \in Conns /\ step[w] = "end" /\ r \in Results
      /\ Service!Serve(serving[w], r) /\ req[w].key = FirstCall(w).key
  BY AnswerServes
<1>2. r.call.key = req[w].key /\ r.rsp = rsp[w]  BY <1>1
<1> HIDE DEF r
<1>3. Answers' = Answers \cup {r}
  <2>1. Answers' = UNION {ResultsOf(c)' : c \in Conns}  BY DEF Answers
  <2>2. \A c \in Conns : ResultsOf(c)' = IF c = serving[w] THEN ResultsOf(c) \cup {r} ELSE ResultsOf(c)
    BY <1>1, ServeAdds
  <2>3. QED  BY <1>1, <2>1, <2>2 DEF Answers
<1>4. /\ UNCHANGED dicts /\ step'[w] = "idle"
      /\ \A v \in Workers : v # w => step'[v] = step[v] /\ req'[v] = req[v] /\ rsp'[v] = rsp[v]
  BY DEF Answer, End, IInv, TypeOK, StoreTypeOK
<1>5. \A k \in Keys : Value(k)' = Value(k)  BY <1>4 DEF Value
<1>6. \A v \in Workers, k \in Keys :
        Inserting(v, k)' => v # w /\ Inserting(v, k) /\ step'[v] = step[v]
  BY <1>4 DEF Inserting
<1>7. \A k \in Keys : SaysInserted(r, k) => Inserting(w, k)
  BY <1>1, <1>2 DEF SaysInserted, Inserting
<1>8. ASSUME NEW k \in Keys PROVE Fresh(k)'
  <2>1. Fresh(k)  BY DEF Inserts
  <2>2. Value(k) = None => ~SaysInserted(r, k)  BY <1>1, <1>7, <2>1 DEF Fresh
  <2>3. QED  BY <1>3, <1>5, <1>6, <2>1, <2>2 DEF Fresh, SaysInserted
<1>9. ASSUME NEW k \in Keys PROVE Unique(k)'
  <2>1. Unique(k)  BY DEF Inserts
  <2>2. CASE ~SaysInserted(r, k)
    BY <1>3, <1>6, <2>1, <2>2 DEF Unique, SaysInserted
  <2>3. CASE SaysInserted(r, k)
    <3>1. Inserting(w, k)  BY <1>7, <2>3
    <3>2. /\ \A q \in Answers : ~SaysInserted(q, k)
          /\ \A v \in Workers : v # w => ~Inserting(v, k)
      BY <2>1, <3>1 DEF Unique
    <3>3. QED  BY <1>3, <1>6, <3>2 DEF Unique, SaysInserted
  <2>4. QED  BY <2>2, <2>3
<1>10. ASSUME NEW k \in Keys, NEW v \in Workers, (step[v] = "store" /\ Inserting(v, k))'
       PROVE  (Value(k) = None)'
  BY <1>5, <1>6, <1>10 DEF Inserts
<1>11. QED  BY <1>8, <1>9, <1>10 DEF Inserts

LEMMA NextInserts == IInv /\ Held /\ Served /\ Inserts /\ [Next]_vars => Inserts'
<1> SUFFICES ASSUME IInv, Held, Served, Inserts, [Next]_vars PROVE Inserts'
  OBVIOUS
<1>1. CASE UNCHANGED storeVars /\ Answers' = Answers
  <2>1. \A w \in Workers, k \in Keys :
          Inserting(w, k)' => Inserting(w, k) /\ (step'[w] = "store" <=> step[w] = "store")
    BY <1>1 DEF Inserting, storeVars
  <2>2. QED  BY <1>1, <2>1, InsertsStay DEF storeVars
<1>2. ASSUME UNCHANGED <<outbox, got>> PROVE Answers' = Answers
  BY <1>2 DEF Answers, ResultsOf
<1>3. ASSUME NEW c \in Conns, Service!Deliver(c), UNCHANGED storeVars PROVE Inserts'
  <2>1. Answers' = UNION {ResultsOf(d)' : d \in Conns}  BY DEF Answers
  <2>2. Answers' = Answers  BY <1>3, <2>1, DeliverKeeps DEF Answers
  <2>3. QED  BY <1>1, <1>3, <2>2
<1>4. CASE MainStep
  BY <1>1, <1>2, <1>4 DEF MainStep, Make, MakeFails, Launch, Joined, Stop, Drop, Exit, netVars
<1>5. ASSUME NEW s \in Stubs, AppStep(s) \/ Enter(s) \/ Return(s) \/ SendPending(s)
      PROVE  Inserts'
  <2>1. UNCHANGED <<storeVars, outbox, got>>
    BY <1>5 DEF AppStep, Finish, NullCall, Answered, MakeCall, Enter, Return,
                SendPending, netVars, Service!Post
  <2>2. QED  BY <1>1, <1>2, <2>1
<1>6. ASSUME NEW s \in Stubs, Receive(s) PROVE Inserts'
  BY <1>3, <1>6 DEF Receive, Conns
<1>7. ASSUME NEW c \in Peers,
             PeerReceives(c) \/ \E k \in Keys, v \in Values : PeerCalls(c, k, v)
      PROVE  Inserts'
  <2>1. CASE PeerReceives(c)  BY <1>3, <2>1 DEF PeerReceives, Conns
  <2>2. CASE \E k \in Keys, v \in Values : PeerCalls(c, k, v)
    <3>1. UNCHANGED <<storeVars, outbox, got>>  BY <2>2 DEF PeerCalls, Service!Post
    <3>2. QED  BY <1>1, <1>2, <3>1
  <2>3. QED  BY <1>7, <2>1, <2>2
<1>8. ASSUME NEW w \in Workers, WorkerStep(w) PROVE Inserts'
  <2>1. ASSUME UNCHANGED <<outbox, got, dicts, rsp>>,
               \/ \E r : Begin(w, r)
               \/ Lock(w) \/ Unlock(w)
        PROVE  Inserts'
    <3>1. \A v \in Workers, k \in Keys :
            Inserting(v, k)' => Inserting(v, k) /\ (step'[v] = "store" <=> step[v] = "store")
      <4>1. step'[w] # "store" /\ step[w] # "store"
            /\ (step'[w] \in {"unlock", "end"} => step[w] \in {"unlock", "end"} /\ req'[w] = req[w])
        BY <2>1 DEF Begin, Lock, Unlock, IInv, TypeOK, StoreTypeOK
      <4>2. \A v \in Workers : v # w => step'[v] = step[v] /\ req'[v] = req[v]
        BY <2>1 DEF Begin, Lock, Unlock, IInv, TypeOK, StoreTypeOK
      <4>3. UNCHANGED rsp  BY <2>1
      <4>4. QED  BY <4>1, <4>2, <4>3 DEF Inserting
    <3>2. QED  BY <1>2, <2>1, <3>1, InsertsStay
  <2>2. ASSUME NEW c \in Conns, Accept(w, c) PROVE Inserts'
    BY <2>1, <2>2 DEF Accept, Begin
  <2>3. CASE Work(w)
    <3>1. UNCHANGED <<outbox, got>>  BY <2>3 DEF Work, netVars
    <3>2. CASE Lock(w) \/ Unlock(w)  BY <2>1, <3>1, <3>2 DEF Lock, Unlock
    <3>3. CASE Find(w)  BY <1>2, <3>1, <3>3, FindInserts
    <3>4. QED  BY <2>3, <3>2, <3>3 DEF Work
  <2>4. CASE WorkStore(w)  BY <1>2, <2>4, StoreInserts DEF WorkStore, netVars
  <2>5. CASE Answer(w)  BY <2>5, AnswerInserts
  <2>6. QED  BY <1>8, <2>2, <2>3, <2>4, <2>5 DEF WorkerStep
<1>9. CASE UNCHANGED vars  BY <1>1, <1>2, <1>9 DEF vars, netVars
<1>10. QED  BY <1>4, <1>5, <1>6, <1>7, <1>8, <1>9 DEF Next, NetStep

(* For any number of connections that set a new key at once, one caller is *)
(* told that it was inserted: SetValueInternal looks the key up and stores *)
(* under one lock, and a value is never taken away.                        *)
THEOREM InsertedByOne == Spec => []InsertedOnce
<1>1. Init => Held /\ Served /\ Inserts
  <2> SUFFICES ASSUME Init PROVE Held /\ Served /\ Inserts
    OBVIOUS
  <2>1. \A w \in Workers : step[w] = "idle"  BY DEF Init, StoreInit
  <2>2. Held /\ Served  BY <2>1 DEF Held, Inside, Served
  <2>3. Answers = {}  BY DEF Answers, ResultsOf, Init, Service!SvcInit
  <2>4. QED  BY <2>1, <2>2, <2>3 DEF Inserts, Fresh, Unique, Inserting
<1>2. Inserts => InsertedOnce
  <2> SUFFICES ASSUME Inserts, NEW k \in Keys
               PROVE  Cardinality({r \in Answers : SaysInserted(r, k)}) <= 1
    BY DEF InsertedOnce, Answers, SaysInserted
  <2> DEFINE S == {r \in Answers : SaysInserted(r, k)}
  <2>1. CASE S = {}  BY <2>1, FS_EmptySet
  <2>2. CASE S # {}
    <3>1. PICK r \in S : TRUE  BY <2>2
    <3>2. Unique(k)  BY DEF Inserts
    <3>3. S = {r}  BY <3>1, <3>2 DEF Unique
    <3> HIDE DEF S
    <3>4. Cardinality(S) = 1  BY <3>3, FS_Singleton
    <3>5. QED  BY <3>4 DEF S
  <2>3. QED  BY <2>1, <2>2
<1>3. QED
  BY <1>1, <1>2, InitTyped, NextTyped, NextHeld, NextServed, NextInserts, PTL DEF Spec

(* What a read may report.                                                 *)

LEMMA GetterIsConn == "getter" \in Conns /\ "getter" \in Stubs /\ "getter" \notin Peers
  BY CallsAssumption DEF Conns, Stubs

LEMMA GetterCounts ==
  ASSUME IInv
  PROVE  made["getter"] \in Nat /\ MaxCalls["getter"] \in Nat
<1>1. \A c \in Conns : MaxCalls[c] \in Nat  BY CallsAssumption
<1>2. \A n \in Nths \cup {0} : n \in Nat  BY <1>1 DEF Nths
<1>3. made["getter"] \in Nths \cup {0}  BY GetterIsConn DEF IInv, TypeOK
<1>4. made["getter"] \in Nat  BY <1>2, <1>3
<1>5. QED  BY <1>1, <1>4, GetterIsConn

LEMMA GetsAre == Gets = Elems(pending["getter"]) \cup Elems(inbox["getter"])
  BY DEF Gets, Elems

LEMMA GetsTyped == ASSUME IInv PROVE Gets \subseteq Calls
<1>1. pending["getter"] \in Seq(Calls) /\ inbox["getter"] \in Seq(Calls)
  BY GetterIsConn DEF IInv, TypeOK
<1>2. QED  BY <1>1 DEF Gets

(* The call that a worker of the getter's connection serves is a get.      *)
LEMMA ServesGet ==
  ASSUME IInv, Served, NEW w \in Workers, step[w] # "idle", serving[w] = "getter"
  PROVE  FirstCall(w) \in Gets
<1>1. inbox["getter"] \in Seq(Calls) /\ inbox["getter"] # <<>>
  BY GetterIsConn DEF IInv, TypeOK, Served
<1>2. Elems(inbox["getter"]) = {FirstCall(w)} \cup Elems(Tail(inbox["getter"]))
  BY <1>1, ElemsTail DEF FirstCall
<1>3. QED  BY <1>2, GetsAre

(* A step that keeps the maps and what was seen, after which the gets, the *)
(* answers under way and the results are no others than before.            *)
LEMMA ReadsStay ==
  ASSUME Reads, UNCHANGED <<dicts, seen, made>>, Gets' \subseteq Gets,
         ResultsOf("getter")' = ResultsOf("getter"),
         \A w \in Workers : (serving[w] = "getter" /\ step[w] \in {"unlock", "end"})'
           => /\ serving[w] = "getter" /\ step[w] \in {"unlock", "end"}
              /\ rsp'[w] = rsp[w] /\ FirstCall(w)' = FirstCall(w)
  PROVE  Reads'
<1>1. \A k : Now(k)' = Now(k)  BY DEF Now, Value
<1>2. (made["getter"] <= MaxCalls["getter"])'  BY DEF Reads
<1>3. ASSUME NEW m \in Gets'
      PROVE  (/\ m.conn = "getter" /\ m.val = None
              /\ m.nth \in 1..made["getter"] /\ Now(m.key) \in seen[m.nth])'
  BY <1>1, <1>3 DEF Reads
<1>4. ASSUME NEW w \in Workers, (serving[w] = "getter" /\ step[w] \in {"unlock", "end"})'
      PROVE  (rsp[w] \in seen[FirstCall(w).nth])'
  BY <1>4 DEF Reads
<1>5. ASSUME NEW r \in ResultsOf("getter")'
      PROVE  (r.call.nth \in 1..made["getter"] /\ r.rsp \in seen[r.call.nth])'
  BY <1>5 DEF Reads
<1>6. QED  BY <1>2, <1>3, <1>4, <1>5 DEF Reads

(* A get is made.                                                          *)
LEMMA GetReads ==
  ASSUME IInv, Served, Reads, NEW k \in Keys, NEW v \in Values \cup {None},
         MakeCall("getter", k, v)
  PROVE  Reads'
<1> DEFINE n == made["getter"] + 1
           m == Call("getter", k, v)
<1>1. v = None /\ made["getter"] < MaxCalls["getter"]
      /\ UNCHANGED <<dicts, step, rsp, serving, inbox, outbox, got>>
  BY DEF MakeCall, Wanted, storeVars, netVars
<1>2. m \in Calls /\ m.conn = "getter" /\ m.key = k /\ m.nth = n /\ m.val = v
  BY <1>1, CallTyped, GetterIsConn DEF Call
<1>3. made["getter"] \in Nat /\ MaxCalls["getter"] \in Nat  BY GetterCounts
<1>4. made'["getter"] = n  BY GetterIsConn DEF MakeCall, IInv, TypeOK
<1>5. seen' = [seen EXCEPT ![n] = {Now(k)}]
  BY <1>4 DEF MakeCall, Now
<1>6. n \in DOMAIN seen /\ n \notin 1..made["getter"] /\ n <= MaxCalls["getter"]
      /\ n \in 1..n /\ \A i \in 1..made["getter"] : i \in 1..n
  BY <1>1, <1>3 DEF IInv, TypeOK
<1>7. seen'[n] = {Now(k)} /\ \A i \in 1..made["getter"] : seen'[i] = seen[i]
  <2>1. DOMAIN seen = 1..MaxCalls["getter"]  BY DEF IInv, TypeOK
  <2>2. \A i \in 1..made["getter"] : i \in DOMAIN seen /\ i # n  BY <1>1, <1>3, <1>6, <2>1
  <2> HIDE DEF n
  <2>3. QED  BY <1>5, <1>6, <2>2
<1>8. Gets' = Gets \cup {m}
  <2>1. pending["getter"] \in Seq(Calls)  BY GetterIsConn DEF IInv, TypeOK
  <2>2. pending'["getter"] = Append(pending["getter"], m)
    BY GetterIsConn DEF MakeCall, IInv, TypeOK
  <2>3. Elems(pending'["getter"]) = Elems(pending["getter"]) \cup {m}
    BY <1>2, <2>1, <2>2, ElemsAppend
  <2>4. Gets' = Elems(pending'["getter"]) \cup Elems(inbox'["getter"])  BY DEF Gets, Elems
  <2>5. QED  BY <1>1, <2>3, <2>4, GetsAre
<1> HIDE DEF n, m
<1>9. \A j : Now(j)' = Now(j)  BY <1>1 DEF Now, Value
<1>10. ASSUME NEW g \in Gets'
       PROVE  (/\ g.conn = "getter" /\ g.val = None
               /\ g.nth \in 1..made["getter"] /\ Now(g.key) \in seen[g.nth])'
  <2>1. CASE g = m  BY <1>1, <1>2, <1>4, <1>6, <1>7, <1>9, <2>1
  <2>2. CASE g \in Gets  BY <1>4, <1>6, <1>7, <1>9, <2>2 DEF Reads
  <2>3. QED  BY <1>8, <2>1, <2>2
<1>11. ASSUME NEW w \in Workers, (serving[w] = "getter" /\ step[w] \in {"unlock", "end"})'
       PROVE  (rsp[w] \in seen[FirstCall(w).nth])'
  <2>1. serving[w] = "getter" /\ step[w] \in {"unlock", "end"} /\ FirstCall(w)' = FirstCall(w)
    BY <1>1, <1>11 DEF FirstCall
  <2>2. FirstCall(w).nth \in 1..made["getter"]  BY <2>1, ServesGet DEF Reads
  <2>3. QED  BY <1>1, <1>7, <2>1, <2>2 DEF Reads
<1>12. ASSUME NEW r \in ResultsOf("getter")'
       PROVE  (r.call.nth \in 1..made["getter"] /\ r.rsp \in seen[r.call.nth])'
  <2>1. r \in ResultsOf("getter")  BY <1>1, <1>12 DEF ResultsOf
  <2>2. QED  BY <1>4, <1>6, <1>7, <2>1 DEF Reads
<1>13. (made["getter"] <= MaxCalls["getter"])'  BY <1>4, <1>6
<1>14. QED  BY <1>10, <1>11, <1>12, <1>13 DEF Reads

(* A worker finds a key.                                                   *)
LEMMA FindReads ==
  ASSUME IInv, Served, Reads, NEW w \in Workers, Find(w),
         UNCHANGED <<seen, made, pending, inbox, outbox, got, serving>>
  PROVE  Reads'
<1>1. step[w] = "find" /\ req[w] \in Requests /\ UNCHANGED dicts
  BY DEF Find, IInv, Busy
<1>2. \A v \in Workers : v # w => step'[v] = step[v] /\ rsp'[v] = rsp[v]
  <2>1. \A v \in Workers : v # w => step'[v] = step[v]
    BY DEF Find, IInv, TypeOK, StoreTypeOK
  <2>2. \E r : rsp' = [rsp EXCEPT ![w] = r]  BY DEF Find
  <2>3. QED  BY <2>1, <2>2 DEF IInv, TypeOK, StoreTypeOK
<1>3. \A v \in Workers : FirstCall(v)' = FirstCall(v)  BY DEF FirstCall
<1>4. \A k : Now(k)' = Now(k)  BY <1>1 DEF Now, Value
<1>5. Gets' = Gets /\ ResultsOf("getter")' = ResultsOf("getter")  BY DEF Gets, ResultsOf
<1>6. ASSUME NEW v \in Workers, (serving[v] = "getter" /\ step[v] \in {"unlock", "end"})'
      PROVE  (rsp[v] \in seen[FirstCall(v).nth])'
  <2>1. CASE v # w  BY <1>2, <1>3, <1>6, <2>1 DEF Reads
  <2>2. CASE v = w
    <3>1. serving[w] = "getter"  BY <1>6, <2>2
    <3>2. FirstCall(w) \in Gets  BY <1>1, <3>1, ServesGet
    <3>3. req[w].val = None /\ req[w].key = FirstCall(w).key
          /\ Now(FirstCall(w).key) \in seen[FirstCall(w).nth]
      BY <1>1, <3>2 DEF Reads, Served
    <3>4. rsp' = [rsp EXCEPT ![w] = IF dicts[Index(w)][req[w].key] # None
                                    THEN dicts[Index(w)][req[w].key] ELSE "not found"]
      BY <3>3 DEF Find
    <3>5. rsp'[w] = Now(req[w].key)
      BY <3>4 DEF Now, Value, Index, IInv, TypeOK, StoreTypeOK
    <3>6. QED  BY <1>3, <2>2, <3>3, <3>5
  <2>3. QED  BY <2>1, <2>2
<1>7. QED  BY <1>4, <1>5, <1>6 DEF Reads

(* A worker stores a value: every get of the key that is under way has     *)
(* seen it, and what others saw they have still seen.                      *)
LEMMA StoreReads ==
  ASSUME IInv, Served, Reads, NEW w \in Workers, WorkStore(w)
  PROVE  Reads'
<1>1. /\ Store(w) /\ step[w] = "store" /\ UNCHANGED <<made, pending, inbox, outbox, got, serving, rsp>>
      /\ step' = [step EXCEPT ![w] = "unlock"]
  BY DEF WorkStore, Store, netVars, procVars
<1>2. req[w].val # None /\ \A k \in Keys : Value(k)' = IF k = req[w].key THEN req[w].val ELSE Value(k)
  BY <1>1, StoreSets
<1>3. Gets' = Gets /\ ResultsOf("getter")' = ResultsOf("getter")
      /\ \A v \in Workers : FirstCall(v)' = FirstCall(v)
  BY <1>1 DEF Gets, ResultsOf, FirstCall
<1>4. \A n \in DOMAIN seen : seen[n] \subseteq seen'[n]  BY DEF WorkStore
<1>5. ASSUME NEW m \in Gets, m.conn = "getter", m.key = req[w].key, m.nth \in DOMAIN seen
      PROVE  req[w].val \in seen'[m.nth]
  <2>1. m \in Calls  BY GetsTyped
  <2>2. \/ \E i \in 1..Len(pending["getter"]) : pending["getter"][i] = m
        \/ \E i \in 1..Len(inbox["getter"]) : inbox["getter"][i] = m
    BY DEF Gets
  <2>3. QED  BY <1>5, <2>1, <2>2 DEF WorkStore
<1>6. 1..made["getter"] \subseteq DOMAIN seen
  <2>1. made["getter"] <= MaxCalls["getter"] /\ DOMAIN seen = 1..MaxCalls["getter"]
    BY DEF Reads, IInv, TypeOK
  <2>2. QED  BY <2>1, GetterCounts
<1>7. ASSUME NEW m \in Gets
      PROVE  /\ m.conn = "getter" /\ m.val = None /\ m.nth \in 1..made["getter"]
             /\ Now(m.key)' \in seen'[m.nth]
  <2>1. m.conn = "getter" /\ m.val = None /\ m.nth \in 1..made["getter"]
        /\ Now(m.key) \in seen[m.nth]
    BY DEF Reads
  <2>2. m.key \in Keys  BY GetsTyped DEF Calls
  <2>3. CASE m.key = req[w].key
    <3>1. Now(m.key)' = req[w].val  BY <1>2, <2>2, <2>3 DEF Now
    <3>2. QED  BY <1>5, <1>6, <2>1, <2>3, <3>1
  <2>4. CASE m.key # req[w].key
    <3>1. Now(m.key)' = Now(m.key)  BY <1>2, <2>2, <2>4 DEF Now
    <3>2. QED  BY <1>4, <1>6, <2>1, <3>1
  <2>5. QED  BY <2>3, <2>4
<1>8. ASSUME NEW v \in Workers, (serving[v] = "getter" /\ step[v] \in {"unlock", "end"})'
      PROVE  (rsp[v] \in seen[FirstCall(v).nth])'
  <2>1. v # w
    <3>1. SUFFICES ASSUME v = w PROVE FALSE  OBVIOUS
    <3>2. serving[w] = "getter"  BY <1>1, <1>8, <3>1
    <3>3. FirstCall(w) \in Gets  BY <1>1, <3>2, ServesGet
    <3>4. req[w].val = None  BY <1>1, <3>3 DEF Reads, Served
    <3>5. QED  BY <1>2, <3>4
  <2>2. serving[v] = "getter" /\ step[v] \in {"unlock", "end"}
    BY <1>1, <1>8, <2>1 DEF IInv, TypeOK, StoreTypeOK
  <2>3. FirstCall(v).nth \in 1..made["getter"]  BY <2>2, ServesGet DEF Reads
  <2>4. QED  BY <1>1, <1>3, <1>4, <1>6, <2>2, <2>3 DEF Reads
<1>9. ASSUME NEW r \in ResultsOf("getter")
      PROVE  r.call.nth \in 1..made["getter"] /\ r.rsp \in seen'[r.call.nth]
  BY <1>4, <1>6 DEF Reads
<1>10. (made["getter"] <= MaxCalls["getter"])'  BY <1>1 DEF Reads
<1>11. QED  BY <1>1, <1>3, <1>7, <1>8, <1>9, <1>10 DEF Reads

(* A worker answers.                                                       *)
LEMMA AnswerReads ==
  ASSUME IInv, Served, Reads, NEW w \in Workers, Answer(w)
  PROVE  Reads'
<1> DEFINE c == serving[w]
           r == [call |-> FirstCall(w), rsp |-> rsp[w]]
<1>1. /\ c \in Conns /\ step[w] = "end" /\ r \in Results /\ Service!Serve(c, r)
      /\ inbox[c] \in Seq(Calls) /\ inbox[c] # <<>>
  BY AnswerServes
<1>2. inbox' = [inbox EXCEPT ![c] = Tail(inbox[c])]  BY <1>1 DEF Service!Serve
<1>3. UNCHANGED <<dicts, seen, made, pending>>  BY DEF Answer, End, procVars
<1>4. /\ step'[w] = "idle"
      /\ \A v \in Workers : v # w =>
           step'[v] = step[v] /\ rsp'[v] = rsp[v] /\ serving'[v] = serving[v]
  BY DEF Answer, End, IInv, TypeOK, StoreTypeOK
<1>5. r.call = FirstCall(w) /\ r.rsp = rsp[w]  OBVIOUS
<1>6. ResultsOf("getter")' = IF c = "getter" THEN ResultsOf("getter") \cup {r}
                                             ELSE ResultsOf("getter")
  BY <1>1, GetterIsConn, ServeAdds
<1> HIDE DEF r
<1>7. Gets' \subseteq Gets
  <2>1. Elems(inbox'["getter"]) \subseteq Elems(inbox["getter"])
    <3>1. CASE c = "getter"
      <4>1. inbox'["getter"] = Tail(inbox["getter"])
        BY <1>2, <3>1, GetterIsConn DEF IInv, TypeOK
      <4>2. Elems(inbox["getter"]) = {Head(inbox["getter"])} \cup Elems(Tail(inbox["getter"]))
        BY <1>1, <3>1, ElemsTail
      <4>3. QED  BY <4>1, <4>2
    <3>2. CASE c # "getter"
      <4>1. inbox'["getter"] = inbox["getter"]
        BY <1>2, <3>2, GetterIsConn DEF IInv, TypeOK
      <4>2. QED  BY <4>1
    <3>3. QED  BY <3>1, <3>2
  <2>2. Gets' = Elems(pending'["getter"]) \cup Elems(inbox'["getter"])  BY DEF Gets, Elems
  <2>3. QED  BY <1>3, <2>1, <2>2, GetsAre
<1>8. \A k : Now(k)' = Now(k)  BY <1>3 DEF Now, Value
<1>9. ASSUME NEW v \in Workers, (serving[v] = "getter" /\ step[v] \in {"unlock", "end"})'
      PROVE  (rsp[v] \in seen[FirstCall(v).nth])'
  <2>1. v # w  BY <1>4, <1>9
  <2>2. serving[v] = "getter" /\ step[v] \in {"unlock", "end"} /\ rsp'[v] = rsp[v]
    BY <1>4, <1>9, <2>1
  <2>3. c # "getter"  BY <1>1, <2>1, <2>2 DEF Served
  <2>4. inbox'["getter"] = inbox["getter"]
    BY <1>2, <2>3, GetterIsConn DEF IInv, TypeOK
  <2>5. FirstCall(v)' = FirstCall(v)  BY <1>9, <2>2, <2>4 DEF FirstCall
  <2>6. QED  BY <1>3, <2>2, <2>5 DEF Reads
<1>10. ASSUME NEW q \in ResultsOf("getter")'
       PROVE  (q.call.nth \in 1..made["getter"] /\ q.rsp \in seen[q.call.nth])'
  <2>1. CASE q \in ResultsOf("getter")  BY <1>3, <2>1 DEF Reads
  <2>2. CASE q = r /\ c = "getter"
    <3>1. FirstCall(w) \in Gets  BY <1>1, <2>2, ServesGet
    <3>2. FirstCall(w).nth \in 1..made["getter"] /\ rsp[w] \in seen[FirstCall(w).nth]
      BY <1>1, <2>2, <3>1 DEF Reads
    <3>3. QED  BY <1>3, <1>5, <2>2, <3>2
  <2>3. QED  BY <1>6, <2>1, <2>2
<1>11. ASSUME NEW m \in Gets'
       PROVE  (/\ m.conn = "getter" /\ m.val = None
               /\ m.nth \in 1..made["getter"] /\ Now(m.key) \in seen[m.nth])'
  BY <1>3, <1>7, <1>8, <1>11 DEF Reads
<1>12. (made["getter"] <= MaxCalls["getter"])'  BY <1>3 DEF Reads
<1>13. QED  BY <1>9, <1>10, <1>11, <1>12 DEF Reads

LEMMA NextReads == IInv /\ Served /\ Reads /\ [Next]_vars => Reads'
<1> SUFFICES ASSUME IInv, Served, Reads, [Next]_vars PROVE Reads'
  OBVIOUS
<1>1. ASSUME UNCHANGED <<dicts, step, rsp, seen, made, serving, inbox>>, Gets' \subseteq Gets,
             ResultsOf("getter")' = ResultsOf("getter")
      PROVE  Reads'
  BY <1>1, ReadsStay DEF FirstCall
<1>2. CASE UNCHANGED <<storeVars, netVars, made, pending, seen>>
  BY <1>1, <1>2 DEF storeVars, netVars, Gets, ResultsOf
<1>3. CASE MainStep
  BY <1>2, <1>3 DEF MainStep, Make, MakeFails, Launch, Joined, Stop, Drop, Exit
<1>4. ASSUME NEW s \in Stubs, AppStep(s) \/ Enter(s) \/ Return(s) PROVE Reads'
  <2>1. CASE UNCHANGED <<storeVars, netVars, made, pending, seen>>  BY <1>2, <2>1
  <2>2. ASSUME NEW k \in Keys, NEW v \in Values \cup {None}, MakeCall(s, k, v)
        PROVE  Reads'
    <3>1. CASE s = "getter"  BY <2>2, <3>1, GetReads
    <3>2. CASE s = "setter"
      <4>1. /\ UNCHANGED <<dicts, step, rsp, serving, inbox, outbox, got, seen>>
            /\ made' = [made EXCEPT ![s] = made[s] + 1]
            /\ pending' = [pending EXCEPT ![s] = Append(pending[s], Call(s, k, v))]
        BY <2>2, <3>2 DEF MakeCall, storeVars, netVars
      <4>2. made'["getter"] = made["getter"] /\ pending'["getter"] = pending["getter"]
        BY <3>2, <4>1, GetterIsConn DEF IInv, TypeOK
      <4>3. Gets' = Gets /\ ResultsOf("getter")' = ResultsOf("getter")
            /\ (\A w \in Workers : FirstCall(w)' = FirstCall(w)) /\ \A j : Now(j)' = Now(j)
        BY <4>1, <4>2 DEF Gets, ResultsOf, FirstCall, Now, Value
      <4>4. QED  BY <4>1, <4>2, <4>3 DEF Reads
    <3>3. QED  BY <3>1, <3>2 DEF Stubs
  <2>3. QED
    BY <1>4, <2>1, <2>2 DEF AppStep, Finish, NullCall, Answered, Enter, Return
<1>5. ASSUME NEW c \in Conns, Service!Deliver(c), UNCHANGED <<storeVars, serving, made, pending, seen>>
      PROVE  Reads'
  <2>1. UNCHANGED inbox  BY <1>5 DEF Service!Deliver
  <2>2. ResultsOf("getter")' = ResultsOf("getter")  BY <1>5, DeliverKeeps, GetterIsConn
  <2>3. QED  BY <1>1, <1>5, <2>1, <2>2 DEF storeVars, Gets
(* A call is posted: the gets are those there were, and workers go on with *)
(* the first of their connection.                                          *)
<1>6. ASSUME NEW c \in Conns, NEW m \in Calls, Service!Post(c, m),
             UNCHANGED <<storeVars, serving, seen>>, made'["getter"] = made["getter"],
             Gets' \subseteq Gets
      PROVE  Reads'
  <2>1. UNCHANGED <<dicts, step, rsp, serving, seen, outbox, got>>
        /\ inbox' = [inbox EXCEPT ![c] = Append(inbox[c], m)]
    BY <1>6 DEF storeVars, Service!Post
  <2>2. ASSUME NEW w \in Workers, serving[w] = "getter" /\ step[w] \in {"unlock", "end"}
        PROVE  FirstCall(w)' = FirstCall(w)
    <3>1. inbox["getter"] \in Seq(Calls) /\ inbox["getter"] # <<>>
      BY <2>2, GetterIsConn DEF Served, IInv, TypeOK
    <3>2. FirstCall(w)' = Head(inbox'["getter"]) /\ FirstCall(w) = Head(inbox["getter"])
      BY <2>1, <2>2 DEF FirstCall
    <3>3. inbox'["getter"] = inbox["getter"] \/ inbox'["getter"] = Append(inbox["getter"], m)
      BY <2>1, GetterIsConn DEF IInv, TypeOK
    <3>4. QED  BY <3>1, <3>2, <3>3, HeadStays
  <2>3. ResultsOf("getter")' = ResultsOf("getter") /\ \A j : Now(j)' = Now(j)
    BY <2>1 DEF ResultsOf, Now, Value
  <2>4. QED  BY <1>6, <2>1, <2>2, <2>3 DEF Reads
<1>7. ASSUME NEW s \in Stubs, SendPending(s) PROVE Reads'
  <2> DEFINE m == Head(pending[s])
  <2>1. s \in Conns /\ pending[s] \in Seq(Calls) /\ pending[s] # <<>>
    BY <1>7 DEF Conns, SendPending, IInv, TypeOK
  <2>2. m \in Calls  BY <2>1
  <2>3. /\ inbox' = [inbox EXCEPT ![s] = Append(inbox[s], m)]
        /\ pending' = [pending EXCEPT ![s] = Tail(pending[s])]
    BY <1>7 DEF SendPending, Service!Post
  <2>4. Gets' = Elems(pending'["getter"]) \cup Elems(inbox'["getter"])  BY DEF Gets, Elems
  <2>5. Gets' \subseteq Gets
    <3>1. CASE s # "getter"
      <4>1. pending'["getter"] = pending["getter"] /\ inbox'["getter"] = inbox["getter"]
        BY <2>3, <3>1, GetterIsConn DEF IInv, TypeOK
      <4>2. QED  BY <2>4, <4>1, GetsAre
    <3>2. CASE s = "getter"
      <4>1. pending'["getter"] = Tail(pending["getter"])
            /\ inbox'["getter"] = Append(inbox["getter"], m)
            /\ inbox["getter"] \in Seq(Calls)
        BY <2>3, <3>2, GetterIsConn DEF IInv, TypeOK
      <4>2. Elems(pending["getter"]) = {m} \cup Elems(pending'["getter"])
        BY <2>1, <3>2, <4>1, ElemsTail
      <4>3. Elems(inbox'["getter"]) = Elems(inbox["getter"]) \cup {m}
        BY <2>2, <4>1, ElemsAppend
      <4> HIDE DEF m
      <4>4. QED  BY <2>4, <4>2, <4>3, GetsAre
    <3>3. QED  BY <3>1, <3>2
  <2>6. Service!Post(s, m) /\ UNCHANGED <<storeVars, serving, seen, made>>
    BY <1>7 DEF SendPending
  <2> HIDE DEF m
  <2>7. QED  BY <1>6, <2>1, <2>2, <2>5, <2>6
<1>8. ASSUME NEW s \in Stubs, Receive(s) PROVE Reads'
  BY <1>5, <1>8 DEF Receive, procVars, Conns
<1>9. ASSUME NEW c \in Peers, PeerReceives(c) PROVE Reads'
  BY <1>5, <1>9 DEF PeerReceives, procVars, Conns
<1>10. ASSUME NEW c \in Peers, NEW k \in Keys, NEW v \in Values, PeerCalls(c, k, v)
       PROVE  Reads'
  <2>1. c \in Conns /\ c # "getter" /\ Call(c, k, v) \in Calls
    BY <1>10, CallTyped, GetterIsConn DEF Conns, PeerCalls
  <2>2. /\ Service!Post(c, Call(c, k, v)) /\ UNCHANGED <<storeVars, serving, seen, pending>>
        /\ made' = [made EXCEPT ![c] = made[c] + 1]
    BY <1>10 DEF PeerCalls, procVars
  <2>3. made'["getter"] = made["getter"] /\ inbox'["getter"] = inbox["getter"]
    BY <2>1, <2>2, GetterIsConn DEF IInv, TypeOK, Service!Post
  <2>4. Gets' = Gets  BY <2>2, <2>3 DEF Gets
  <2>5. QED  BY <1>6, <2>1, <2>2, <2>3, <2>4
<1>11. ASSUME NEW w \in Workers, WorkerStep(w) PROVE Reads'
  <2>1. ASSUME NEW c \in Conns, Accept(w, c) PROVE Reads'
    <3>1. /\ UNCHANGED <<dicts, rsp, seen, made, pending, inbox, outbox, got>>
          /\ step' = [step EXCEPT ![w] = "lock"] /\ serving' = [serving EXCEPT ![w] = c]
      BY <2>1 DEF Accept, Begin, procVars
    <3>2. step'[w] = "lock" /\ \A v \in Workers : v # w => step'[v] = step[v] /\ serving'[v] = serving[v]
      BY <3>1 DEF IInv, TypeOK, StoreTypeOK
    <3>3. Gets' = Gets /\ ResultsOf("getter")' = ResultsOf("getter")  BY <3>1 DEF Gets, ResultsOf
    <3>4. ASSUME NEW v \in Workers, (serving[v] = "getter" /\ step[v] \in {"unlock", "end"})'
          PROVE  /\ serving[v] = "getter" /\ step[v] \in {"unlock", "end"}
                 /\ rsp'[v] = rsp[v] /\ FirstCall(v)' = FirstCall(v)
      BY <3>1, <3>2, <3>4 DEF FirstCall
    <3>5. QED  BY <3>1, <3>3, <3>4, ReadsStay
  <2>2. CASE Work(w)
    <3>1. UNCHANGED <<seen, made, pending, inbox, outbox, got, serving>>
      BY <2>2 DEF Work, netVars, procVars
    <3>2. CASE Lock(w) \/ Unlock(w)
      <4>1. UNCHANGED <<dicts, rsp>>  BY <3>2 DEF Lock, Unlock
      <4>2. \A v \in Workers : step'[v] \in {"unlock", "end"} => step[v] \in {"unlock", "end"}
        BY <3>2 DEF Lock, Unlock, IInv, TypeOK, StoreTypeOK
      <4>3. Gets' = Gets /\ ResultsOf("getter")' = ResultsOf("getter")
            /\ \A v \in Workers : FirstCall(v)' = FirstCall(v)
        BY <3>1 DEF Gets, ResultsOf, FirstCall
      <4>4. QED  BY <3>1, <4>1, <4>2, <4>3, ReadsStay
    <3>3. CASE Find(w)  BY <3>1, <3>3, FindReads
    <3>4. QED  BY <2>2, <3>2, <3>3 DEF Work
  <2>3. QED  BY <1>11, <2>1, <2>2, StoreReads, AnswerReads DEF WorkerStep
<1>12. CASE UNCHANGED vars  BY <1>2, <1>12 DEF vars, procVars
<1>13. QED
  BY <1>3, <1>4, <1>7, <1>8, <1>9, <1>10, <1>11, <1>12 DEF Next, NetStep

(* For any number of workers, writers, keys and calls, GetValue reports a  *)
(* value that its key had between the call and the result: neither the     *)
(* queues nor the locks make a read miss a value that was there before it. *)
THEOREM ReadsRegular == Spec => []ReadsAreRegular
<1>1. Init => Served /\ Reads
  <2> SUFFICES ASSUME Init PROVE Served /\ Reads
    OBVIOUS
  <2>1. \A w \in Workers : step[w] = "idle"  BY DEF Init, StoreInit
  <2>2. Gets = {} /\ ResultsOf("getter") = {}
    BY GetterIsConn DEF Gets, ResultsOf, Init, Service!SvcInit
  <2>3. made["getter"] <= MaxCalls["getter"]
    <3>1. made["getter"] = 0 /\ MaxCalls["getter"] \in Nat
      BY GetterIsConn, CallsAssumption DEF Init
    <3>2. QED  BY <3>1
  <2>4. QED  BY <2>1, <2>2, <2>3 DEF Served, Reads
<1>2. Reads => ReadsAreRegular  BY DEF Reads, ReadsAreRegular
<1>3. QED  BY <1>1, <1>2, InitTyped, NextTyped, NextServed, NextReads, PTL DEF Spec

=============================================================================
