-------------------------- MODULE RpcServerProofs ---------------------------
(***************************************************************************)
(* For any number of connections, descriptors, workers and queue slots and *)
(* any kinds of request:                                                   *)
(* - EPOLLONESHOT keeps every descriptor to one thread, under every fault; *)
(* - an event is still worth handling when a worker comes to it;           *)
(* - what a client does wrong makes no other client deaf;                  *)
(* - no call is lost, answered twice, overtaken or answered to another     *)
(*   client, and the server implements RpcService, as long as clients stay *)
(*   for their answers and send() does not fail.                           *)
(***************************************************************************)
EXTENDS RpcServer, FiniteSetTheorems, SequenceTheorems, WellFoundedInduction,
        TLAPS

-----------------------------------------------------------------------------
(* The lock: the inductive invariant.                                      *)

(* What a worker's label says of its task and its local variable.          *)
Labels ==
  /\ handlers[ListenFd] = {"READ"}
  /\ \A w \in Workers :
       /\ pc[w] \in {"attach", "add", "relisten"} => held[w].fd = ListenFd
       /\ pc[w] \in {"attach", "add"} => loc[w] \in Fds
       /\ pc[w] \in {"handle", "send", "done", "delete", "close"}
            => held[w].fd \in Fds
       /\ pc[w] \in {"handle", "send"} => loc[w] \in Messages

(* No two tasks for one descriptor.                                        *)
Distinct ==
  /\ \A t, u \in batch : t.fd = u.fd => t = u
  /\ \A t \in batch, i \in 1..Len(queue) : t.fd # queue[i].fd
  /\ \A t \in batch, w \in Workers : ~Busy(w, t.fd)
  /\ \A i, k \in 1..Len(queue) : queue[i].fd = queue[k].fd => i = k
  /\ \A i \in 1..Len(queue), w \in Workers : ~Busy(w, queue[i].fd)
  /\ \A v, w \in Workers, f \in AllFds : Busy(v, f) /\ Busy(w, f) => v = w

(* A descriptor with a task is disarmed.                                   *)
Disarmed ==
  /\ \A f \in AllFds : InFlight(f) => interest[f] \in {"off", "absent"}
  /\ \A w \in Workers : pc[w] = "close" => interest[held[w].fd] = "absent"

(* A descriptor just accepted is not yet known to epoll.                   *)
Fresh ==
  \A w \in Workers : pc[w] \in {"attach", "add"} =>
    owner[loc[w]] # None /\ interest[loc[w]] = "absent" /\ ~InFlight(loc[w])

(* A number that is free to be accepted is not registered or in use.       *)
Free ==
  \A f \in Fds : owner[f] = None => interest[f] = "absent" /\ ~InFlight(f)

Lock == TypeOK /\ Labels /\ Distinct /\ Disarmed /\ Fresh /\ Free

-----------------------------------------------------------------------------
(* The lock: the invariant is strong enough.                               *)

LEMMA LockImpliesExclusive == Lock => FdExclusive
BY DEF Lock, FdExclusive, Distinct, Disarmed, Armed

(* A server that has just begun to listen satisfies it.                    *)
LEMMA InitLock == Init => Lock
<1> SUFFICES ASSUME Init PROVE Lock
  OBVIOUS
<1> USE ServerAssumption, NoneAssumption
    DEF Init, Pool!PoolInit, Busy, InFlight
<1>1. TypeOK
  BY DEF TypeOK, AllFds, EventTypes, PCs
<1>2. Labels
  BY DEF Labels, AllFds
<1>3. Distinct /\ Disarmed /\ Fresh /\ Free
  BY DEF Distinct, Disarmed, Fresh, Free, AllFds
<1> QED BY <1>1, <1>2, <1>3 DEF Lock

(* Who may touch the pool's containers, and how.                           *)
LEMMA PoolMoves ==
  ASSUME Next
  PROVE  \/ UNCHANGED <<batch, queue, held>>
         \/ Dispatch
         \/ \E t \in Tasks : Submit(t)
         \/ \E w \in Workers : Take(w)
         \/ \E w \in Workers : Return(w) /\ UNCHANGED batch
<1>1. CASE ClientStep
  BY <1>1 DEF ClientStep, Connect, Request, Rest, Close, Reset, serverVars
<1>2. ASSUME NEW w \in Workers, WorkerStep(w)
      PROVE  \/ UNCHANGED <<batch, queue, held>>
             \/ Take(w)
             \/ Return(w) /\ UNCHANGED batch
  <2>1. CASE \/ Accept(w) \/ AcceptFails(w) \/ SetupFails(w) \/ Attach(w)
             \/ AddConnection(w)
    BY <2>1 DEF Accept, AcceptFails, SetupFails, Attach, AddConnection, Goto
  <2>2. CASE Recv(w) \/ HandleRequest(w) \/ ReadPipe(w) \/ Detach(w) \/ Delete(w)
    BY <2>2 DEF Recv, HandleRequest, ReadPipe, Detach, Delete, Goto
  <2>3. CASE Send(w) \/ SendWouldBlock(w) \/ SendFails(w)
    BY <2>3 DEF Send, SendWouldBlock, SendFails, Goto
  <2>4. CASE Ignore(w) \/ ShortRead(w) \/ RejectRequest(w)
    BY <2>4 DEF Ignore, ShortRead, RejectRequest, Desert
  <2>5. CASE Relisten(w) \/ EventDone(w) \/ CloseFd(w)
    BY <2>5 DEF Relisten, EventDone, CloseFd
  <2> QED BY <1>2, <2>1, <2>2, <2>3, <2>4, <2>5 DEF WorkerStep
<1> QED BY <1>1, <1>2 DEF Next

(* No step makes a second task for a descriptor.                           *)
LEMMA DistinctStep == Lock /\ Next => Distinct'
<1> SUFFICES ASSUME Lock, Next PROVE Distinct'
  OBVIOUS
<1>0. /\ Distinct /\ Disarmed
      /\ batch \subseteq Tasks
      /\ queue \in Seq(Tasks)
      /\ held \in [Workers -> Tasks \cup {None}]
  BY DEF Lock, TypeOK
<1> USE <1>0 DEF Distinct, Busy
<1>1. CASE UNCHANGED <<batch, queue, held>>
  BY <1>1
<1>2. CASE Dispatch
  <2>1. \A t \in batch' : t.fd \in AllFds /\ Armed(t.fd)
    BY <1>2 DEF Dispatch, Ready
  <2>2. \A t \in batch' : ~InFlight(t.fd)
    BY <2>1 DEF Disarmed, Armed
  <2>3. \A t, u \in batch' : t.fd = u.fd => t = u
    BY <1>2 DEF Dispatch
  <2> QED BY <1>2, <2>2, <2>3 DEF Dispatch, InFlight
<1>3. ASSUME NEW t \in Tasks, Submit(t) PROVE Distinct'
  <2>1. t \in batch /\ batch' = batch \ {t} /\ held' = held
    BY <1>3 DEF Submit, Pool!Offer
  <2>2. CASE queue' = queue
    BY <2>1, <2>2
  <2>3. CASE queue' = Append(queue, t)
    <3>1. /\ Len(queue) \in Nat
          /\ Len(queue') = Len(queue) + 1
          /\ \A i \in 1..Len(queue) : queue'[i] = queue[i]
          /\ queue'[Len(queue) + 1] = t
      BY <2>3
    <3>2. \A i \in 1..Len(queue') :
            i = Len(queue) + 1 \/ i \in 1..Len(queue)
      BY <3>1
    <3> QED BY <2>1, <3>1, <3>2
  <2> QED BY <1>3, <2>2, <2>3 DEF Submit, Pool!Offer
<1>4. ASSUME NEW w \in Workers, Take(w) PROVE Distinct'
  <2>1. /\ queue # <<>> /\ batch' = batch
        /\ held' = [held EXCEPT ![w] = queue[1]]
        /\ queue' = Tail(queue)
    BY <1>4 DEF Take, Pool!Begin
  <2>2. /\ Len(queue) \in Nat \ {0}
        /\ Len(queue') = Len(queue) - 1
        /\ \A i \in 1..Len(queue') : queue'[i] = queue[i + 1]
        /\ queue[1] \in Tasks
    BY <2>1
  <2>3. 1 \in 1..Len(queue)
    BY <2>2
  <2>4. \A i \in 1..Len(queue') : i + 1 \in 1..Len(queue) /\ i + 1 # 1
    BY <2>2
  <2>5. \A v \in Workers : held'[v] = IF v = w THEN queue[1] ELSE held[v]
    BY <2>1
  <2>6. \A t \in batch', i \in 1..Len(queue') : t.fd # queue'[i].fd
    BY <2>1, <2>2, <2>4
  <2>7. \A t \in batch', v \in Workers : ~Busy(v, t.fd)'
    BY <2>1, <2>3, <2>5
  <2>8. \A i, k \in 1..Len(queue') : queue'[i].fd = queue'[k].fd => i = k
    BY <2>2, <2>4
  <2>9. ASSUME NEW i \in 1..Len(queue'), NEW v \in Workers
        PROVE  ~Busy(v, queue[i].fd)'
    <3>1. queue'[i] = queue[i + 1] /\ i + 1 \in 1..Len(queue) /\ i + 1 # 1
      BY <2>2, <2>4
    <3> QED BY <2>3, <2>5, <3>1
  <2>10. \A u, v \in Workers, f \in AllFds :
            Busy(u, f)' /\ Busy(v, f)' => u = v
    BY <2>3, <2>5
  <2> QED BY <2>1, <2>2, <2>6, <2>7, <2>8, <2>9, <2>10
<1>5. ASSUME NEW w \in Workers, Return(w), UNCHANGED batch PROVE Distinct'
  BY <1>5 DEF Return, Pool!Finish
<1> QED BY <1>1, <1>2, <1>3, <1>4, <1>5, PoolMoves

(* A handler that returns was the only one to hold its descriptor.         *)
LEMMA ReturnFrees ==
  ASSUME Lock, NEW w \in Workers, Return(w), UNCHANGED batch
  PROVE  /\ held[w] \in Tasks /\ held[w].fd \in AllFds
         /\ InFlight(held[w].fd)
         /\ \A f \in AllFds : InFlight(f)' => InFlight(f) /\ f # held[w].fd
         /\ \A v \in Workers : v # w => held'[v] = held[v] /\ pc'[v] = pc[v]
                                        /\ loc'[v] = loc[v]
         /\ held'[w] = None /\ pc'[w] = "idle" /\ loc'[w] = None
<1>0. /\ Distinct
      /\ batch \subseteq Tasks
      /\ queue \in Seq(Tasks)
      /\ held \in [Workers -> Tasks \cup {None}]
      /\ pc \in [Workers -> PCs]
      /\ loc \in [Workers -> Messages \cup Fds \cup {None}]
  BY DEF Lock, TypeOK
<1>1. /\ held[w] \in Tasks /\ held[w] # None /\ queue' = queue
      /\ held' = [held EXCEPT ![w] = None]
  BY <1>0 DEF Return, Pool!Finish
<1>2. held[w].fd \in AllFds
  BY <1>1 DEF Tasks
<1>3. Busy(w, held[w].fd)
  BY <1>1 DEF Busy
<1>4. ASSUME NEW f \in AllFds, f = held[w].fd PROVE ~InFlight(f)'
  <2>1. SUFFICES /\ \A t \in batch : t.fd # f
                 /\ \A i \in 1..Len(queue) : queue[i].fd # f
                 /\ \A v \in Workers : v # w => ~Busy(v, f)
    BY <1>0, <1>1 DEF InFlight, Busy
  <2> QED BY <1>0, <1>3, <1>4 DEF Distinct
<1>5. \A f \in AllFds : InFlight(f)' => InFlight(f)
  BY <1>0, <1>1 DEF InFlight, Busy
<1> QED BY <1>0, <1>1, <1>2, <1>3, <1>4, <1>5 DEF Return, InFlight

(* Only Dispatch puts new tasks in flight, for descriptors that were armed.*)
LEMMA InFlightStep ==
  ASSUME Lock, Next, NEW f \in AllFds, InFlight(f)'
  PROVE  InFlight(f) \/ (Dispatch /\ f \in Ready)
<1>0. /\ batch \subseteq Tasks
      /\ queue \in Seq(Tasks)
      /\ held \in [Workers -> Tasks \cup {None}]
  BY DEF Lock, TypeOK
<1>1. CASE UNCHANGED <<batch, queue, held>>
  BY <1>1 DEF InFlight, Busy
<1>2. CASE Dispatch
  BY <1>2 DEF Dispatch, InFlight, Busy
<1>3. ASSUME NEW t \in Tasks, Submit(t) PROVE InFlight(f)
  <2>1. t \in batch /\ batch' = batch \ {t} /\ held' = held
    BY <1>3 DEF Submit, Pool!Offer
  <2>2. \A i \in 1..Len(queue') :
          queue'[i] = t \/ (i \in 1..Len(queue) /\ queue'[i] = queue[i])
    BY <1>0, <1>3 DEF Submit, Pool!Offer
  <2> QED BY <2>1, <2>2 DEF InFlight, Busy
<1>4. ASSUME NEW w \in Workers, Take(w) PROVE InFlight(f)
  <2>1. /\ queue # <<>> /\ batch' = batch
        /\ held' = [held EXCEPT ![w] = queue[1]]
        /\ queue' = Tail(queue)
    BY <1>4 DEF Take, Pool!Begin
  <2>2. /\ 1 \in 1..Len(queue)
        /\ \A i \in 1..Len(queue') :
             i + 1 \in 1..Len(queue) /\ queue'[i] = queue[i + 1]
    BY <1>0, <2>1
  <2>3. \A v \in Workers : Busy(v, f)' => Busy(v, f) \/ queue[1].fd = f
    BY <1>0, <2>1 DEF Busy
  <2> QED BY <2>1, <2>2, <2>3 DEF InFlight
<1>5. ASSUME NEW w \in Workers, Return(w), UNCHANGED batch PROVE InFlight(f)
  BY <1>5, ReturnFrees
<1> QED BY <1>1, <1>2, <1>3, <1>4, <1>5, PoolMoves

(* The registrations, the owners and the fresh descriptors together.       *)
LEMMA OwnershipStep == Lock /\ Next => Disarmed' /\ Fresh' /\ Free'
<1> SUFFICES ASSUME Lock, Next PROVE Disarmed' /\ Fresh' /\ Free'
  OBVIOUS
<1>0. /\ Labels /\ Distinct /\ Disarmed /\ Fresh /\ Free
      /\ held \in [Workers -> Tasks \cup {None}]
      /\ pc \in [Workers -> PCs]
      /\ loc \in [Workers -> Messages \cup Fds \cup {None}]
      /\ owner \in [Fds -> Conns \cup {None}]
      /\ interest \in [AllFds -> {"absent", "off", "in", "inout"}]
      /\ backlog \in Seq(Conns)
      /\ \A w \in Workers : pc[w] = "idle" <=> held[w] = None
      /\ ListenFd \notin Fds /\ None \notin Conns
  BY ServerAssumption DEF Lock, TypeOK
<1>a. \A w \in Workers : held[w] # None =>
        held[w].fd \in AllFds /\ InFlight(held[w].fd)
  BY <1>0 DEF Tasks, InFlight, Busy
<1>b. \A v, w \in Workers :
        held[v] # None /\ held[w] # None /\ held[v].fd = held[w].fd => v = w
  BY <1>0, <1>a DEF Distinct, Busy
<1>1. ASSUME UNCHANGED <<batch, queue, held, pc, loc, owner, interest>>
      PROVE  Disarmed' /\ Fresh' /\ Free'
  BY <1>0, <1>1 DEF Disarmed, Fresh, Free, InFlight, Busy
<1>2. ASSUME Dispatch PROVE Disarmed' /\ Fresh' /\ Free'
  <2>1. \A f \in AllFds :
          interest'[f] = IF f \in Ready THEN "off" ELSE interest[f]
    BY <1>2 DEF Dispatch
  <2>2. \A f \in Ready : interest[f] \in {"in", "inout"} /\ f \in AllFds
    BY DEF Ready, Armed
  <2>3. \A f \in AllFds : InFlight(f)' => InFlight(f) \/ f \in Ready
    BY InFlightStep
  <2>4. UNCHANGED <<held, pc, loc, owner>>
    BY <1>2 DEF Dispatch
  <2>5. Fds \subseteq AllFds
    BY DEF AllFds
  <2>6. Disarmed'
    BY <1>0, <1>a, <2>1, <2>2, <2>3, <2>4 DEF Disarmed
  <2>7. Fresh'
    BY <1>0, <2>1, <2>2, <2>3, <2>4, <2>5 DEF Fresh, Labels
  <2>8. Free'
    BY <1>0, <2>1, <2>2, <2>3, <2>4, <2>5 DEF Free
  <2> QED BY <2>6, <2>7, <2>8
<1>c. batch # {} \/ batch' = batch =>
        \A f \in AllFds : InFlight(f)' => InFlight(f)
  <2>1. Dispatch => batch = {} /\ batch' # batch
    BY DEF Dispatch
  <2> QED BY <2>1, InFlightStep
<1>3. ASSUME NEW t \in Tasks, Submit(t) PROVE Disarmed' /\ Fresh' /\ Free'
  <2>1. UNCHANGED <<held, pc, loc, owner, interest>> /\ batch # {}
    BY <1>3 DEF Submit, Pool!Offer
  <2> QED BY <1>0, <1>c, <2>1 DEF Disarmed, Fresh, Free, Labels, AllFds
<1>4. ASSUME NEW w \in Workers, Take(w) PROVE Disarmed' /\ Fresh' /\ Free'
  <2>1. /\ UNCHANGED <<loc, owner, interest, batch>>
        /\ pc' = [pc EXCEPT ![w] = "start"]
        /\ \A v \in Workers : v # w => held'[v] = held[v]
    BY <1>0, <1>4 DEF Take, Pool!Begin
  <2> QED BY <1>0, <1>c, <2>1 DEF Disarmed, Fresh, Free, Labels, AllFds
(* A worker goes on in its handler.                                        *)
<1>5. ASSUME NEW w \in Workers, NEW l,
             UNCHANGED <<batch, queue, held, owner, interest>>,
             pc' = [pc EXCEPT ![w] = l], l \notin {"close", "attach"},
             l = "add" => pc[w] = "attach", l = "add" => loc' = loc,
             \A v \in Workers : v # w => loc'[v] = loc[v]
      PROVE  Disarmed' /\ Fresh' /\ Free'
  <2>1. \A f \in AllFds : InFlight(f)' <=> InFlight(f)
    BY <1>5 DEF InFlight, Busy
  <2>2. Disarmed'
    BY <1>0, <1>5, <2>1 DEF Disarmed
  <2>3. Fresh'
    BY <1>0, <1>5, <2>1 DEF Fresh, Labels, AllFds
  <2>4. Free'
    BY <1>0, <1>5, <2>1 DEF Free, AllFds
  <2> QED BY <2>2, <2>3, <2>4
<1>6. ASSUME NEW w \in Workers,
             \/ AcceptFails(w) \/ SetupFails(w) \/ Attach(w)
             \/ HandleRequest(w) \/ Send(w) \/ SendWouldBlock(w)
             \/ Detach(w) \/ Recv(w) \/ ReadPipe(w)
      PROVE  Disarmed' /\ Fresh' /\ Free'
  <2>1. CASE AcceptFails(w) \/ SetupFails(w)
    BY <2>1, <1>5 DEF AcceptFails, SetupFails, Goto
  <2>2. CASE Attach(w)
    <3>1. /\ UNCHANGED <<batch, queue, held, owner, interest, loc>>
          /\ pc' = [pc EXCEPT ![w] = "add"] /\ pc[w] = "attach"
      BY <2>2 DEF Attach, Goto, At
    <3>2. /\ UNCHANGED <<batch, queue, held, owner, interest>>
          /\ \A v \in Workers : v # w => loc'[v] = loc[v]
          /\ "add" \notin {"close", "attach"}
      BY <3>1
    <3> QED BY <3>1, <3>2, <1>5
  <2>3. CASE HandleRequest(w)
    BY <2>3, <1>5 DEF HandleRequest, Goto
  <2>4. CASE Send(w) \/ SendWouldBlock(w)
    BY <2>4, <1>5 DEF Send, SendWouldBlock, Goto
  <2>5. CASE Detach(w)
    BY <2>5, <1>5 DEF Detach, Goto
  <2>6. CASE Recv(w)
    <3>1. \A v \in Workers : v # w => loc'[v] = loc[v]
      BY <1>0, <2>6 DEF Recv
    <3> QED BY <2>6, <3>1, <1>5 DEF Recv, Goto
  <2>7. CASE ReadPipe(w)
    <3>1. \A v \in Workers : v # w => loc'[v] = loc[v]
      BY <1>0, <2>7 DEF ReadPipe
    <3>2. CASE pipe[held[w].fd] # <<>>
      BY <2>7, <3>1, <3>2, <1>5 DEF ReadPipe, Goto
    <3>3. CASE pipe[held[w].fd] = <<>>
      BY <2>7, <3>3, <1>1 DEF ReadPipe
    <3> QED BY <3>2, <3>3
  <2> QED BY <1>6, <2>1, <2>2, <2>3, <2>4, <2>5, <2>6, <2>7
(* A handler returns and leaves its descriptor as it is.                   *)
<1>7. ASSUME NEW w \in Workers, Ignore(w) \/ ShortRead(w) \/ RejectRequest(w)
      PROVE  Disarmed' /\ Fresh' /\ Free'
  <2>1. Return(w) /\ UNCHANGED <<batch, owner, interest>>
    BY <1>7 DEF Ignore, ShortRead, RejectRequest, Desert
  <2>2. /\ \A f \in AllFds : InFlight(f)' => InFlight(f)
        /\ \A v \in Workers : v # w => held'[v] = held[v] /\ pc'[v] = pc[v]
                                       /\ loc'[v] = loc[v]
        /\ pc'[w] = "idle"
    BY <2>1, ReturnFrees
  <2>3. Disarmed'
    BY <1>0, <2>1, <2>2 DEF Disarmed
  <2>4. Fresh'
    BY <1>0, <2>1, <2>2 DEF Fresh, Labels, AllFds
  <2>5. Free'
    BY <1>0, <2>1, <2>2 DEF Free, AllFds
  <2> QED BY <2>3, <2>4, <2>5
<1>8. ASSUME NEW w \in Workers, Accept(w) PROVE Disarmed' /\ Fresh' /\ Free'
  <2>1. PICK f \in Fds :
          /\ owner[f] = None
          /\ owner' = [owner EXCEPT ![f] = Head(backlog)]
          /\ loc' = [loc EXCEPT ![w] = f]
    BY <1>8 DEF Accept
  <2>2. /\ UNCHANGED <<batch, queue, held, interest>>
        /\ pc' = [pc EXCEPT ![w] = "attach"]
        /\ Head(backlog) \in Conns
        /\ held[w] # None /\ held[w].fd = ListenFd
    BY <1>0, <1>8 DEF Accept, Goto, Event, At
  <2>3. \A g \in AllFds : InFlight(g)' <=> InFlight(g)
    BY <2>2 DEF InFlight, Busy
  <2>4. interest[f] = "absent" /\ ~InFlight(f)
    BY <1>0, <2>1 DEF Free
  <2>5. \A v \in Workers : pc[v] \in {"attach", "add"} => v = w
    BY <1>0, <1>b, <2>2 DEF Labels
  <2>6. Disarmed'
    BY <1>0, <2>2, <2>3 DEF Disarmed
  <2>7. Fresh'
    BY <1>0, <2>1, <2>2, <2>3, <2>4, <2>5 DEF Fresh, AllFds
  <2>8. Free'
    BY <1>0, <2>1, <2>2, <2>3 DEF Free, AllFds
  <2> QED BY <2>6, <2>7, <2>8
<1>9. ASSUME NEW w \in Workers, AddConnection(w)
      PROVE  Disarmed' /\ Fresh' /\ Free'
  <2>1. /\ UNCHANGED <<batch, queue, held, owner, loc>>
        /\ pc' = [pc EXCEPT ![w] = "relisten"]
        /\ interest' = [interest EXCEPT ![loc[w]] = "in"]
        /\ pc[w] = "add" /\ held[w].fd = ListenFd /\ held[w] # None
        /\ loc[w] \in Fds /\ owner[loc[w]] # None /\ ~InFlight(loc[w])
    BY <1>0, <1>9 DEF AddConnection, Goto, At, Labels, Fresh
  <2>2. \A g \in AllFds : InFlight(g)' <=> InFlight(g)
    BY <2>1 DEF InFlight, Busy
  <2>3. \A v \in Workers : pc[v] \in {"attach", "add"} => v = w
    BY <1>0, <1>b, <2>1 DEF Labels
  <2>4. Disarmed'
    BY <1>0, <1>a, <2>1, <2>2 DEF Disarmed
  <2>5. Fresh'
    BY <1>0, <2>1, <2>3 DEF Fresh
  <2>6. Free'
    BY <1>0, <2>1, <2>2 DEF Free, AllFds
  <2> QED BY <2>4, <2>5, <2>6
(* A handler re-arms its descriptor and returns.                           *)
<1>10. ASSUME NEW w \in Workers, Relisten(w) \/ EventDone(w)
       PROVE  Disarmed' /\ Fresh' /\ Free'
  <2> DEFINE g == held[w].fd
  <2>1. /\ Return(w) /\ UNCHANGED <<batch, owner>>
        /\ \A f \in AllFds : f # g => interest'[f] = interest[f]
        /\ interest'[g] \in {"in", "inout"}
    BY <1>0, <1>10 DEF Relisten, EventDone, At, Labels, AllFds
  <2>2. /\ held[w] # None /\ g \in AllFds /\ InFlight(g)
        /\ \A f \in AllFds : InFlight(f)' => InFlight(f) /\ f # g
        /\ \A v \in Workers : v # w => held'[v] = held[v] /\ pc'[v] = pc[v]
                                       /\ loc'[v] = loc[v]
        /\ pc'[w] = "idle"
    BY <1>0, <2>1, ReturnFrees DEF Return, Pool!Finish
  <2>3. Disarmed'
    BY <1>0, <1>a, <1>b, <2>1, <2>2 DEF Disarmed
  <2>4. Fresh'
    BY <1>0, <2>1, <2>2 DEF Fresh, Labels, AllFds
  <2>5. Free'
    BY <1>0, <2>1, <2>2 DEF Free, AllFds
  <2> QED BY <2>3, <2>4, <2>5
<1>11. ASSUME NEW w \in Workers, Delete(w) PROVE Disarmed' /\ Fresh' /\ Free'
  <2>1. /\ UNCHANGED <<batch, queue, held, owner, loc>>
        /\ pc' = [pc EXCEPT ![w] = "close"]
        /\ interest' = [interest EXCEPT ![held[w].fd] = "absent"]
        /\ pc[w] = "delete" /\ held[w] # None
    BY <1>0, <1>11 DEF Delete, Goto, At
  <2>2. \A g \in AllFds : InFlight(g)' <=> InFlight(g)
    BY <2>1 DEF InFlight, Busy
  <2>3. Disarmed'
    BY <1>0, <1>a, <2>1, <2>2 DEF Disarmed
  <2>4. Fresh'
    BY <1>0, <1>a, <2>1, <2>2 DEF Fresh, Labels, AllFds
  <2>5. Free'
    BY <1>0, <1>a, <2>1, <2>2 DEF Free, AllFds
  <2> QED BY <2>3, <2>4, <2>5
<1>12. ASSUME NEW w \in Workers, CloseFd(w) PROVE Disarmed' /\ Fresh' /\ Free'
  <2> DEFINE g == held[w].fd
  <2>1. /\ Return(w) /\ UNCHANGED <<batch, interest>>
        /\ owner' = [owner EXCEPT ![g] = None]
        /\ interest[g] = "absent"
    BY <1>0, <1>12 DEF CloseFd, At, Disarmed
  <2>2. /\ held[w] # None /\ g \in AllFds /\ InFlight(g)
        /\ \A f \in AllFds : InFlight(f)' => InFlight(f) /\ f # g
        /\ \A v \in Workers : v # w => held'[v] = held[v] /\ pc'[v] = pc[v]
                                       /\ loc'[v] = loc[v]
        /\ pc'[w] = "idle"
    BY <1>0, <2>1, ReturnFrees DEF Return, Pool!Finish
  <2>3. Disarmed'
    BY <1>0, <2>1, <2>2 DEF Disarmed
  <2>4. Fresh'
    BY <1>0, <2>1, <2>2 DEF Fresh, Labels, AllFds
  <2>5. Free'
    BY <1>0, <2>1, <2>2 DEF Free, AllFds
  <2> QED BY <2>3, <2>4, <2>5
<1>13. CASE ClientStep
  BY <1>1, <1>13 DEF ClientStep, Connect, Request, Rest, Close, Reset, serverVars
<1>14. ASSUME NEW w \in Workers, SendFails(w) PROVE Disarmed' /\ Fresh' /\ Free'
  BY <1>1, <1>14 DEF SendFails
<1> QED
  BY <1>2, <1>3, <1>4, <1>6, <1>7, <1>8, <1>9, <1>10, <1>11, <1>12, <1>13,
     <1>14 DEF Next, WorkerStep

(* Types and labels.                                                       *)
(* A task other than the listening socket's has a connection behind it.    *)
LEMMA OwnerOfTask ==
  ASSUME Lock, NEW w \in Workers, held[w] # None, held[w].fd # ListenFd
  PROVE  held[w].fd \in Fds /\ owner[held[w].fd] \in Conns
<1>1. held[w].fd \in Fds
  BY DEF Lock, TypeOK, Tasks, AllFds
<1>2. InFlight(held[w].fd)
  BY DEF InFlight, Busy
<1> QED BY <1>1, <1>2 DEF Lock, TypeOK, Free

(* Every handler keeps to its own kind of descriptor and local variable.   *)
LEMMA LabelsStep == Lock /\ Next => Labels'
<1> SUFFICES ASSUME Lock, Next PROVE Labels'
  OBVIOUS
<1>0. /\ Labels /\ Fresh /\ Free /\ Disarmed
      /\ held \in [Workers -> Tasks \cup {None}]
      /\ pc \in [Workers -> PCs]
      /\ loc \in [Workers -> Messages \cup Fds \cup {None}]
      /\ handlers \in [AllFds -> SUBSET EventTypes]
      /\ pipe \in [Fds -> Seq(Messages)]
      /\ stream \in [Conns -> Seq(Messages)]
      /\ owner \in [Fds -> Conns \cup {None}]
      /\ \A w \in Workers : pc[w] = "idle" <=> held[w] = None
      /\ ListenFd \notin Fds
  BY ServerAssumption DEF Lock, TypeOK
<1>a. ListenFd \in AllFds
  BY DEF AllFds
<1>1. ASSUME UNCHANGED <<held, pc, loc, handlers>> PROVE Labels'
  BY <1>0, <1>1 DEF Labels
<1>2. ASSUME NEW w \in Workers, Take(w) PROVE Labels'
  <2>1. /\ UNCHANGED <<loc, handlers>>
        /\ pc' = [pc EXCEPT ![w] = "start"]
        /\ \A v \in Workers : v # w => held'[v] = held[v]
    BY <1>0, <1>2 DEF Take, Pool!Begin
  <2> QED BY <1>0, <2>1 DEF Labels
<1>3. ASSUME NEW w \in Workers, Return(w), UNCHANGED handlers PROVE Labels'
  <2>1. /\ pc' = [pc EXCEPT ![w] = "idle"]
        /\ \A v \in Workers : v # w => held'[v] = held[v] /\ loc'[v] = loc[v]
    BY <1>0, <1>3 DEF Return, Pool!Finish
  <2> QED BY <1>0, <1>3, <2>1 DEF Labels
(* A worker goes on in its handler.                                        *)
<1>4. ASSUME NEW w \in Workers, NEW l, UNCHANGED held,
             pc' = [pc EXCEPT ![w] = l],
             handlers'[ListenFd] = {"READ"},
             \A v \in Workers : v # w => loc'[v] = loc[v],
             l \in {"attach", "add", "relisten"} => held[w].fd = ListenFd,
             l \in {"attach", "add"} => loc'[w] \in Fds,
             l \in {"handle", "send", "done", "delete", "close"}
               => held[w].fd \in Fds,
             l \in {"handle", "send"} => loc'[w] \in Messages
      PROVE  Labels'
  BY <1>0, <1>4 DEF Labels
<1>5. ASSUME NEW w \in Workers, Accept(w) PROVE Labels'
  <2>1. PICK f \in Fds : loc' = [loc EXCEPT ![w] = f]
    BY <1>5 DEF Accept
  <2> QED BY <1>0, <1>4, <1>5, <2>1 DEF Accept, Goto, Labels
<1>6. ASSUME NEW w \in Workers, AcceptFails(w) \/ SetupFails(w) PROVE Labels'
  BY <1>0, <1>4, <1>6 DEF AcceptFails, SetupFails, Goto, Labels
<1>7. ASSUME NEW w \in Workers, Attach(w) PROVE Labels'
  <2>1. pc[w] = "attach" /\ loc[w] \in Fds /\ held[w].fd = ListenFd
    BY <1>0, <1>7 DEF Attach, At, Labels
  <2>2. handlers'[ListenFd] = {"READ"}
    BY <1>0, <1>7, <1>a, <2>1 DEF Attach, Labels
  <2> QED BY <1>4, <1>7, <2>1, <2>2 DEF Attach, Goto
<1>8. ASSUME NEW w \in Workers, AddConnection(w) PROVE Labels'
  <2>1. held[w].fd = ListenFd
    BY <1>0, <1>8 DEF AddConnection, At, Labels
  <2> QED BY <1>0, <1>4, <1>8, <2>1 DEF AddConnection, Goto, Labels
<1>9. ASSUME NEW w \in Workers, Recv(w) PROVE Labels'
  <2>1. held[w].fd \in Fds /\ owner[held[w].fd] \in Conns
    BY <1>0, <1>9, OwnerOfTask DEF Recv, Event, At
  <2>2. loc'[w] \in Messages
    BY <1>0, <1>9, <2>1 DEF Recv
  <2>3. \A v \in Workers : v # w => loc'[v] = loc[v]
    BY <1>0, <1>9 DEF Recv
  <2> QED BY <1>0, <1>4, <1>9, <2>1, <2>2, <2>3 DEF Recv, Goto, Labels
<1>10. ASSUME NEW w \in Workers, HandleRequest(w) PROVE Labels'
  <2>1. held[w].fd \in Fds
    BY <1>0, <1>10 DEF HandleRequest, At, Labels
  <2> QED BY <1>0, <1>4, <1>10, <2>1 DEF HandleRequest, Goto, Labels
<1>11. ASSUME NEW w \in Workers, ReadPipe(w) PROVE Labels'
  <2>1. held[w].fd \in Fds
    BY <1>0, <1>11, OwnerOfTask DEF ReadPipe, Event, At, Labels
  <2>2. CASE pipe[held[w].fd] # <<>>
    <3>1. loc'[w] \in Messages /\ \A v \in Workers : v # w => loc'[v] = loc[v]
      BY <1>0, <1>11, <2>1, <2>2 DEF ReadPipe
    <3> QED BY <1>0, <1>4, <1>11, <2>1, <2>2, <3>1 DEF ReadPipe, Goto, Labels
  <2>3. CASE pipe[held[w].fd] = <<>>
    BY <1>1, <1>11, <2>3 DEF ReadPipe
  <2> QED BY <2>2, <2>3
<1>12. ASSUME NEW w \in Workers, Send(w) \/ SendWouldBlock(w) PROVE Labels'
  <2>1. held[w].fd \in Fds
    BY <1>0, <1>12 DEF Send, SendWouldBlock, At, Labels
  <2> QED BY <1>0, <1>4, <1>12, <2>1 DEF Send, SendWouldBlock, Goto, Labels
<1>13. ASSUME NEW w \in Workers, Detach(w) PROVE Labels'
  <2>1. held[w].fd \in Fds
    BY <1>0, <1>13, OwnerOfTask DEF Detach, Event, At, Labels
  <2>2. handlers'[ListenFd] = {"READ"}
    BY <1>0, <1>13, <1>a, <2>1 DEF Detach, Labels
  <2> QED BY <1>4, <1>13, <2>1, <2>2 DEF Detach, Goto
<1>14. ASSUME NEW w \in Workers, Delete(w) PROVE Labels'
  <2>1. held[w].fd \in Fds
    BY <1>0, <1>14 DEF Delete, At, Labels
  <2> QED BY <1>0, <1>4, <1>14, <2>1 DEF Delete, Goto, Labels
<1>15. ASSUME NEW w \in Workers,
              \/ Ignore(w) \/ Relisten(w) \/ ShortRead(w) \/ RejectRequest(w)
              \/ EventDone(w) \/ CloseFd(w)
       PROVE  Labels'
  BY <1>3, <1>15
  DEF Ignore, Relisten, ShortRead, RejectRequest, EventDone, CloseFd, Desert
<1>16. CASE ClientStep \/ Dispatch \/ \E t \in Tasks : Submit(t)
  <2>1. CASE ClientStep
    <3>1. UNCHANGED serverVars
      BY <2>1 DEF ClientStep, Connect, Request, Rest, Close, Reset
    <3> QED BY <1>1, <3>1 DEF serverVars
  <2>2. CASE Dispatch
    BY <1>1, <2>2 DEF Dispatch
  <2>3. ASSUME NEW t \in Tasks, Submit(t) PROVE Labels'
    BY <1>1, <2>3 DEF Submit, Pool!Offer
  <2> QED BY <1>16, <2>1, <2>2, <2>3
<1>17. ASSUME NEW w \in Workers, SendFails(w) PROVE Labels'
  BY <1>1, <1>17 DEF SendFails
<1> QED
  BY <1>2, <1>5, <1>6, <1>7, <1>8, <1>9, <1>10, <1>11, <1>12, <1>13, <1>14,
     <1>15, <1>16, <1>17 DEF Next, WorkerStep

(* Every step keeps the types.                                             *)
LEMMA TypeStep == Lock /\ Next => TypeOK'
<1> SUFFICES ASSUME Lock, Next PROVE TypeOK'
  OBVIOUS
<1>0. /\ TypeOK /\ Labels
      /\ None \notin Tasks /\ ListenFd \notin Fds
  BY ServerAssumption, NoneAssumption DEF Lock
<1>a. /\ ListenFd \in AllFds /\ Fds \subseteq AllFds
      /\ "idle" \in PCs /\ "start" \in PCs /\ "attach" \in PCs
      /\ "add" \in PCs /\ "relisten" \in PCs /\ "handle" \in PCs
      /\ "send" \in PCs /\ "done" \in PCs /\ "delete" \in PCs
      /\ "close" \in PCs
  BY DEF AllFds, PCs
<1> USE <1>0, <1>a
(* Moves of the pool keep "idle" and "holds nothing" together.             *)
<1>1. ASSUME NEW w \in Workers, NEW l \in PCs \ {"idle"}, Goto(w, l),
             pc[w] # "idle"
      PROVE  /\ queue' \in Seq(Tasks)
             /\ held' \in [Workers -> Tasks \cup {None}]
             /\ pc' \in [Workers -> PCs]
             /\ \A v \in Workers : pc'[v] = "idle" <=> held'[v] = None
  BY <1>1 DEF TypeOK, Goto
<1>2. ASSUME NEW w \in Workers, Return(w)
      PROVE  /\ queue' \in Seq(Tasks)
             /\ held' \in [Workers -> Tasks \cup {None}]
             /\ pc' \in [Workers -> PCs]
             /\ loc' \in [Workers -> Messages \cup Fds \cup {None}]
             /\ \A v \in Workers : pc'[v] = "idle" <=> held'[v] = None
  BY <1>2 DEF TypeOK, Return, Pool!Finish
<1>3. CASE ClientStep
  <2>1. ASSUME NEW c \in Conns, Connect(c) PROVE TypeOK'
    BY <2>1 DEF TypeOK, Connect, serverVars
  <2>2. ASSUME NEW c \in Conns, NEW k \in Kinds, NEW part \in BOOLEAN,
               Request(c, k, part)
        PROVE TypeOK'
    <3> DEFINE m == [conn |-> c, seq |-> Len(sent[c]) + 1, kind |-> k]
    <3>1. sent[c] \in Seq(Kinds) /\ Len(sent[c]) \in Nat
      BY DEF TypeOK
    <3>2. m \in Messages
      BY <2>2, <3>1, ServerAssumption DEF Messages, Request
    <3>3. Append(stream[c], m) \in Seq(Messages)
      BY <3>2 DEF TypeOK
    <3>4. Append(sent[c], k) \in Seq(Kinds)
      BY <3>1
    <3> HIDE DEF m
    <3>5. /\ sent' \in [Conns -> Seq(Kinds)]
          /\ stream' \in [Conns -> Seq(Messages)]
          /\ cut' \in [Conns -> BOOLEAN]
      BY <2>2, <3>3, <3>4 DEF TypeOK, Request, m
    <3> QED BY <2>2, <3>5 DEF TypeOK, Request, serverVars
  <2>3. ASSUME NEW c \in Conns, Rest(c) \/ Close(c) \/ Reset(c) PROVE TypeOK'
    BY <2>3 DEF TypeOK, Rest, Close, Reset, serverVars
  <2> QED BY <1>3, <2>1, <2>2, <2>3 DEF ClientStep
<1>4. CASE Dispatch
  <2>1. \A f \in Ready : f \in AllFds /\ EventOf(f) \in EventTypes \cup {"NONE"}
    BY DEF Ready, EventOf, EventTypes
  <2>2. batch' \subseteq Tasks
    BY <1>4, <2>1 DEF Dispatch, Tasks
  <2>3. interest' \in [AllFds -> {"absent", "off", "in", "inout"}]
    BY <1>4 DEF TypeOK, Dispatch
  <2> QED BY <1>4, <2>2, <2>3 DEF TypeOK, Dispatch, clientVars
<1>5. ASSUME NEW t \in Tasks, Submit(t) PROVE TypeOK'
  <2>1. t.fd \in AllFds
    BY DEF Tasks
  <2>2. queue' \in Seq(Tasks) /\ held' = held
    BY <1>5 DEF TypeOK, Submit, Pool!Offer
  <2> QED BY <1>5, <2>1, <2>2 DEF TypeOK, Submit, clientVars
<1>6. ASSUME NEW w \in Workers, Take(w) PROVE TypeOK'
  <2>1. /\ queue' \in Seq(Tasks)
        /\ held' \in [Workers -> Tasks \cup {None}]
        /\ pc' \in [Workers -> PCs]
        /\ \A v \in Workers : pc'[v] = "idle" <=> held'[v] = None
    BY <1>6 DEF TypeOK, Take, Pool!Begin
  <2> QED BY <1>6, <2>1 DEF TypeOK, Take, clientVars
<1>b. ASSUME NEW w \in Workers, pc[w] # "idle"
      PROVE  held[w] \in Tasks /\ held[w].fd \in AllFds
  BY <1>b DEF TypeOK, Tasks
<1>7. ASSUME NEW w \in Workers, Ignore(w) \/ RejectRequest(w) PROVE TypeOK'
  <2>1. held[w].fd \in AllFds
    BY <1>7, <1>b DEF Ignore, RejectRequest, At
  <2>2. Return(w) /\ deaf' = deaf \cup {held[w].fd}
    BY <1>7 DEF Ignore, RejectRequest, Desert
  <2>3. UNCHANGED <<clientVars, owner, interest, handlers, batch, pipe, alive>>
    BY <1>7 DEF Ignore, RejectRequest
  <2> QED BY <1>2, <2>1, <2>2, <2>3 DEF TypeOK, clientVars
<1>8. ASSUME NEW w \in Workers, Accept(w) PROVE TypeOK'
  <2>1. /\ Head(backlog) \in Conns /\ Tail(backlog) \in Seq(Conns)
        /\ pc[w] # "idle"
    BY <1>8 DEF TypeOK, Accept, Event, At
  <2>2. /\ owner' \in [Fds -> Conns \cup {None}]
        /\ loc' \in [Workers -> Messages \cup Fds \cup {None}]
    BY <1>8, <2>1 DEF TypeOK, Accept
  <2> QED BY <1>1, <1>8, <2>1, <2>2 DEF TypeOK, Accept
<1>9. ASSUME NEW w \in Workers, AcceptFails(w) PROVE TypeOK'
  <2>1. pc[w] # "idle"
    BY <1>9 DEF AcceptFails, Event, At
  <2> QED BY <1>1, <1>9, <2>1 DEF TypeOK, AcceptFails, clientVars
<1>19. ASSUME NEW w \in Workers, SetupFails(w) PROVE TypeOK'
  <2>1. pc[w] # "idle" /\ Tail(backlog) \in Seq(Conns)
    BY <1>19 DEF TypeOK, SetupFails, Event, At
  <2>2. peer' \in [Conns -> {"new", "open", "closed", "reset"}]
    BY <1>19 DEF TypeOK, SetupFails
  <2> QED BY <1>1, <1>19, <2>1, <2>2 DEF TypeOK, SetupFails
<1>10. ASSUME NEW w \in Workers, Attach(w) \/ Detach(w) PROVE TypeOK'
  <2>1. pc[w] # "idle"
    BY <1>10 DEF Attach, Detach, Event, At
  <2>2. handlers' \in [AllFds -> SUBSET EventTypes]
    BY <1>10 DEF TypeOK, Attach, Detach
  <2> QED BY <1>1, <1>10, <2>1, <2>2 DEF TypeOK, Attach, Detach, clientVars
<1>11. ASSUME NEW w \in Workers, AddConnection(w) \/ Delete(w) PROVE TypeOK'
  <2>1. pc[w] # "idle"
    BY <1>11 DEF AddConnection, Delete, At
  <2>2. interest' \in [AllFds -> {"absent", "off", "in", "inout"}]
    BY <1>11 DEF TypeOK, AddConnection, Delete
  <2> QED BY <1>1, <1>11, <2>1, <2>2 DEF TypeOK, AddConnection, Delete, clientVars
<1>12. ASSUME NEW w \in Workers, Relisten(w) \/ EventDone(w) PROVE TypeOK'
  <2>1. interest' \in [AllFds -> {"absent", "off", "in", "inout"}]
    BY <1>12 DEF TypeOK, Relisten, EventDone
  <2>2. Return(w) /\ UNCHANGED <<clientVars, owner, handlers, batch, pipe, deaf, alive>>
    BY <1>12 DEF Relisten, EventDone
  <2> QED BY <1>2, <2>1, <2>2 DEF TypeOK, clientVars
<1>13. ASSUME NEW w \in Workers, Recv(w) \/ ShortRead(w) PROVE TypeOK'
  <2> DEFINE c == owner[held[w].fd]
  <2>1. pc[w] # "idle" /\ held[w] # None /\ held[w].fd # ListenFd
    BY <1>13 DEF Recv, ShortRead, Event, At, TypeOK
  <2>2. c \in Conns /\ held[w].fd \in AllFds
    BY <2>1, OwnerOfTask
  <2>3. CASE Recv(w)
    <3>1. /\ Head(stream[c]) \in Messages
          /\ Tail(stream[c]) \in Seq(Messages)
      BY <2>2, <2>3 DEF TypeOK, Recv
    <3>2. /\ stream' \in [Conns -> Seq(Messages)]
          /\ loc' \in [Workers -> Messages \cup Fds \cup {None}]
      BY <2>3, <3>1 DEF TypeOK, Recv
    <3> QED BY <1>1, <2>1, <2>3, <3>2 DEF TypeOK, Recv
  <2>4. CASE ShortRead(w)
    <3>a. /\ stream' = [stream EXCEPT ![c] = <<>>]
          /\ cut' = [cut EXCEPT ![c] = FALSE]
          /\ torn' = IF cut[c] THEN torn \cup {c} ELSE torn
      BY <2>4 DEF ShortRead
    <3>b. alive' = ~(stream[c] = <<>> /\ peer[c] = "reset")
      BY <2>4, Zenon DEF ShortRead
    <3>c. <<>> \in Seq(Messages)
      OBVIOUS
    <3>d. stream' \in [Conns -> Seq(Messages)] /\ cut' \in [Conns -> BOOLEAN]
      BY <3>a, <3>c DEF TypeOK
    <3>1. /\ stream' \in [Conns -> Seq(Messages)]
          /\ cut' \in [Conns -> BOOLEAN]
          /\ alive' \in BOOLEAN
          /\ torn' \subseteq Conns
      <4>1. torn' \subseteq Conns
        BY <2>2, <3>a DEF TypeOK
      <4> QED BY <3>b, <3>d, <4>1, Zenon
    <3> QED BY <1>2, <2>2, <2>4, <3>1 DEF TypeOK, ShortRead, Desert
  <2> QED BY <1>13, <2>3, <2>4
<1>14. ASSUME NEW w \in Workers, HandleRequest(w) PROVE TypeOK'
  <2>1. pc[w] = "handle" /\ loc[w] \in Messages
    BY <1>14 DEF HandleRequest, At, Labels
  <2>a. held[w].fd \in Fds
    BY <2>1 DEF Labels
  <2>b. Append(pipe[held[w].fd], loc[w]) \in Seq(Messages)
    BY <2>1, <2>a DEF TypeOK
  <2>2. pipe' \in [Fds -> Seq(Messages)]
    BY <1>14, <2>b DEF TypeOK, HandleRequest
  <2> QED BY <1>1, <1>14, <2>1, <2>2 DEF TypeOK, HandleRequest, clientVars
<1>15. ASSUME NEW w \in Workers, ReadPipe(w) PROVE TypeOK'
  <2>1. pc[w] # "idle" /\ held[w].fd \in Fds
    BY <1>15, OwnerOfTask DEF ReadPipe, Event, At, TypeOK, Labels
  <2>2. CASE pipe[held[w].fd] # <<>>
    <3>1. /\ Head(pipe[held[w].fd]) \in Messages
          /\ Tail(pipe[held[w].fd]) \in Seq(Messages)
      BY <2>1, <2>2 DEF TypeOK
    <3>2. /\ pipe' \in [Fds -> Seq(Messages)]
          /\ loc' \in [Workers -> Messages \cup Fds \cup {None}]
      <4>1. /\ loc' = [loc EXCEPT ![w] = Head(pipe[held[w].fd])]
            /\ pipe' = [pipe EXCEPT ![held[w].fd] = Tail(@)]
        BY <1>15, <2>2 DEF ReadPipe
      <4>2. pipe' \in [Fds -> Seq(Messages)]
        BY <3>1, <4>1 DEF TypeOK
      <4> QED BY <3>1, <4>1, <4>2 DEF TypeOK
    <3>3. Goto(w, "send")
      BY <1>15, <2>2 DEF ReadPipe
    <3>4. /\ queue' \in Seq(Tasks)
          /\ held' \in [Workers -> Tasks \cup {None}]
          /\ pc' \in [Workers -> PCs]
          /\ \A v \in Workers : pc'[v] = "idle" <=> held'[v] = None
      BY <1>1, <2>1, <3>3
    <3>5. UNCHANGED <<clientVars, owner, interest, handlers, batch, deaf>>
      BY <1>15 DEF ReadPipe
    <3>6. alive' = TRUE
      BY <1>15, <2>2 DEF ReadPipe
    <3> QED BY <3>2, <3>4, <3>5, <3>6 DEF TypeOK, clientVars
  <2>3. CASE pipe[held[w].fd] = <<>>
    BY <1>15, <2>3 DEF TypeOK, ReadPipe, clientVars
  <2> QED BY <2>2, <2>3
<1>16. ASSUME NEW w \in Workers, Send(w) \/ SendWouldBlock(w) PROVE TypeOK'
  <2>1. pc[w] = "send" /\ loc[w] \in Messages
    BY <1>16 DEF Send, SendWouldBlock, At, Labels
  <2>a. \A c \in Conns : Append(got[c], loc[w]) \in Seq(Messages)
    BY <2>1 DEF TypeOK
  <2>b. \/ got' = got
        \/ \E c \in Conns : got' = [got EXCEPT ![c] = Append(got[c], loc[w])]
    <3>1. held[w] # None /\ held[w].fd # ListenFd
      BY <2>1 DEF Labels, TypeOK
    <3>2. owner[held[w].fd] \in Conns
      BY <3>1, OwnerOfTask
    <3> QED BY <1>16, <3>2 DEF Send, SendWouldBlock, clientVars
  <2>2. got' \in [Conns -> Seq(Messages)]
    <3>1. got \in [Conns -> Seq(Messages)]
      BY DEF TypeOK
    <3>2. ASSUME NEW c \in Conns, got' = [got EXCEPT ![c] = Append(got[c], loc[w])]
          PROVE  got' \in [Conns -> Seq(Messages)]
      BY <2>a, <3>1, <3>2
    <3> QED BY <2>b, <3>1, <3>2
  <2> QED BY <1>1, <1>16, <2>1, <2>2 DEF TypeOK, Send, SendWouldBlock, clientVars
<1>17. ASSUME NEW w \in Workers, SendFails(w) PROVE TypeOK'
  BY <1>17 DEF TypeOK, SendFails, clientVars
<1>18. ASSUME NEW w \in Workers, CloseFd(w) PROVE TypeOK'
  <2>1. owner' \in [Fds -> Conns \cup {None}]
    BY <1>18 DEF TypeOK, CloseFd
  <2> QED BY <1>2, <1>18, <2>1 DEF TypeOK, CloseFd, clientVars
<1> QED
  BY <1>3, <1>4, <1>5, <1>6, <1>7, <1>8, <1>9, <1>10, <1>11, <1>12, <1>13,
     <1>14, <1>15, <1>16, <1>17, <1>18, <1>19 DEF Next, WorkerStep

(* The invariant is inductive.                                             *)
LEMMA LockStep == Lock /\ [Next]_vars => Lock'
<1>1. Lock /\ Next => Lock'
  BY TypeStep, LabelsStep, DistinctStep, OwnershipStep DEF Lock
<1>2. Lock /\ UNCHANGED vars => Lock'
  BY DEF Lock, TypeOK, Labels, Distinct, Disarmed, Fresh, Free, InFlight, Busy,
         vars, clientVars, serverVars
<1> QED BY <1>1, <1>2

-----------------------------------------------------------------------------
(* The lock: theorems.                                                     *)

(* The server's state is well formed in every reachable state.             *)
THEOREM ServerTyped == Spec => []TypeOK
<1>1. Lock => TypeOK
  BY DEF Lock
<1> QED BY <1>1, InitLock, LockStep, PTL DEF Spec

(* EPOLLONESHOT is a lock on every descriptor (Poller::Dispatch, the       *)
(* handlers' final ModEvent, HandleCloseEvent and accept() on a reused     *)
(* number).                                                                *)
THEOREM OneThreadPerFd == Spec => []FdExclusive
BY InitLock, LockStep, LockImpliesExclusive, PTL DEF Spec

-----------------------------------------------------------------------------
(* What an event is still worth when a worker comes to handle it: between  *)
(* epoll_wait and the handler lie the reactor's vector, the queue and every*)
(* other worker.                                                           *)

-----------------------------------------------------------------------------
(* Events: the inductive invariant.                                        *)

(* An event epoll has reported and no handler has begun with.              *)
Reported(t) ==
  \/ t \in batch
  \/ \E i \in 1..Len(queue) : queue[i] = t
  \/ \E w \in Workers : held[w] = t /\ pc[w] = "start"

(* A worker is between DelEvent and close(f).                              *)
Closing(f) == \E w \in Workers : Busy(w, f) /\ pc[w] \in {"delete", "close"}

(* A descriptor some event of which is or may be handled has its handlers. *)
Attached ==
  /\ \A f \in Fds : Armed(f) \/ (InFlight(f) /\ ~Closing(f))
                      => handlers[f] = EventTypes
  /\ \A w \in Workers : pc[w] = "add" => handlers[loc[w]] = EventTypes

(* No connection is behind two descriptors, and one that waits to be       *)
(* accepted, or has not been opened, is behind none.                       *)
Owners ==
  /\ \A f, g \in Fds : owner[f] = owner[g] /\ owner[f] # None => f = g
  /\ \A i, k \in 1..Len(backlog) : backlog[i] = backlog[k] => i = k
  /\ \A i \in 1..Len(backlog) :
       peer[backlog[i]] # "new" /\ \A f \in Fds : owner[f] # backlog[i]
  /\ \A f \in Fds : owner[f] # None => peer[owner[f]] # "new"

(* What was reported is still there.                                       *)
Pending ==
  /\ \A t \in Tasks : Reported(t) =>
       /\ t.fd = ListenFd => t.type = "READ" /\ backlog # <<>>
       /\ t.fd # ListenFd /\ t.type = "READ" => stream[owner[t.fd]] # <<>>
       /\ t.fd # ListenFd /\ t.type = "WRITE" => pipe[t.fd] # <<>>
  /\ \A f \in Fds : interest[f] = "inout" => pipe[f] # <<>>

(* A descriptor out of the poller's sight has a task on the way that will  *)
(* put it back, or has been given up.                                      *)
NoOrphan ==
  \A f \in AllFds : interest[f] = "off" => InFlight(f) \/ f \in deaf

Events == Lock /\ Attached /\ Owners /\ Pending /\ NoOrphan

-----------------------------------------------------------------------------
(* Which step touches what.                                                *)

(* The clients leave the server's variables alone.                         *)
LEMMA ClientFrame == ClientStep => UNCHANGED serverVars
BY DEF ClientStep, Connect, Request, Rest, Close, Reset

(* The steps that may change each variable an event depends on.            *)
LEMMA Frame ==
  ASSUME Next
  PROVE  /\ \/ UNCHANGED handlers
            \/ \E w \in Workers : Attach(w) \/ Detach(w)
         /\ \/ UNCHANGED pipe
            \/ \E w \in Workers : HandleRequest(w) \/ ReadPipe(w)
         /\ \/ UNCHANGED interest
            \/ Dispatch
            \/ \E w \in Workers : \/ AddConnection(w) \/ Relisten(w)
                                  \/ EventDone(w) \/ Delete(w)
         /\ \/ UNCHANGED owner
            \/ \E w \in Workers : Accept(w) \/ CloseFd(w)
         /\ \/ UNCHANGED backlog
            \/ \E c \in Conns : Connect(c)
            \/ \E w \in Workers : Accept(w) \/ SetupFails(w)
         /\ \/ UNCHANGED stream
            \/ \E c \in Conns, k \in Kinds, part \in BOOLEAN : Request(c, k, part)
            \/ \E w \in Workers : Recv(w) \/ ShortRead(w)
         /\ \/ UNCHANGED peer
            \/ \E c \in Conns : Connect(c) \/ Close(c) \/ Reset(c)
            \/ \E w \in Workers : SetupFails(w)
<1>1. CASE ClientStep
  <2>1. UNCHANGED <<handlers, pipe, interest, owner>>
    BY <1>1, ClientFrame DEF serverVars
  <2> QED BY <1>1, <2>1 DEF ClientStep, Connect, Request, Rest, Close, Reset
<1>2. CASE Dispatch \/ \E t \in Tasks : Submit(t)
  BY <1>2 DEF Dispatch, Submit, clientVars
<1>3. ASSUME NEW w \in Workers, WorkerStep(w)
      PROVE  /\ UNCHANGED peer \/ SetupFails(w)
             /\ UNCHANGED handlers \/ Attach(w) \/ Detach(w)
             /\ UNCHANGED pipe \/ HandleRequest(w) \/ ReadPipe(w)
             /\ \/ UNCHANGED interest \/ AddConnection(w) \/ Relisten(w)
                \/ EventDone(w) \/ Delete(w)
             /\ UNCHANGED owner \/ Accept(w) \/ CloseFd(w)
             /\ UNCHANGED backlog \/ Accept(w) \/ SetupFails(w)
             /\ UNCHANGED stream \/ Recv(w) \/ ShortRead(w)
  <2>1. CASE Take(w) \/ Ignore(w) \/ AcceptFails(w) \/ RejectRequest(w)
    BY <2>1 DEF Take, Ignore, AcceptFails, RejectRequest, clientVars
  <2>2. CASE Accept(w) \/ SetupFails(w) \/ Recv(w) \/ ShortRead(w) \/ Send(w)
    BY <2>2 DEF Accept, SetupFails, Recv, ShortRead, Send
  <2>3. CASE Attach(w) \/ Detach(w) \/ AddConnection(w) \/ Delete(w)
    BY <2>3 DEF Attach, Detach, AddConnection, Delete, clientVars
  <2>4. CASE Relisten(w) \/ EventDone(w) \/ CloseFd(w)
    BY <2>4 DEF Relisten, EventDone, CloseFd, clientVars
  <2>5. CASE HandleRequest(w) \/ ReadPipe(w)
    BY <2>5 DEF HandleRequest, ReadPipe, clientVars
  <2>6. CASE SendWouldBlock(w) \/ SendFails(w)
    BY <2>6 DEF SendWouldBlock, SendFails, clientVars
  <2> QED BY <1>3, <2>1, <2>2, <2>3, <2>4, <2>5, <2>6 DEF WorkerStep
<1> QED BY <1>1, <1>2, <1>3 DEF Next

(* Where a step of a worker's own leads it.                                *)
LEMMA OwnMove ==
  ASSUME Lock, NEW w \in Workers, WorkerStep(w)
  PROVE  \/ Take(w)
         \/ UNCHANGED <<batch, queue, held, pc, loc>>
         \/ Return(w) /\ UNCHANGED batch
         \/ /\ UNCHANGED <<batch, queue, held>>
            /\ \/ pc[w] = "start" /\ pc' = [pc EXCEPT ![w] = "attach"]
               \/ pc[w] = "start" /\ pc' = [pc EXCEPT ![w] = "relisten"]
               \/ pc[w] = "start" /\ pc' = [pc EXCEPT ![w] = "handle"]
               \/ pc[w] = "start" /\ pc' = [pc EXCEPT ![w] = "send"]
               \/ Detach(w) /\ pc[w] = "start" /\ pc' = [pc EXCEPT ![w] = "delete"]
               \/ Attach(w) /\ pc[w] = "attach" /\ pc' = [pc EXCEPT ![w] = "add"]
               \/ pc[w] = "add" /\ pc' = [pc EXCEPT ![w] = "relisten"]
               \/ pc[w] = "handle" /\ pc' = [pc EXCEPT ![w] = "done"]
               \/ pc[w] = "send" /\ pc' = [pc EXCEPT ![w] = "done"]
               \/ pc[w] = "delete" /\ pc' = [pc EXCEPT ![w] = "close"]
            /\ \A v \in Workers : v # w => loc'[v] = loc[v]
<1>0. loc \in [Workers -> Messages \cup Fds \cup {None}]
  BY DEF Lock, TypeOK
<1>1. CASE Take(w)
  BY <1>1
<1>2. CASE Ignore(w) \/ ShortRead(w) \/ RejectRequest(w)
  BY <1>2 DEF Ignore, ShortRead, RejectRequest, Desert
<1>3. CASE Relisten(w) \/ EventDone(w) \/ CloseFd(w)
  BY <1>3 DEF Relisten, EventDone, CloseFd
<1>4. CASE Accept(w)
  <2>1. PICK f \in Fds : loc' = [loc EXCEPT ![w] = f]
    BY <1>4 DEF Accept
  <2> QED BY <1>0, <1>4, <2>1 DEF Accept, Goto, Event, At
<1>5. CASE AcceptFails(w) \/ SetupFails(w)
  BY <1>5 DEF AcceptFails, SetupFails, Goto, Event, At
<1>6. CASE Attach(w)
  BY <1>6 DEF Attach, Goto, At
<1>7. CASE AddConnection(w) \/ HandleRequest(w) \/ Delete(w)
  BY <1>7 DEF AddConnection, HandleRequest, Delete, Goto, At
<1>8. CASE Recv(w)
  BY <1>0, <1>8 DEF Recv, Goto, Event, At
<1>9. CASE ReadPipe(w)
  <2>1. CASE pipe[held[w].fd] # <<>>
    BY <1>0, <1>9, <2>1 DEF ReadPipe, Goto, Event, At
  <2>2. CASE pipe[held[w].fd] = <<>>
    BY <1>9, <2>2 DEF ReadPipe
  <2> QED BY <2>1, <2>2
<1>10. CASE Send(w) \/ SendWouldBlock(w)
  BY <1>10 DEF Send, SendWouldBlock, Goto, At
<1>11. CASE SendFails(w)
  BY <1>11 DEF SendFails
<1>12. CASE Detach(w)
  BY <1>12 DEF Detach, Goto, Event, At
<1> QED
  BY <1>1, <1>2, <1>3, <1>4, <1>5, <1>6, <1>7, <1>8, <1>9, <1>10, <1>11,
     <1>12 DEF WorkerStep

(* A worker's step leaves the others where they are.                       *)
LEMMA OthersStay ==
  ASSUME Lock, NEW v \in Workers, WorkerStep(v), NEW w \in Workers, w # v
  PROVE  pc'[w] = pc[w] /\ held'[w] = held[w] /\ loc'[w] = loc[w]
<1>0. /\ pc \in [Workers -> PCs]
      /\ held \in [Workers -> Tasks \cup {None}]
      /\ loc \in [Workers -> Messages \cup Fds \cup {None}]
  BY DEF Lock, TypeOK
<1>1. CASE Take(v)
  BY <1>0, <1>1 DEF Take, Pool!Begin
<1>2. CASE Return(v)
  BY <1>0, <1>2 DEF Return, Pool!Finish
<1> QED BY <1>0, <1>1, <1>2, OwnMove

(* How any step moves the labels: a handler begins only with an event its  *)
(* worker has taken, and a worker that closes goes on doing so.            *)
LEMMA LabelMoves ==
  ASSUME Lock, Next, NEW w \in Workers
  PROVE  /\ pc'[w] = "start" =>
              \/ pc[w] = "start" /\ held'[w] = held[w]
              \/ Take(w)
         /\ pc'[w] = "add" => (pc[w] = "add" /\ loc'[w] = loc[w]) \/ Attach(w)
         /\ pc[w] \in {"delete", "close"} =>
              \/ pc'[w] \in {"delete", "close"} /\ held'[w] = held[w]
              \/ Return(w) /\ UNCHANGED batch
<1>0. /\ pc \in [Workers -> PCs]
      /\ held \in [Workers -> Tasks \cup {None}]
      /\ loc \in [Workers -> Messages \cup Fds \cup {None}]
      /\ \A v \in Workers : pc[v] = "idle" <=> held[v] = None
  BY DEF Lock, TypeOK
<1>1. CASE UNCHANGED <<held, pc, loc>>
  BY <1>1
<1>2. CASE ClientStep \/ Dispatch \/ \E t \in Tasks : Submit(t)
  BY <1>1, <1>2, ClientFrame DEF serverVars, Dispatch, Submit, Pool!Offer
<1>3. ASSUME NEW v \in Workers, WorkerStep(v), v # w
      PROVE  pc'[w] = pc[w] /\ held'[w] = held[w] /\ loc'[w] = loc[w]
  BY <1>3, OthersStay
<1>4. CASE WorkerStep(w)
  <2>1. CASE Take(w)
    BY <1>0, <2>1 DEF Take, Pool!Begin
  <2>2. CASE Return(w) /\ UNCHANGED batch
    BY <1>0, <2>2 DEF Return
  <2>3. CASE Attach(w)
    BY <1>0, <2>3 DEF Attach, At, Goto
  <2> QED BY <1>0, <1>1, <1>4, <2>1, <2>2, <2>3, OwnMove
<1> QED BY <1>0, <1>2, <1>3, <1>4 DEF Next

(* Only Dispatch reports an event, and only one that is there.             *)
LEMMA ReportedStep ==
  ASSUME Lock, Next, NEW t \in Tasks, Reported(t)'
  PROVE  \/ Reported(t)
         \/ Dispatch /\ t.fd \in Ready /\ t.type = EventOf(t.fd)
<1>0. /\ queue \in Seq(Tasks)
      /\ held \in [Workers -> Tasks \cup {None}]
      /\ pc \in [Workers -> PCs]
  BY DEF Lock, TypeOK
<1>1. ASSUME NEW w \in Workers, held'[w] = t, pc'[w] = "start"
      PROVE  Reported(t)
  <2>1. CASE pc[w] = "start" /\ held'[w] = held[w]
    BY <1>1, <2>1 DEF Reported
  <2>2. CASE Take(w)
    <3>1. queue # <<>> /\ held' = [held EXCEPT ![w] = Head(queue)]
      BY <2>2 DEF Take, Pool!Begin
    <3>2. 1 \in 1..Len(queue) /\ queue[1] = t
      BY <1>0, <1>1, <3>1
    <3> QED BY <3>2 DEF Reported
  <2> QED BY <1>1, <2>1, <2>2, LabelMoves
<1>2. ASSUME NEW i \in 1..Len(queue'), queue'[i] = t PROVE Reported(t)
  <2>1. CASE queue' = queue
    BY <1>2, <2>1 DEF Reported
  <2>2. ASSUME NEW u \in Tasks, Submit(u) PROVE Reported(t)
    <3>1. queue'[i] = u \/ (i \in 1..Len(queue) /\ queue'[i] = queue[i])
      BY <1>0, <1>2, <2>2 DEF Submit, Pool!Offer
    <3>2. u \in batch
      BY <2>2 DEF Submit
    <3> QED BY <1>2, <3>1, <3>2 DEF Reported
  <2>3. ASSUME NEW w \in Workers, Take(w) PROVE Reported(t)
    <3>1. queue # <<>> /\ queue' = Tail(queue)
      BY <2>3 DEF Take, Pool!Begin
    <3>2. i + 1 \in 1..Len(queue) /\ queue[i + 1] = t
      BY <1>0, <1>2, <3>1
    <3> QED BY <3>2 DEF Reported
  <2>4. ASSUME NEW w \in Workers, Return(w) PROVE queue' = queue
    BY <2>4 DEF Return, Pool!Finish
  <2>5. Dispatch => queue' = queue
    BY DEF Dispatch
  <2> QED BY <2>1, <2>2, <2>3, <2>4, <2>5, PoolMoves
<1>3. ASSUME t \in batch'
      PROVE  \/ Reported(t)
             \/ Dispatch /\ t.fd \in Ready /\ t.type = EventOf(t.fd)
  <2>1. CASE batch' \subseteq batch
    BY <1>3, <2>1 DEF Reported
  <2>2. CASE Dispatch
    BY <1>3, <2>2 DEF Dispatch
  <2>3. ASSUME NEW u \in Tasks, Submit(u) PROVE batch' \subseteq batch
    BY <2>3 DEF Submit
  <2>4. ASSUME NEW w \in Workers, Take(w) PROVE batch' \subseteq batch
    BY <2>4 DEF Take
  <2> QED BY <2>1, <2>2, <2>3, <2>4, PoolMoves
<1> QED BY <1>1, <1>2, <1>3 DEF Reported

(* A reported event's descriptor is in flight, and nobody handles it yet.  *)
LEMMA ReportedAlone ==
  ASSUME Lock, NEW t \in Tasks, Reported(t)
  PROVE  /\ t.fd \in AllFds /\ InFlight(t.fd) /\ ~Armed(t.fd)
         /\ \A w \in Workers : Busy(w, t.fd) => pc[w] = "start" /\ held[w] = t
<1>0. /\ held \in [Workers -> Tasks \cup {None}]
      /\ Distinct /\ Disarmed /\ None \notin Tasks
  BY NoneAssumption DEF Lock, TypeOK
<1>1. t.fd \in AllFds
  BY DEF Tasks
<1>2. InFlight(t.fd)
  BY <1>0 DEF Reported, InFlight, Busy
<1>3. ~Armed(t.fd)
  BY <1>0, <1>1, <1>2 DEF Disarmed, Armed
<1>4. ASSUME NEW w \in Workers, Busy(w, t.fd)
      PROVE  pc[w] = "start" /\ held[w] = t
  <2>1. t \notin batch /\ \A i \in 1..Len(queue) : queue[i] # t
    BY <1>0, <1>4 DEF Distinct
  <2>2. PICK v \in Workers : held[v] = t /\ pc[v] = "start"
    BY <2>1 DEF Reported
  <2>3. Busy(v, t.fd)
    BY <1>0, <2>2 DEF Busy
  <2>4. v = w
    BY <1>0, <1>1, <1>4, <2>3 DEF Distinct
  <2> QED BY <2>2, <2>4
<1> QED BY <1>1, <1>2, <1>3, <1>4

-----------------------------------------------------------------------------
(* Each part of the invariant is inductive.                                *)

(* Handlers are there from before AddEvent until after the last event.     *)
LEMMA AttachedStep == Lock /\ Attached /\ Next => Attached'
<1> SUFFICES ASSUME Lock, Attached, Next PROVE Attached'
  OBVIOUS
<1> DEFINE Live(f) == Armed(f) \/ (InFlight(f) /\ ~Closing(f))
<1>0. /\ held \in [Workers -> Tasks \cup {None}]
      /\ pc \in [Workers -> PCs]
      /\ interest \in [AllFds -> {"absent", "off", "in", "inout"}]
      /\ handlers \in [AllFds -> SUBSET EventTypes]
      /\ Labels /\ Distinct /\ Disarmed /\ Fresh
      /\ \A w \in Workers : pc[w] = "idle" <=> held[w] = None
      /\ Fds \subseteq AllFds /\ ListenFd \in AllFds \ Fds
      /\ \A f \in Fds : Live(f) => handlers[f] = EventTypes
  BY ServerAssumption DEF Lock, TypeOK, AllFds, Attached
<1>a. ASSUME NEW w \in Workers, pc[w] # "idle"
      PROVE  held[w].fd \in AllFds /\ Busy(w, held[w].fd) /\ InFlight(held[w].fd)
  BY <1>0, <1>a DEF Tasks, Busy, InFlight
<1>b. ASSUME NEW v \in Workers, NEW w \in Workers, pc[v] # "idle", pc[w] # "idle",
             held[v].fd = held[w].fd
      PROVE  v = w
  BY <1>0, <1>a, <1>b DEF Distinct
(* A descriptor comes into use by AddEvent only.                           *)
<1>1. ASSUME NEW f \in Fds, Live(f)'
      PROVE  Live(f) \/ \E w \in Workers : AddConnection(w) /\ loc[w] = f
  <2>1. CASE InFlight(f)' /\ ~Closing(f)'
    <3>1. CASE Dispatch /\ f \in Ready
      BY <3>1 DEF Ready
    <3>2. CASE InFlight(f)
      <4>1. ASSUME NEW w \in Workers, Busy(w, f), pc[w] \in {"delete", "close"}
            PROVE  FALSE
        <5>1. CASE pc'[w] \in {"delete", "close"} /\ held'[w] = held[w]
          BY <2>1, <4>1, <5>1 DEF Closing, Busy
        <5>2. CASE Return(w) /\ UNCHANGED batch
          BY <1>0, <2>1, <4>1, <5>2, ReturnFrees DEF Busy
        <5> QED BY <4>1, <5>1, <5>2, LabelMoves
      <4> QED BY <3>2, <4>1 DEF Closing
    <3> QED BY <1>0, <2>1, <3>1, <3>2, InFlightStep
  <2>2. CASE Armed(f)'
    <3>1. CASE UNCHANGED interest
      BY <2>2, <3>1 DEF Armed
    <3>2. CASE Dispatch
      BY <1>0, <2>2, <3>2 DEF Dispatch, Armed
    <3>3. ASSUME NEW w \in Workers, AddConnection(w)
          PROVE  Live(f) \/ (AddConnection(w) /\ loc[w] = f)
      BY <1>0, <2>2, <3>3 DEF AddConnection, Armed
    <3>4. ASSUME NEW w \in Workers, Relisten(w) PROVE Live(f)
      BY <1>0, <2>2, <3>4 DEF Relisten, Armed
    <3>5. ASSUME NEW w \in Workers, EventDone(w) PROVE Live(f)
      <4>1. pc[w] = "done"
        BY <3>5 DEF EventDone, At
      <4>2. CASE held[w].fd = f
        <5>1. InFlight(f)
          BY <1>a, <4>1, <4>2
        <5>2. ~Closing(f)
          BY <1>0, <1>b, <4>1, <4>2 DEF Closing, Busy
        <5> QED BY <5>1, <5>2
      <4>3. CASE held[w].fd # f
        BY <1>0, <2>2, <3>5, <4>3 DEF EventDone, Armed
      <4> QED BY <4>2, <4>3
    <3>6. ASSUME NEW w \in Workers, Delete(w) PROVE Live(f)
      BY <1>0, <2>2, <3>6 DEF Delete, Armed
    <3> QED BY <3>1, <3>2, <3>3, <3>4, <3>5, <3>6, Frame
  <2> QED BY <1>1, <2>1, <2>2
<1>2. \A w \in Workers : AddConnection(w) =>
        handlers[loc[w]] = EventTypes /\ UNCHANGED handlers
  BY DEF AddConnection, At, Attached
<1>c. \A w \in Workers : AddConnection(w) => pc[w] = "add" /\ pc'[w] = "relisten"
  BY <1>0 DEF AddConnection, At, Goto
<1>3. ASSUME UNCHANGED handlers, \A w \in Workers : ~Attach(w) PROVE Attached'
  <2>1. \A f \in Fds : Live(f)' => handlers'[f] = EventTypes
    BY <1>0, <1>1, <1>2, <1>3
  <2>2. \A w \in Workers : pc'[w] = "add" => handlers'[loc'[w]] = EventTypes
    BY <1>3, LabelMoves DEF Attached
  <2> QED BY <2>1, <2>2 DEF Attached
<1>4. ASSUME NEW w \in Workers, Attach(w) PROVE Attached'
  <2>1. /\ pc[w] = "attach" /\ loc[w] \in Fds /\ held[w].fd = ListenFd
        /\ handlers' = [handlers EXCEPT ![loc[w]] = EventTypes]
        /\ loc' = loc /\ pc' = [pc EXCEPT ![w] = "add"]
    BY <1>0, <1>4 DEF Attach, At, Goto, Labels
  <2>2. \A f \in Fds : Live(f)' => Live(f)
    BY <1>0, <1>1, <1>c, <2>1
  <2>3. \A v \in Workers : pc'[v] = "add" => v = w
    BY <1>0, <1>b, <2>1 DEF Labels
  <2> HIDE DEF Live
  <2>4. \A f \in Fds : Live(f)' => handlers'[f] = EventTypes
    BY <1>0, <2>1, <2>2
  <2>5. \A v \in Workers : pc'[v] = "add" => handlers'[loc'[v]] = EventTypes
    BY <1>0, <2>1, <2>3
  <2> QED BY <2>4, <2>5 DEF Attached, Live
<1>5. ASSUME NEW w \in Workers, Detach(w) PROVE Attached'
  <2>1. /\ pc[w] = "start"
        /\ handlers' = [handlers EXCEPT ![held[w].fd] = {}]
        /\ held' = held /\ loc' = loc /\ pc' = [pc EXCEPT ![w] = "delete"]
        /\ interest' = interest
    BY <1>5 DEF Detach, Event, At, Goto
  <2>2. held[w].fd \in Fds
    BY <1>0, <1>5 DEF Detach, Event, At, Labels, Tasks, AllFds
  <2>3. ~Live(held[w].fd)'
    <3>1. ~Armed(held[w].fd)
      BY <1>0, <1>a, <2>1 DEF Disarmed, Armed
    <3>2. Closing(held[w].fd)'
      BY <1>0, <1>a, <2>1 DEF Closing, Busy
    <3> QED BY <2>1, <3>1, <3>2 DEF Armed
  <2>4. \A f \in Fds : Live(f)' => Live(f)
    BY <1>0, <1>1, <1>c, <2>1
  <2>5. \A v \in Workers : pc[v] = "add" => loc[v] # held[w].fd
    BY <1>0, <1>a, <2>1 DEF Fresh
  <2> HIDE DEF Live
  <2>6. \A f \in Fds : Live(f)' => handlers'[f] = EventTypes
    BY <1>0, <2>1, <2>3, <2>4
  <2>7. \A v \in Workers : pc'[v] = "add" => handlers'[loc'[v]] = EventTypes
    <3>1. ASSUME NEW v \in Workers, pc'[v] = "add"
          PROVE  handlers'[loc'[v]] = EventTypes
      <4>1. pc[v] = "add" /\ loc[v] \in AllFds
        BY <1>0, <2>1, <3>1 DEF Labels
      <4> QED BY <1>0, <2>1, <2>5, <4>1 DEF Attached
    <3> QED BY <3>1
  <2> QED BY <2>6, <2>7 DEF Attached, Live
<1> QED BY <1>3, <1>4, <1>5, Frame

(* accept() gives every connection one descriptor, once.                   *)
LEMMA OwnersStep == Lock /\ Owners /\ Next => Owners'
<1> SUFFICES ASSUME Lock, Owners, Next PROVE Owners'
  OBVIOUS
<1>0. /\ peer \in [Conns -> {"new", "open", "closed", "reset"}]
      /\ owner \in [Fds -> Conns \cup {None}]
      /\ held \in [Workers -> Tasks \cup {None}]
      /\ backlog \in Seq(Conns) /\ None \notin Conns
      /\ Labels
  BY ServerAssumption DEF Lock, TypeOK
<1>1. CASE UNCHANGED <<peer, owner, backlog>>
  BY <1>0, <1>1 DEF Owners
<1>2. ASSUME NEW c \in Conns, Connect(c) PROVE Owners'
  <2>1. /\ peer[c] = "new" /\ owner' = owner
        /\ peer' = [peer EXCEPT ![c] = "open"]
        /\ backlog' = Append(backlog, c)
    BY <1>2 DEF Connect, serverVars
  <2>2. /\ \A i \in 1..Len(backlog) : backlog[i] # c /\ backlog[i] \in Conns
        /\ \A f \in Fds : owner[f] # c
    BY <1>0, <2>1 DEF Owners
  <2>3. /\ Len(backlog') = Len(backlog) + 1 /\ Len(backlog) \in Nat
        /\ \A i \in 1..Len(backlog) : backlog'[i] = backlog[i]
        /\ backlog'[Len(backlog) + 1] = c
    BY <1>0, <2>1
  <2>4. \A i \in 1..Len(backlog') : i = Len(backlog) + 1 \/ i \in 1..Len(backlog)
    BY <2>3
  <2>5. \A i, k \in 1..Len(backlog') : backlog'[i] = backlog'[k] => i = k
    BY <2>2, <2>3, <2>4 DEF Owners
  <2>6. \A i \in 1..Len(backlog') :
          peer'[backlog'[i]] # "new" /\ \A f \in Fds : owner[f] # backlog'[i]
    BY <1>0, <2>1, <2>2, <2>3, <2>4 DEF Owners
  <2>7. \A f \in Fds : owner[f] # None => peer'[owner[f]] # "new"
    BY <1>0, <2>1, <2>2 DEF Owners
  <2> QED BY <2>1, <2>5, <2>6, <2>7 DEF Owners
<1>3. ASSUME NEW c \in Conns, Close(c) \/ Reset(c) PROVE Owners'
  <2>1. /\ UNCHANGED <<owner, backlog>>
        /\ \A d \in Conns : peer'[d] = "new" => peer[d] = "new"
    BY <1>0, <1>3 DEF Close, Reset, serverVars
  <2>2. \A i \in 1..Len(backlog) : backlog[i] \in Conns
    BY <1>0
  <2> QED BY <1>0, <2>1, <2>2 DEF Owners
<1>4. ASSUME NEW w \in Workers, Accept(w) PROVE Owners'
  <2>1. PICK g \in Fds : /\ owner[g] = None
                         /\ owner' = [owner EXCEPT ![g] = Head(backlog)]
    BY <1>4 DEF Accept
  <2>2. backlog # <<>> /\ backlog' = Tail(backlog) /\ peer' = peer
    BY <1>4 DEF Accept
  <2>3. /\ 1 \in 1..Len(backlog) /\ Head(backlog) = backlog[1]
        /\ backlog[1] \in Conns
        /\ \A i \in 1..Len(backlog') : i + 1 \in 1..Len(backlog) /\ i + 1 # 1
                                       /\ backlog'[i] = backlog[i + 1]
        /\ \A i, k \in 1..Len(backlog') : i + 1 = k + 1 => i = k
    BY <1>0, <2>2
  <2>4. \A f \in Fds : owner'[f] = IF f = g THEN backlog[1] ELSE owner[f]
    BY <1>0, <2>1, <2>3
  <2>5. \A f, h \in Fds : owner'[f] = owner'[h] /\ owner'[f] # None => f = h
    BY <2>3, <2>4 DEF Owners
  <2>6. \A i, k \in 1..Len(backlog') : backlog'[i] = backlog'[k] => i = k
    BY <2>3 DEF Owners
  <2>7. \A i \in 1..Len(backlog') :
          peer[backlog'[i]] # "new" /\ \A f \in Fds : owner'[f] # backlog'[i]
    BY <2>3, <2>4 DEF Owners
  <2>8. \A f \in Fds : owner'[f] # None => peer[owner'[f]] # "new"
    BY <2>3, <2>4 DEF Owners
  <2> QED BY <2>2, <2>5, <2>6, <2>7, <2>8 DEF Owners
<1>5. ASSUME NEW w \in Workers, CloseFd(w) PROVE Owners'
  <2>1. /\ UNCHANGED <<peer, backlog>>
        /\ \A f \in Fds : owner'[f] \in {owner[f], None}
    BY <1>0, <1>5 DEF CloseFd, clientVars
  <2>2. \A i \in 1..Len(backlog) : backlog[i] # None
    BY <1>0
  <2> QED BY <1>0, <2>1, <2>2 DEF Owners
<1>6. ASSUME NEW w \in Workers, SetupFails(w) PROVE Owners'
  <2>1. backlog # <<>> /\ backlog' = Tail(backlog) /\ owner' = owner
    BY <1>6 DEF SetupFails
  <2>2. \A d \in Conns : peer'[d] = "new" => peer[d] = "new"
    BY <1>0, <1>6 DEF SetupFails
  <2>3. /\ \A i \in 1..Len(backlog') : i + 1 \in 1..Len(backlog)
                                       /\ backlog'[i] = backlog[i + 1]
                                       /\ backlog'[i] \in Conns
        /\ \A i, k \in 1..Len(backlog') : i + 1 = k + 1 => i = k
    BY <1>0, <2>1
  <2> QED BY <1>0, <2>1, <2>2, <2>3 DEF Owners
<1>7. \/ UNCHANGED <<peer, owner, backlog>>
      \/ \E c \in Conns : Connect(c) \/ Close(c) \/ Reset(c)
      \/ \E w \in Workers : Accept(w) \/ SetupFails(w) \/ CloseFd(w)
  BY Frame
<1> QED BY <1>1, <1>2, <1>3, <1>4, <1>5, <1>6, <1>7

(* A descriptor leaves the poller's sight by a report, and is put back or  *)
(* given up.                                                               *)
LEMMA OrphanStep == Lock /\ NoOrphan /\ Next => NoOrphan'
<1> SUFFICES ASSUME Lock, NoOrphan, Next,
                    NEW f \in AllFds, interest'[f] = "off"
             PROVE  InFlight(f)' \/ f \in deaf'
  BY DEF NoOrphan
<1>0. /\ batch \subseteq Tasks
      /\ queue \in Seq(Tasks)
      /\ held \in [Workers -> Tasks \cup {None}]
      /\ pc \in [Workers -> PCs]
      /\ interest \in [AllFds -> {"absent", "off", "in", "inout"}]
      /\ Labels /\ Disarmed
      /\ \A w \in Workers : pc[w] = "idle" <=> held[w] = None
  BY DEF Lock, TypeOK
<1>1. CASE Dispatch
  <2>1. CASE f \in Ready
    <3>1. [fd |-> f, type |-> EventOf(f)] \in batch'
      BY <1>1, <2>1 DEF Dispatch
    <3>2. [fd |-> f, type |-> EventOf(f)].fd = f
      OBVIOUS
    <3> QED BY <3>1, <3>2 DEF InFlight
  <2>2. CASE f \notin Ready
    <3>1. /\ interest[f] = "off" /\ batch = {}
          /\ UNCHANGED <<queue, held, deaf>>
      BY <1>1, <2>2 DEF Dispatch
    <3> QED BY <3>1 DEF NoOrphan, InFlight, Busy
  <2> QED BY <2>1, <2>2
<1>2. ASSUME NEW t \in Tasks, Submit(t) PROVE InFlight(f)' \/ f \in deaf'
  <2>1. /\ UNCHANGED <<interest, held>> /\ batch' = batch \ {t}
        /\ queue' = IF Len(queue) >= MaxTasks THEN queue ELSE Append(queue, t)
        /\ deaf' = IF Len(queue) >= MaxTasks THEN deaf \cup {t.fd} ELSE deaf
    BY <1>2 DEF Submit, Pool!Offer
  <2>2. CASE f \in deaf
    BY <2>1, <2>2
  <2>3. CASE Len(queue) >= MaxTasks
    BY <2>1, <2>3 DEF NoOrphan, InFlight, Busy
  <2>4. CASE ~(Len(queue) >= MaxTasks) /\ f \notin deaf
    <3>1. /\ Len(queue') = Len(queue) + 1 /\ Len(queue) \in Nat
          /\ \A i \in 1..Len(queue) : queue'[i] = queue[i] /\ i \in 1..Len(queue')
          /\ queue'[Len(queue) + 1] = t /\ Len(queue) + 1 \in 1..Len(queue')
      BY <1>0, <2>1, <2>4
    <3>2. InFlight(f)
      BY <2>1, <2>4 DEF NoOrphan
    <3>3. CASE t.fd = f
      BY <3>1, <3>3 DEF InFlight
    <3>4. CASE t.fd # f
      BY <2>1, <3>1, <3>2, <3>4 DEF InFlight, Busy
    <3> QED BY <3>3, <3>4
  <2> QED BY <2>2, <2>3, <2>4
<1>3. ASSUME NEW w \in Workers, Take(w) PROVE InFlight(f)' \/ f \in deaf'
  <2>1. /\ queue # <<>> /\ UNCHANGED <<batch, interest, deaf>>
        /\ held[w] = None
        /\ held' = [held EXCEPT ![w] = Head(queue)] /\ queue' = Tail(queue)
    BY <1>3 DEF Take, Pool!Begin
  <2>2. /\ Head(queue) = queue[1] /\ queue[1] \in Tasks
        /\ Len(queue) \in Nat /\ Len(queue') = Len(queue) - 1
        /\ \A i \in 1..Len(queue) : i = 1 \/ (i - 1 \in 1..Len(queue')
                                              /\ queue'[i - 1] = queue[i])
    BY <1>0, <2>1
  <2>3. held'[w] = queue[1] /\ queue[1] # None
    BY <1>0, <2>1, <2>2, NoneAssumption
  <2>4. \A v \in Workers : held[v] # None => held'[v] = held[v]
    BY <1>0, <2>1
  <2>5. InFlight(f) => InFlight(f)'
    <3>1. ASSUME NEW i \in 1..Len(queue), queue[i].fd = f PROVE InFlight(f)'
      <4>1. CASE i = 1
        BY <2>3, <3>1, <4>1 DEF InFlight, Busy
      <4>2. CASE i # 1
        BY <2>2, <3>1, <4>2 DEF InFlight
      <4> QED BY <4>1, <4>2
    <3>2. ASSUME NEW v \in Workers, Busy(v, f) PROVE InFlight(f)'
      BY <2>4, <3>2 DEF InFlight, Busy
    <3> QED BY <2>1, <3>1, <3>2 DEF InFlight
  <2> QED BY <2>1, <2>5 DEF NoOrphan
<1>4. ASSUME NEW w \in Workers, Return(w), UNCHANGED batch
      PROVE  f # held[w].fd /\ InFlight(f) => InFlight(f)'
  <2>1. queue' = queue /\ held' = [held EXCEPT ![w] = None]
    BY <1>4 DEF Return, Pool!Finish
  <2>2. \A v \in Workers : Busy(v, f) /\ f # held[w].fd => Busy(v, f)'
    BY <1>0, <2>1 DEF Busy
  <2> QED BY <1>4, <2>1, <2>2 DEF InFlight
<1>5. ASSUME NEW w \in Workers,
             \/ Ignore(w) \/ ShortRead(w) \/ RejectRequest(w)
      PROVE  InFlight(f)' \/ f \in deaf'
  <2>1. /\ Return(w) /\ UNCHANGED <<batch, interest>>
        /\ deaf' = deaf \cup {held[w].fd}
    BY <1>5 DEF Ignore, ShortRead, RejectRequest, Desert
  <2> QED BY <1>4, <2>1 DEF NoOrphan
<1>6. ASSUME NEW w \in Workers, Relisten(w) \/ EventDone(w) \/ CloseFd(w)
      PROVE  InFlight(f)' \/ f \in deaf'
  <2>1. Return(w) /\ UNCHANGED <<batch, deaf>>
    BY <1>6 DEF Relisten, EventDone, CloseFd
  <2>2. held[w].fd \in AllFds
    BY <1>0, <2>1 DEF Return, Pool!Finish, Tasks
  <2>3. f # held[w].fd /\ interest[f] = "off"
    <3>1. CASE Relisten(w)
      BY <1>0, <2>2, <3>1 DEF Relisten, At, Labels
    <3>2. CASE EventDone(w)
      BY <1>0, <2>2, <3>2 DEF EventDone
    <3>3. CASE CloseFd(w)
      BY <1>0, <3>3 DEF CloseFd, At, Disarmed
    <3> QED BY <1>6, <3>1, <3>2, <3>3
  <2> QED BY <1>4, <2>1, <2>3 DEF NoOrphan
<1>7. ASSUME UNCHANGED <<batch, queue, held, deaf>>, interest[f] = "off"
      PROVE  InFlight(f)' \/ f \in deaf'
  BY <1>7 DEF NoOrphan, InFlight, Busy
<1>8. CASE ClientStep
  BY <1>7, <1>8, ClientFrame DEF serverVars
<1>9. ASSUME NEW w \in Workers,
             \/ Accept(w) \/ AcceptFails(w) \/ SetupFails(w) \/ Attach(w)
             \/ Recv(w) \/ HandleRequest(w) \/ Send(w) \/ SendWouldBlock(w) \/ SendFails(w)
             \/ Detach(w)
      PROVE  InFlight(f)' \/ f \in deaf'
  BY <1>7, <1>9 DEF Accept, AcceptFails, SetupFails, Attach, Recv,
                    HandleRequest, Send, SendWouldBlock, SendFails, Detach, Goto
<1>10. ASSUME NEW w \in Workers, ReadPipe(w) PROVE InFlight(f)' \/ f \in deaf'
  BY <1>7, <1>10 DEF ReadPipe, Goto
<1>11. ASSUME NEW w \in Workers, AddConnection(w) \/ Delete(w)
       PROVE  InFlight(f)' \/ f \in deaf'
  <2>1. interest[f] = "off"
    BY <1>0, <1>11 DEF AddConnection, Delete
  <2> QED BY <1>7, <1>11, <2>1 DEF AddConnection, Delete, Goto
<1> QED
  BY <1>1, <1>2, <1>3, <1>5, <1>6, <1>8, <1>9, <1>10, <1>11 DEF Next, WorkerStep

(* Nobody but the handler of an event can take away what was reported.     *)
LEMMA PendingStep == Lock /\ Owners /\ Pending /\ Next => Pending'
<1> SUFFICES ASSUME Lock, Owners, Pending, Next PROVE Pending'
  OBVIOUS
<1>0. /\ Labels /\ Distinct /\ Disarmed /\ Fresh /\ Free
      /\ stream \in [Conns -> Seq(Messages)]
      /\ pipe \in [Fds -> Seq(Messages)]
      /\ owner \in [Fds -> Conns \cup {None}]
      /\ interest \in [AllFds -> {"absent", "off", "in", "inout"}]
      /\ held \in [Workers -> Tasks \cup {None}]
      /\ pc \in [Workers -> PCs]
      /\ backlog \in Seq(Conns)
      /\ \A w \in Workers : pc[w] = "idle" <=> held[w] = None
      /\ ListenFd \notin Fds /\ AllFds = Fds \cup {ListenFd}
      /\ None \notin Conns
  BY ServerAssumption DEF Lock, TypeOK, AllFds
<1>a. ASSUME NEW w \in Workers, pc[w] # "idle"
      PROVE  held[w].fd \in AllFds /\ Busy(w, held[w].fd) /\ InFlight(held[w].fd)
  BY <1>0, <1>a DEF Tasks, Busy, InFlight
<1>o. ASSUME NEW w \in Workers, pc[w] # "idle", held[w].fd # ListenFd
      PROVE  held[w].fd \in Fds /\ owner[held[w].fd] \in Conns
  BY <1>0, <1>o, OwnerOfTask
(* A handler that has begun, or has returned, is past its event.           *)
<1>b. ASSUME NEW w \in Workers, pc[w] # "idle",
             (pc'[w] # "start" /\ held'[w] = held[w]) \/ (Return(w) /\ UNCHANGED batch),
             NEW t \in Tasks, Reported(t)', ~Dispatch
      PROVE  t.fd # held[w].fd
  <2>1. t.fd \in AllFds /\ t # None
    BY NoneAssumption DEF Tasks
  <2>2. CASE pc'[w] # "start" /\ held'[w] = held[w]
    <3>1. Distinct'
      BY DistinctStep
    <3>2. held'[w] # None
      BY <1>0, <1>b, <2>2
    <3>3. SUFFICES ASSUME t.fd = held'[w].fd PROVE FALSE
      BY <2>2
    <3>4. t \notin batch' /\ \A i \in 1..Len(queue') : queue'[i] # t
      BY <3>1, <3>2, <3>3 DEF Distinct, Busy
    <3>5. \A v \in Workers : held'[v] = t => v = w
      BY <2>1, <3>1, <3>2, <3>3 DEF Distinct, Busy
    <3> QED BY <1>b, <2>2, <3>4, <3>5 DEF Reported
  <2>3. CASE Return(w) /\ UNCHANGED batch
    <3>1. InFlight(t.fd)'
      BY <1>b, <2>1 DEF Reported, InFlight, Busy
    <3> QED BY <2>1, <2>3, <3>1, ReturnFrees
  <2> QED BY <1>b, <2>2, <2>3
(* The descriptor of a reported event keeps its connection.                *)
<1>c. ASSUME NEW t \in Tasks, Reported(t)', t.fd # ListenFd
      PROVE  t.fd \in Fds /\ owner'[t.fd] = owner[t.fd] /\ owner[t.fd] \in Conns
  <2>1. t.fd \in Fds
    BY <1>0, <1>c DEF Tasks
  <2>2. owner[t.fd] \in Conns
    <3>1. CASE Reported(t)
      BY <1>0, <2>1, <3>1, ReportedAlone DEF Free
    <3>2. CASE t.fd \in Ready
      BY <1>0, <2>1, <3>2 DEF Free, Ready, Armed
    <3> QED BY <1>c, <3>1, <3>2, ReportedStep
  <2>3. ASSUME NEW w \in Workers, Accept(w) PROVE owner'[t.fd] = owner[t.fd]
    BY <1>0, <2>1, <2>2, <2>3 DEF Accept
  <2>4. ASSUME NEW w \in Workers, CloseFd(w) PROVE owner'[t.fd] = owner[t.fd]
    <3>1. Return(w) /\ UNCHANGED <<batch, interest>> /\ pc[w] # "idle"
      BY <2>4 DEF CloseFd, At
    <3>2. ~Dispatch
      BY <1>0, <3>1 DEF Dispatch, Return, Pool!Finish
    <3>3. t.fd # held[w].fd
      BY <1>b, <1>c, <3>1, <3>2
    <3> QED BY <1>0, <2>1, <2>4, <3>3 DEF CloseFd
  <2> QED BY <2>1, <2>2, <2>3, <2>4, Frame
(* Connections wait for accept() until a worker accepts them.              *)
<1>1. ASSUME NEW t \in Tasks, Reported(t)', t.fd = ListenFd
      PROVE  t.type = "READ" /\ backlog' # <<>>
  <2>1. t.type = "READ" /\ backlog # <<>>
    <3>1. CASE Reported(t)
      BY <1>1, <3>1 DEF Pending
    <3>2. CASE t.fd \in Ready /\ t.type = EventOf(t.fd)
      BY <1>1, <3>2 DEF Ready, EventOf
    <3> QED BY <1>1, <3>1, <3>2, ReportedStep
  <2>2. ASSUME NEW c \in Conns, Connect(c) PROVE backlog' # <<>>
    BY <1>0, <2>2 DEF Connect
  <2>3. ASSUME NEW w \in Workers, Accept(w) \/ SetupFails(w) PROVE FALSE
    <3>1. /\ held'[w] = held[w] /\ pc'[w] # "start" /\ pc[w] # "idle"
          /\ held[w].fd = ListenFd /\ batch' = batch
      BY <1>0, <2>3 DEF Accept, SetupFails, Goto, Event, At
    <3>2. ~Dispatch
      BY <3>1 DEF Dispatch
    <3> QED BY <1>1, <1>b, <3>1, <3>2
  <2> QED BY <2>1, <2>2, <2>3, Frame
(* Requests wait for recv() until the descriptor's worker receives them.   *)
<1>2. ASSUME NEW t \in Tasks, Reported(t)', t.fd # ListenFd, t.type = "READ"
      PROVE  stream'[owner'[t.fd]] # <<>>
  <2> DEFINE c == owner[t.fd]
  <2>1. t.fd \in Fds /\ owner'[t.fd] = c /\ c \in Conns
    BY <1>2, <1>c
  <2>2. stream[c] # <<>>
    <3>1. CASE Reported(t)
      BY <1>2, <3>1 DEF Pending
    <3>2. CASE t.fd \in Ready /\ t.type = EventOf(t.fd)
      BY <1>2, <3>2 DEF Ready, EventOf
    <3> QED BY <1>2, <3>1, <3>2, ReportedStep
  <2>3. ASSUME NEW d \in Conns, NEW k \in Kinds, NEW part \in BOOLEAN,
               Request(d, k, part)
        PROVE  stream'[c] # <<>>
    <3>1. PICK m : stream' = [stream EXCEPT ![d] = Append(@, m)]
      BY <2>3 DEF Request
    <3>2. stream[d] \in Seq(Messages)
      BY <1>0
    <3>3. Append(stream[d], m) # <<>>
      BY <3>2
    <3> QED BY <1>0, <2>1, <2>2, <3>1, <3>3
  <2>4. ASSUME NEW w \in Workers, Recv(w) \/ ShortRead(w)
        PROVE  stream'[c] # <<>>
    <3>1. /\ pc[w] # "idle" /\ held[w].fd # ListenFd /\ batch' = batch
          /\ \/ pc'[w] # "start" /\ held'[w] = held[w]
             \/ Return(w) /\ UNCHANGED batch
      BY <1>0, <2>4 DEF Recv, ShortRead, Goto, Event, At, Desert
    <3>2. ~Dispatch
      BY <3>1 DEF Dispatch
    <3>3. t.fd # held[w].fd
      BY <1>2, <1>b, <3>1, <3>2
    <3>4. held[w].fd \in Fds /\ owner[held[w].fd] \in Conns
      BY <1>o, <3>1
    <3>5. c # owner[held[w].fd]
      BY <1>0, <2>1, <3>3, <3>4 DEF Owners
    <3>6. \A d \in Conns : d # owner[held[w].fd] => stream'[d] = stream[d]
      BY <1>0, <2>4 DEF Recv, ShortRead
    <3> QED BY <2>1, <2>2, <3>5, <3>6
  <2> QED BY <2>1, <2>2, <2>3, <2>4, Frame
(* Results stay in the pipe until the descriptor's worker takes them.      *)
<1>p. ASSUME NEW f \in Fds, pipe[f] # <<>>,
             \A w \in Workers : ReadPipe(w) => held[w].fd # f
      PROVE  pipe'[f] # <<>>
  <2>1. ASSUME NEW w \in Workers, HandleRequest(w) PROVE pipe'[f] # <<>>
    <3>1. pipe' = pipe \/ pipe' = [pipe EXCEPT ![held[w].fd] = Append(@, loc[w])]
      BY <2>1 DEF HandleRequest
    <3>2. pipe[f] \in Seq(Messages)
      BY <1>0
    <3>3. Append(pipe[f], loc[w]) # <<>>
      BY <3>2
    <3> QED BY <1>0, <1>p, <3>1, <3>3
  <2>2. ASSUME NEW w \in Workers, ReadPipe(w) PROVE pipe'[f] # <<>>
    BY <1>0, <1>p, <2>2 DEF ReadPipe
  <2> QED BY <1>p, <2>1, <2>2, Frame
<1>3. ASSUME NEW t \in Tasks, Reported(t)', t.fd # ListenFd, t.type = "WRITE"
      PROVE  pipe'[t.fd] # <<>>
  <2>1. t.fd \in Fds
    BY <1>3, <1>c
  <2>2. pipe[t.fd] # <<>>
    <3>1. CASE Reported(t)
      BY <1>3, <3>1 DEF Pending
    <3>2. CASE t.fd \in Ready /\ t.type = EventOf(t.fd)
      BY <1>3, <2>1, <3>2 DEF Ready, EventOf, Pending
    <3> QED BY <1>3, <3>1, <3>2, ReportedStep
  <2>3. ASSUME NEW w \in Workers, ReadPipe(w), held[w].fd = t.fd PROVE FALSE
    <3>1. /\ pc[w] # "idle" /\ batch' = batch
          /\ pc'[w] # "start" /\ held'[w] = held[w]
      BY <1>0, <2>2, <2>3 DEF ReadPipe, Goto, Event, At
    <3>2. ~Dispatch
      BY <3>1 DEF Dispatch
    <3> QED BY <1>3, <1>b, <2>3, <3>1, <3>2
  <2> QED BY <1>p, <2>1, <2>2, <2>3
(* EPOLLOUT is asked for only with a result in the pipe.                   *)
<1>4. ASSUME NEW f \in Fds, interest'[f] = "inout" PROVE pipe'[f] # <<>>
  <2>1. ASSUME NEW w \in Workers, EventDone(w), held[w].fd = f
        PROVE  pipe'[f] # <<>>
    BY <1>0, <1>4, <2>1 DEF EventDone
  <2>2. ASSUME interest[f] = "inout" PROVE pipe'[f] # <<>>
    <3>1. pipe[f] # <<>>
      BY <2>2 DEF Pending
    <3>2. ASSUME NEW w \in Workers, ReadPipe(w), held[w].fd = f PROVE FALSE
      <4>1. InFlight(f)
        BY <1>a, <3>2 DEF ReadPipe, Event, At
      <4> QED BY <1>0, <2>2, <4>1 DEF Disarmed
    <3> QED BY <1>p, <3>1, <3>2
  <2>3. CASE UNCHANGED interest
    BY <1>4, <2>2, <2>3
  <2>4. CASE Dispatch
    BY <1>0, <1>4, <2>2, <2>4 DEF Dispatch
  <2>5. ASSUME NEW w \in Workers,
               AddConnection(w) \/ Relisten(w) \/ EventDone(w) \/ Delete(w)
        PROVE  pipe'[f] # <<>>
    <3>1. CASE interest[f] = "inout"
      BY <2>2, <3>1
    <3>2. CASE interest[f] # "inout"
      <4>1. ~AddConnection(w) /\ ~Relisten(w) /\ ~Delete(w)
        BY <1>0, <1>4, <3>2 DEF AddConnection, Relisten, Delete
      <4>2. EventDone(w) => held[w].fd = f
        BY <1>0, <1>4, <3>2 DEF EventDone
      <4> QED BY <2>1, <2>5, <4>1, <4>2
    <3> QED BY <3>1, <3>2
  <2> QED BY <2>3, <2>4, <2>5, Frame
<1> QED BY <1>1, <1>2, <1>3, <1>4 DEF Pending

-----------------------------------------------------------------------------
(* Events: theorems.                                                       *)

(* The whole invariant, from the start and through every step.             *)
LEMMA EventsInvariant == Spec => []Events
<1>1. Init => Attached /\ Owners /\ Pending /\ NoOrphan
  <2> SUFFICES ASSUME Init PROVE Attached /\ Owners /\ Pending /\ NoOrphan
    OBVIOUS
  <2>0. ListenFd \notin Fds /\ AllFds = Fds \cup {ListenFd}
    BY ServerAssumption DEF AllFds
  <2>1. \A f \in AllFds : ~InFlight(f)
    BY DEF Init, InFlight, Busy, Pool!PoolInit
  <2>2. \A t : ~Reported(t)
    BY DEF Init, Reported, Pool!PoolInit
  <2>3. \A f \in AllFds : interest[f] # "off" /\ interest[f] # "inout"
    BY DEF Init
  <2>4. \A f \in Fds : ~Armed(f)
    BY <2>0 DEF Init, Armed
  <2>5. Attached
    BY <2>0, <2>1, <2>4 DEF Attached, Init
  <2>6. Owners
    BY DEF Owners, Init
  <2>7. Pending
    BY <2>0, <2>2, <2>3 DEF Pending
  <2> QED BY <2>3, <2>5, <2>6, <2>7 DEF NoOrphan
<1>2. Events /\ Next => Events'
  BY LockStep, AttachedStep, OwnersStep, PendingStep, OrphanStep DEF Events
<1>3. Events /\ UNCHANGED vars => Events'
  <2> SUFFICES ASSUME Events, UNCHANGED vars PROVE Events'
    OBVIOUS
  <2>1. Lock'
    BY LockStep DEF Events
  <2>2. Attached'
    BY DEF Events, Attached, Armed, InFlight, Closing, Busy, vars, serverVars
  <2>3. Owners' /\ NoOrphan'
    BY DEF Events, Owners, NoOrphan, InFlight, Busy, vars, clientVars, serverVars
  <2>4. Pending'
    BY DEF Events, Pending, Reported, vars, clientVars, serverVars
  <2> QED BY <2>1, <2>2, <2>3, <2>4 DEF Events
<1> QED BY <1>1, <1>2, <1>3, InitLock, PTL DEF Spec, Events

(* Handlers are there from before AddEvent until after the last event.     *)
LEMMA EventsFindHandler == Events => HandlerFound
<1> SUFFICES ASSUME Events, NEW w \in Workers,
                    pc[w] = "start", held[w].type # "NONE"
             PROVE  held[w].type \in handlers[held[w].fd]
  BY DEF HandlerFound
<1>0. /\ held[w] \in Tasks /\ Lock /\ Attached /\ Pending /\ Labels
      /\ ListenFd \notin Fds
  BY ServerAssumption DEF Events, Lock, TypeOK
<1>1. Reported(held[w])
  BY DEF Reported
<1>2. CASE held[w].fd = ListenFd
  BY <1>0, <1>1, <1>2 DEF Pending, Labels
<1>3. CASE held[w].fd # ListenFd
  <2>1. /\ held[w].fd \in Fds
        /\ held[w].type \in EventTypes
    BY <1>0, <1>3 DEF Tasks, AllFds
  <2>2. InFlight(held[w].fd) /\ ~Closing(held[w].fd)
    BY <1>0, <1>1, ReportedAlone DEF Closing
  <2> QED BY <1>0, <2>1, <2>2 DEF Attached
<1> QED BY <1>2, <1>3

(* EventHandlerManager::HandleEvent finds a handler for every event of a   *)
(* known type: Attach comes before AddEvent, DelEvent after the last event.*)
THEOREM HandlersFound == Spec => []HandlerFound
BY EventsFindHandler, EventsInvariant, PTL

(* The assertion of ReturnValuePipe::Read never fails: FileDescriptor-     *)
(* EventDone asks for EPOLLOUT only with a result in the pipe, and nobody  *)
(* else reads it.                                                          *)
THEOREM PipeNeverEmpty == Spec => []PipeReady
<1>1. Events => PipeReady
  <2> SUFFICES ASSUME Events, NEW w \in Workers,
                      pc[w] = "start", held[w].type = "WRITE"
               PROVE  pipe[held[w].fd] # <<>>
    BY DEF PipeReady
  <2>1. held[w] \in Tasks /\ Reported(held[w])
    BY DEF Events, Lock, TypeOK, Reported
  <2> QED BY <2>1 DEF Events, Pending
<1> QED BY <1>1, EventsInvariant, PTL

(* A read event is never stale: accept() and the first recv() of a handler *)
(* find what epoll_wait reported.                                          *)
THEOREM ReadsFindData == Spec => []ReadFindsData
<1>1. Events => ReadFindsData
  <2> SUFFICES ASSUME Events, NEW w \in Workers,
                      pc[w] = "start", held[w].type = "READ"
               PROVE  IF held[w].fd = ListenFd THEN backlog # <<>>
                      ELSE stream[owner[held[w].fd]] # <<>>
    BY DEF ReadFindsData
  <2>1. held[w] \in Tasks /\ Reported(held[w])
    BY DEF Events, Lock, TypeOK, Reported
  <2> QED BY <2>1 DEF Events, Pending
<1> QED BY <1>1, EventsInvariant, PTL

-----------------------------------------------------------------------------
(* Deafness: a connection is lost by its own client's fault only.          *)

-----------------------------------------------------------------------------
(* Deafness: the inductive invariant.                                      *)

(* The descriptors out of the poller's sight.                              *)
Off ==
  /\ \A f \in AllFds : InFlight(f) =>
       interest[f] = "off" \/ \E w \in Workers : Busy(w, f) /\ pc[w] = "close"
  /\ \A f \in deaf : interest[f] = "off" /\ ~InFlight(f)

(* A request is one its client has sent.                                   *)
Genuine(s, m) ==
  m.seq <= Len(s[m.conn]) /\ m.kind = s[m.conn][m.seq]

(* What a connection's worker receives is what its client has sent.        *)
Origins ==
  /\ \A c \in Conns : \A i \in 1..Len(stream[c]) :
       stream[c][i].conn = c /\ Genuine(sent, stream[c][i])
  /\ \A w \in Workers : pc[w] = "handle" =>
       loc[w].conn = owner[held[w].fd] /\ Genuine(sent, loc[w])

(* Type 0 is reported of connections that were reset.                      *)
Resets ==
  \A t \in Tasks : Reported(t) /\ t.type = "NONE"
    => t.fd \in Fds /\ peer[owner[t.fd]] = "reset"

(* A task queue with room for a task of every descriptor.                  *)
Roomy == Cardinality(AllFds) <= MaxTasks

Blamed ==
  Roomy => \A f \in deaf : f \in Fds /\ owner[f] # None /\ Culprit(owner[f])

Contained == Events /\ Off /\ Origins /\ Resets /\ Blamed

-----------------------------------------------------------------------------
(* Deafness: each part of the invariant is inductive.                      *)

(* The steps that give a descriptor up.                                    *)
LEMMA NewlyDeaf ==
  ASSUME Next, NEW f \in deaf', f \notin deaf
  PROVE  \/ \E w \in Workers : /\ Ignore(w) \/ ShortRead(w) \/ RejectRequest(w)
                               /\ f = held[w].fd
         \/ \E t \in Tasks : Submit(t) /\ Len(queue) >= MaxTasks /\ f = t.fd
<1>1. ASSUME NEW t \in Tasks, Submit(t) PROVE Len(queue) >= MaxTasks /\ f = t.fd
  BY <1>1 DEF Submit
<1>2. ASSUME NEW w \in Workers, Ignore(w) \/ ShortRead(w) \/ RejectRequest(w)
      PROVE  f = held[w].fd
  BY <1>2 DEF Ignore, ShortRead, RejectRequest, Desert
<1>3. ~ClientStep /\ ~Dispatch
  BY ClientFrame DEF serverVars, Dispatch
<1>4. ASSUME NEW w \in Workers, WorkerStep(w)
      PROVE  Ignore(w) \/ ShortRead(w) \/ RejectRequest(w)
  <2>1. /\ ~Take(w) /\ ~Accept(w) /\ ~AcceptFails(w) /\ ~SetupFails(w)
        /\ ~Attach(w) /\ ~Recv(w)
    BY DEF Take, Accept, AcceptFails, SetupFails, Attach, Recv
  <2>2. ~AddConnection(w) /\ ~Relisten(w) /\ ~HandleRequest(w) /\ ~ReadPipe(w)
    BY DEF AddConnection, Relisten, HandleRequest, ReadPipe
  <2>3. ~Send(w) /\ ~SendWouldBlock(w) /\ ~SendFails(w) /\ ~EventDone(w)
    BY DEF Send, SendWouldBlock, SendFails, EventDone
  <2>4. ~Detach(w) /\ ~Delete(w) /\ ~CloseFd(w)
    BY DEF Detach, Delete, CloseFd
  <2> QED BY <1>4, <2>1, <2>2, <2>3, <2>4 DEF WorkerStep
<1> QED BY <1>1, <1>2, <1>3, <1>4 DEF Next

(* A descriptor is off from the event on until its handler re-arms it.     *)
LEMMA OffStep == Lock /\ Off /\ Next => Off'
<1> SUFFICES ASSUME Lock, Off, Next PROVE Off'
  OBVIOUS
<1>0. /\ held \in [Workers -> Tasks \cup {None}]
      /\ pc \in [Workers -> PCs]
      /\ interest \in [AllFds -> {"absent", "off", "in", "inout"}]
      /\ batch \subseteq Tasks /\ queue \in Seq(Tasks)
      /\ deaf \subseteq AllFds
      /\ Labels /\ Distinct /\ Disarmed /\ Fresh
      /\ \A w \in Workers : pc[w] = "idle" <=> held[w] = None
      /\ ListenFd \in AllFds /\ Fds \subseteq AllFds
  BY DEF Lock, TypeOK, AllFds
<1>a. ASSUME NEW w \in Workers, pc[w] # "idle"
      PROVE  held[w].fd \in AllFds /\ Busy(w, held[w].fd) /\ InFlight(held[w].fd)
  BY <1>0, <1>a DEF Tasks, Busy, InFlight
(* What is off stays off until its own handler says otherwise.             *)
<1>1. ASSUME NEW f \in AllFds, interest[f] = "off",
             \A w \in Workers : Relisten(w) \/ EventDone(w) \/ Delete(w)
                                  => held[w].fd # f
      PROVE  interest'[f] = "off"
  <2>1. CASE Dispatch
    BY <1>1, <2>1 DEF Dispatch
  <2>2. ASSUME NEW w \in Workers, AddConnection(w) PROVE interest'[f] = "off"
    <3>1. loc[w] # f
      BY <1>0, <1>1, <2>2 DEF AddConnection, At, Fresh
    <3> QED BY <1>0, <1>1, <2>2, <3>1 DEF AddConnection
  <2>3. ASSUME NEW w \in Workers, Relisten(w) PROVE interest'[f] = "off"
    BY <1>0, <1>1, <2>3 DEF Relisten, At, Labels
  <2>4. ASSUME NEW w \in Workers, EventDone(w) \/ Delete(w)
        PROVE  interest'[f] = "off"
    BY <1>0, <1>1, <2>4 DEF EventDone, Delete
  <2> QED BY <1>1, <2>1, <2>2, <2>3, <2>4, Frame
<1>2. ASSUME NEW f \in AllFds, InFlight(f)'
      PROVE  interest'[f] = "off" \/ \E w \in Workers : Busy(w, f)' /\ pc'[w] = "close"
  <2>1. CASE Dispatch /\ f \in Ready
    BY <2>1 DEF Dispatch
  <2>2. CASE InFlight(f) /\ interest[f] = "off"
    <3>1. ASSUME NEW w \in Workers, Relisten(w) \/ EventDone(w), held[w].fd = f
          PROVE  FALSE
      <4>1. Return(w) /\ UNCHANGED batch
        BY <3>1 DEF Relisten, EventDone
      <4> QED BY <1>2, <3>1, <4>1, ReturnFrees
    <3>2. ASSUME NEW w \in Workers, Delete(w), held[w].fd = f
          PROVE  Busy(w, f)' /\ pc'[w] = "close"
      BY <1>0, <1>a, <3>2 DEF Delete, At, Goto, Busy
    <3> QED BY <1>1, <2>2, <3>1, <3>2
  <2>3. ASSUME NEW w \in Workers, Busy(w, f), pc[w] = "close"
        PROVE  Busy(w, f)' /\ pc'[w] = "close"
    <3>1. CASE WorkerStep(w)
      <4>1. Return(w) /\ UNCHANGED batch => FALSE
        BY <1>2, <2>3, ReturnFrees DEF Busy
      <4>2. ~Take(w)
        BY <1>0, <2>3 DEF Take, Pool!Begin, Busy
      <4> QED BY <1>0, <2>3, <3>1, <4>1, <4>2, OwnMove DEF Busy
    <3>2. ASSUME NEW v \in Workers, WorkerStep(v), v # w
          PROVE  Busy(w, f)' /\ pc'[w] = "close"
      BY <2>3, <3>2, OthersStay DEF Busy
    <3>3. CASE UNCHANGED <<held, pc>>
      BY <2>3, <3>3 DEF Busy
    <3>4. ClientStep \/ Dispatch \/ (\E t \in Tasks : Submit(t)) => UNCHANGED <<held, pc>>
      BY ClientFrame DEF serverVars, Dispatch, Submit, Pool!Offer
    <3> QED BY <3>1, <3>2, <3>3, <3>4 DEF Next
  <2> QED BY <1>2, <2>1, <2>2, <2>3, InFlightStep DEF Off
<1>3. ASSUME NEW f \in deaf PROVE interest'[f] = "off" /\ ~InFlight(f)'
  <2>1. f \in AllFds /\ interest[f] = "off" /\ ~InFlight(f)
    BY <1>0 DEF Off
  <2>2. ~InFlight(f)'
    BY <2>1, InFlightStep DEF Ready, Armed
  <2>3. \A w \in Workers : pc[w] # "idle" => held[w].fd # f
    BY <1>a, <2>1
  <2>4. \A w \in Workers : Relisten(w) \/ EventDone(w) \/ Delete(w) => pc[w] # "idle"
    BY DEF Relisten, EventDone, Delete, At
  <2> QED BY <1>1, <2>1, <2>2, <2>3, <2>4
(* A descriptor that goes deaf was in flight, in one place.                *)
<1>4. ASSUME NEW w \in Workers, Desert(w), UNCHANGED <<batch, interest>>,
             pc[w] # "close", NEW f, f = held[w].fd
      PROVE  interest'[f] = "off" /\ ~InFlight(f)'
  <2>1. Return(w) /\ UNCHANGED batch
    BY <1>4 DEF Desert
  <2>2. f \in AllFds /\ InFlight(f) /\ ~InFlight(f)' /\ held[w] # None
    <3>1. held[w] # None
      BY <2>1 DEF Return, Pool!Finish
    <3> QED BY <1>4, <2>1, <3>1, ReturnFrees
  <2>3. \A v \in Workers : Busy(v, f) => v = w
    BY <1>0, <1>4, <2>2 DEF Distinct, Busy
  <2> QED BY <1>4, <2>2, <2>3 DEF Off
<1>5. ASSUME NEW t \in Tasks, Submit(t), Len(queue) >= MaxTasks
      PROVE  interest'[t.fd] = "off" /\ ~InFlight(t.fd)'
  <2>1. /\ t \in batch /\ batch' = batch \ {t} /\ t.fd \in AllFds
        /\ UNCHANGED <<queue, held, interest>>
    BY <1>5 DEF Submit, Pool!Offer, Tasks
  <2>2. InFlight(t.fd) /\ \A w \in Workers : ~Busy(w, t.fd)
    BY <1>0, <2>1 DEF InFlight, Distinct
  <2>3. interest[t.fd] = "off"
    BY <2>1, <2>2 DEF Off
  <2>4. ~InFlight(t.fd)'
    BY <1>0, <2>1, <2>2 DEF InFlight, Distinct, Busy
  <2> QED BY <2>1, <2>3, <2>4
<1>6. ASSUME NEW f \in deaf', f \notin deaf
      PROVE  \/ \E w \in Workers : /\ Desert(w) /\ UNCHANGED <<batch, interest>>
                                   /\ pc[w] # "close" /\ f = held[w].fd
             \/ \E t \in Tasks : Submit(t) /\ Len(queue) >= MaxTasks /\ f = t.fd
  <2>1. ASSUME NEW w \in Workers, Ignore(w) \/ ShortRead(w) \/ RejectRequest(w)
        PROVE  Desert(w) /\ UNCHANGED <<batch, interest>> /\ pc[w] # "close"
    BY <2>1 DEF Ignore, ShortRead, RejectRequest, Event, At
  <2> QED BY <1>6, <2>1, NewlyDeaf
<1>7. ASSUME NEW f \in deaf' PROVE interest'[f] = "off" /\ ~InFlight(f)'
  <2>1. CASE f \in deaf
    BY <1>3, <2>1
  <2>2. ASSUME NEW w \in Workers, Desert(w), UNCHANGED <<batch, interest>>,
               pc[w] # "close", f = held[w].fd
        PROVE  interest'[f] = "off" /\ ~InFlight(f)'
    BY <1>4, <2>2
  <2>3. ASSUME NEW t \in Tasks, Submit(t), Len(queue) >= MaxTasks, f = t.fd
        PROVE  interest'[f] = "off" /\ ~InFlight(f)'
    BY <1>5, <2>3
  <2> QED BY <1>6, <2>1, <2>2, <2>3
<1> QED BY <1>2, <1>7 DEF Off

(* A deaf descriptor keeps its connection.                                 *)
LEMMA DeafStays ==
  ASSUME Lock, Off, Next, NEW f \in deaf \cap Fds
  PROVE  f \in deaf' /\ owner'[f] = owner[f]
<1>0. /\ Lock /\ Free /\ Off /\ interest[f] = "off" /\ ~InFlight(f)
      /\ owner \in [Fds -> Conns \cup {None}]
  BY DEF Lock, TypeOK, Off
<1>1. owner[f] # None
  BY <1>0 DEF Free
<1>2. ASSUME NEW w \in Workers, Accept(w) PROVE owner'[f] = owner[f]
  BY <1>0, <1>1, <1>2 DEF Accept
<1>3. ASSUME NEW w \in Workers, CloseFd(w) PROVE owner'[f] = owner[f]
  <2>1. held[w].fd # f
    BY <1>0, <1>3 DEF CloseFd, At, Lock, TypeOK, InFlight, Busy
  <2> QED BY <1>0, <1>3, <2>1 DEF CloseFd
<1>4. f \in deaf'
  <2>1. CASE ClientStep
    BY <2>1, ClientFrame DEF serverVars
  <2>2. CASE Dispatch \/ \E t \in Tasks : Submit(t)
    BY <2>2 DEF Dispatch, Submit
  <2>3. ASSUME NEW w \in Workers, WorkerStep(w) PROVE f \in deaf'
    <3>1. CASE Ignore(w) \/ ShortRead(w) \/ RejectRequest(w)
      BY <3>1 DEF Ignore, ShortRead, RejectRequest, Desert
    <3>2. CASE \/ Take(w) \/ Accept(w) \/ AcceptFails(w) \/ SetupFails(w)
               \/ Attach(w)
      BY <3>2 DEF Take, Accept, AcceptFails, SetupFails, Attach
    <3>3. CASE AddConnection(w) \/ Relisten(w) \/ Recv(w) \/ HandleRequest(w)
      BY <3>3 DEF AddConnection, Relisten, Recv, HandleRequest
    <3>4. CASE ReadPipe(w) \/ Send(w) \/ SendWouldBlock(w) \/ SendFails(w)
      BY <3>4 DEF ReadPipe, Send, SendWouldBlock, SendFails
    <3>5. CASE EventDone(w) \/ Detach(w) \/ Delete(w) \/ CloseFd(w)
      BY <3>5 DEF EventDone, Detach, Delete, CloseFd
    <3> QED BY <2>3, <3>1, <3>2, <3>3, <3>4, <3>5 DEF WorkerStep
  <2> QED BY <2>1, <2>2, <2>3 DEF Next
<1> QED BY <1>2, <1>3, <1>4, Frame

(* With a task per descriptor at most, and one of them still in the        *)
(* reactor's hands, a queue with room for all of them is not full.         *)
LEMMA NoRefusal ==
  ASSUME Lock, Roomy, NEW t \in Tasks, Submit(t)
  PROVE  ~(Len(queue) >= MaxTasks)
<1> DEFINE Others == AllFds \ {t.fd}
           FdAt == [i \in 1..Len(queue) |-> queue[i].fd]
<1>0. /\ t \in batch /\ t.fd \in AllFds /\ Distinct /\ queue \in Seq(Tasks)
      /\ Len(queue) \in Nat /\ MaxTasks \in Nat
  BY ServerAssumption DEF Submit, Lock, TypeOK, Tasks
<1>1. IsFiniteSet(AllFds) /\ Cardinality(AllFds) \in Nat
  <2>1. IsFiniteSet(AllFds)
    BY FdsAssumption, FS_AddElement DEF AllFds
  <2> QED BY <2>1, FS_CardinalityType
<1>2. IsFiniteSet(Others) /\ Cardinality(Others) = Cardinality(AllFds) - 1
  BY <1>0, <1>1, FS_RemoveElement
<1>3. IsFiniteSet(1..Len(queue)) /\ Cardinality(1..Len(queue)) = Len(queue)
  <2>1. 1 \in Int /\ Len(queue) \in Int
    BY <1>0
  <2>2. Cardinality(1..Len(queue)) = IF 1 > Len(queue) THEN 0 ELSE Len(queue) - 1 + 1
    BY <2>1, FS_Interval
  <2>3. IsFiniteSet(1..Len(queue))
    BY <2>1, FS_Interval
  <2>4. ASSUME NEW n \in Nat PROVE (IF 1 > n THEN 0 ELSE n - 1 + 1) = n
    BY <2>4
  <2>5. Cardinality(1..Len(queue)) = Len(queue)
    BY <1>0, <2>2, <2>4
  <2> QED BY <2>3, <2>5
<1>4. FdAt \in [1..Len(queue) -> Others]
  <2>1. ASSUME NEW i \in 1..Len(queue) PROVE queue[i].fd \in Others
    <3>1. queue[i] \in Tasks
      BY <1>0
    <3>2. queue[i].fd # t.fd
      BY <1>0 DEF Distinct
    <3> QED BY <3>1, <3>2 DEF Tasks
  <2> QED BY <2>1
<1>5. SUFFICES ASSUME Len(queue) >= MaxTasks PROVE FALSE
  OBVIOUS
<1>6. Cardinality(Others) < Cardinality(1..Len(queue))
  BY <1>0, <1>1, <1>2, <1>3, <1>5 DEF Roomy
<1> HIDE DEF Others, FdAt
<1>7. \E i, k \in 1..Len(queue) : i # k /\ FdAt[i] = FdAt[k]
  BY <1>2, <1>3, <1>4, <1>6, FS_PigeonHole
<1> QED BY <1>0, <1>7 DEF Distinct, FdAt

(* A descriptor in flight after a step keeps its connection.               *)
LEMMA OwnerKept ==
  ASSUME Lock, Next, NEW f \in Fds, InFlight(f)', InFlight(f) \/ f \in Ready
  PROVE  owner'[f] = owner[f] /\ owner[f] \in Conns
<1>0. owner \in [Fds -> Conns \cup {None}] /\ Free
  BY DEF Lock, TypeOK
<1>1. owner[f] \in Conns
  BY <1>0 DEF Free, Ready, Armed
<1>2. ASSUME NEW w \in Workers, Accept(w) PROVE owner'[f] = owner[f]
  BY <1>0, <1>1, <1>2, ServerAssumption DEF Accept
<1>3. ASSUME NEW w \in Workers, CloseFd(w) PROVE owner'[f] = owner[f]
  <2>1. Return(w) /\ UNCHANGED batch
    BY <1>3 DEF CloseFd
  <2>2. held[w].fd # f
    BY <2>1, ReturnFrees DEF AllFds
  <2> QED BY <1>0, <1>3, <2>2 DEF CloseFd
<1> QED BY <1>1, <1>2, <1>3, Frame

(* The steps that may change what clients have sent or received.           *)
LEMMA TalkFrame ==
  ASSUME Next
  PROVE  /\ \/ UNCHANGED sent
            \/ \E c \in Conns, k \in Kinds, part \in BOOLEAN : Request(c, k, part)
         /\ \/ UNCHANGED got
            \/ \E w \in Workers : Send(w)
         /\ \/ UNCHANGED torn
            \/ \E w \in Workers : ShortRead(w)
<1>1. CASE ClientStep
  BY <1>1 DEF ClientStep, Connect, Request, Rest, Close, Reset
<1>2. CASE Dispatch \/ \E t \in Tasks : Submit(t)
  BY <1>2 DEF Dispatch, Submit, clientVars
<1>3. ASSUME NEW w \in Workers, WorkerStep(w)
      PROVE  /\ UNCHANGED sent /\ (UNCHANGED got \/ Send(w))
             /\ UNCHANGED torn \/ ShortRead(w)
  <2>1. CASE Take(w) \/ Ignore(w) \/ AcceptFails(w) \/ RejectRequest(w)
    BY <2>1 DEF Take, Ignore, AcceptFails, RejectRequest, clientVars
  <2>2. CASE Accept(w) \/ SetupFails(w) \/ Recv(w) \/ ShortRead(w) \/ Send(w)
    BY <2>2 DEF Accept, SetupFails, Recv, ShortRead, Send
  <2>3. CASE Attach(w) \/ Detach(w) \/ AddConnection(w) \/ Delete(w)
    BY <2>3 DEF Attach, Detach, AddConnection, Delete, clientVars
  <2>4. CASE Relisten(w) \/ EventDone(w) \/ CloseFd(w)
    BY <2>4 DEF Relisten, EventDone, CloseFd, clientVars
  <2>5. CASE HandleRequest(w) \/ ReadPipe(w)
    BY <2>5 DEF HandleRequest, ReadPipe, clientVars
  <2>6. CASE SendWouldBlock(w) \/ SendFails(w)
    BY <2>6 DEF SendWouldBlock, SendFails, clientVars
  <2> QED BY <1>3, <2>1, <2>2, <2>3, <2>4, <2>5, <2>6 DEF WorkerStep
<1> QED BY <1>1, <1>2, <1>3 DEF Next

(* A client's past and a reset do not go away.                             *)
LEMMA Remembered ==
  ASSUME Lock, Next, NEW c \in Conns
  PROVE  /\ \A n \in 1..MaxReqs, k \in Kinds : Sent(c, n, k) => Sent(c, n, k)'
         /\ peer[c] = "reset" => peer'[c] = "reset"
         /\ c \in torn => c \in torn'
         /\ Culprit(c) => Culprit(c)'
<1>0. /\ sent \in [Conns -> Seq(Kinds)]
      /\ peer \in [Conns -> {"new", "open", "closed", "reset"}]
      /\ backlog \in Seq(Conns)
  BY DEF Lock, TypeOK
<1>1. ASSUME NEW n \in 1..MaxReqs, NEW k, Sent(c, n, k)
      PROVE  Sent(c, n, k)'
  <2>1. ASSUME NEW d \in Conns, NEW j \in Kinds, NEW part \in BOOLEAN,
               Request(d, j, part)
        PROVE  Sent(c, n, k)'
    <3>1. sent' = [sent EXCEPT ![d] = Append(@, j)]
      BY <2>1 DEF Request
    <3>2. sent[c] \in Seq(Kinds) /\ Len(sent[c]) \in Nat
      BY <1>0
    <3>3. sent'[c] = sent[c] \/ sent'[c] = Append(sent[c], j)
      BY <1>0, <3>1
    <3>4. n \in 1..Len(sent[c])
      BY <1>1, <3>2 DEF Sent
    <3>5. sent'[c][n] = sent[c][n] /\ n <= Len(sent'[c])
      BY <3>2, <3>3, <3>4
    <3> QED BY <1>1, <3>5 DEF Sent
  <2> QED BY <1>1, <2>1, TalkFrame DEF Sent
<1>2. ASSUME peer[c] = "reset" PROVE peer'[c] = "reset"
  <2>1. ASSUME NEW d \in Conns, Connect(d) \/ Close(d) \/ Reset(d)
        PROVE  peer'[c] = "reset"
    BY <1>0, <1>2, <2>1 DEF Connect, Close, Reset
  <2>2. ASSUME NEW w \in Workers, SetupFails(w) PROVE peer'[c] = "reset"
    BY <1>0, <1>2, <2>2 DEF SetupFails
  <2> QED BY <1>2, <2>1, <2>2, Frame
<1>3. torn \subseteq torn'
  BY TalkFrame DEF ShortRead
<1>4. ASSUME Culprit(c) PROVE Culprit(c)'
  <2>1. CASE \E n \in 1..MaxReqs : Sent(c, n, "bad")
    BY <1>1, <2>1 DEF Culprit
  <2> QED BY <1>2, <1>3, <1>4, <2>1 DEF Culprit
<1> QED BY <1>1, <1>2, <1>3, <1>4

(* A request stays genuine.                                                *)
LEMMA GenuineStep ==
  ASSUME Lock, Next, NEW m \in Messages, Genuine(sent, m)
  PROVE  Genuine(sent', m)
<1>1. m.conn \in Conns /\ m.seq \in 1..MaxReqs
  BY DEF Messages
<1>2. Sent(m.conn, m.seq, m.kind) /\ m.kind \in Kinds
  BY DEF Genuine, Sent, Messages
<1> QED BY <1>1, <1>2, Remembered DEF Genuine, Sent

(* Requests come from their connection's client.                           *)
LEMMA OriginsStep == Events /\ Origins /\ Next => Origins'
<1> SUFFICES ASSUME Events, Origins, Next PROVE Origins'
  OBVIOUS
<1>0. /\ Lock /\ Labels
      /\ sent \in [Conns -> Seq(Kinds)]
      /\ stream \in [Conns -> Seq(Messages)]
      /\ held \in [Workers -> Tasks \cup {None}]
      /\ pc \in [Workers -> PCs]
      /\ loc \in [Workers -> Messages \cup Fds \cup {None}]
      /\ owner \in [Fds -> Conns \cup {None}]
      /\ \A w \in Workers : pc[w] = "idle" <=> held[w] = None
  BY DEF Events, Lock, TypeOK
<1>1. ASSUME NEW c \in Conns, NEW i \in 1..Len(stream'[c])
      PROVE  stream'[c][i].conn = c /\ Genuine(sent', stream'[c][i])
  <2>1. stream[c] \in Seq(Messages) /\ Len(stream[c]) \in Nat
    BY <1>0
  <2>2. ASSUME NEW k \in 1..Len(stream[c])
        PROVE  stream[c][k].conn = c /\ Genuine(sent', stream[c][k])
    BY <1>0, <2>1, GenuineStep DEF Origins
  <2>3. CASE stream'[c] = stream[c]
    BY <2>2, <2>3
  <2>4. ASSUME NEW k \in Kinds, NEW part \in BOOLEAN, Request(c, k, part)
        PROVE  stream'[c][i].conn = c /\ Genuine(sent', stream'[c][i])
    <3> DEFINE m == [conn |-> c, seq |-> Len(sent[c]) + 1, kind |-> k]
    <3>1. /\ stream'[c] = Append(stream[c], m) /\ sent'[c] = Append(sent[c], k)
          /\ sent[c] \in Seq(Kinds) /\ Len(sent[c]) \in Nat
      BY <1>0, <2>4 DEF Request
    <3>2. Len(sent'[c]) = Len(sent[c]) + 1 /\ sent'[c][Len(sent[c]) + 1] = k
      BY <3>1
    <3>3. m.conn = c /\ m.seq = Len(sent[c]) + 1 /\ m.kind = k
      OBVIOUS
    <3>4. Genuine(sent', m)
      BY <3>1, <3>2, <3>3 DEF Genuine
    <3> HIDE DEF m
    <3>5. \/ i = Len(stream[c]) + 1 /\ stream'[c][i] = m
          \/ i \in 1..Len(stream[c]) /\ stream'[c][i] = stream[c][i]
      BY <1>1, <2>1, <3>1
    <3> QED BY <2>2, <3>3, <3>4, <3>5
  <2>5. ASSUME NEW d \in Conns, NEW k \in Kinds, NEW part \in BOOLEAN,
               Request(d, k, part), d # c
        PROVE  stream'[c] = stream[c]
    BY <1>0, <2>5 DEF Request
  <2>6. ASSUME NEW w \in Workers, Recv(w)
        PROVE  \/ stream'[c] = stream[c]
               \/ stream[c] # <<>> /\ stream'[c] = Tail(stream[c])
    BY <1>0, <2>6 DEF Recv
  <2>7. ASSUME stream[c] # <<>>, stream'[c] = Tail(stream[c])
        PROVE  stream'[c][i].conn = c /\ Genuine(sent', stream'[c][i])
    <3>1. i + 1 \in 1..Len(stream[c]) /\ stream'[c][i] = stream[c][i + 1]
      BY <1>1, <2>1, <2>7
    <3> QED BY <2>2, <3>1
  <2>8. ASSUME NEW w \in Workers, ShortRead(w)
        PROVE  stream'[c] = stream[c]
    <3>1. stream'[c] = stream[c] \/ stream'[c] = <<>>
      BY <1>0, <2>8 DEF ShortRead
    <3> QED BY <1>1, <3>1
  <2> QED BY <2>3, <2>4, <2>5, <2>6, <2>7, <2>8, Frame
<1>2. ASSUME NEW w \in Workers, pc'[w] = "handle"
      PROVE  loc'[w].conn = owner'[held'[w].fd] /\ Genuine(sent', loc'[w])
  <2>1. CASE pc[w] = "handle" /\ held'[w] = held[w] /\ loc'[w] = loc[w]
    <3>1. /\ loc[w] \in Messages /\ held[w] # None /\ held[w].fd \in Fds
          /\ loc[w].conn = owner[held[w].fd] /\ Genuine(sent, loc[w])
      BY <1>0, <2>1 DEF Labels, Origins
    <3>2. PICK f \in Fds : f = held[w].fd
      BY <3>1
    <3>3. InFlight(f) /\ InFlight(f)'
      BY <2>1, <3>1, <3>2 DEF InFlight, Busy
    <3>4. owner'[f] = owner[f]
      BY <1>0, <3>3, OwnerKept
    <3> QED BY <1>0, <2>1, <3>1, <3>2, <3>4, GenuineStep
  <2>2. CASE Recv(w) /\ pc[w] # "handle"
    <3>1. held[w] # None /\ held[w].fd # ListenFd
      BY <1>0, <2>2 DEF Recv, Event, At
    <3>2. held[w].fd \in Fds /\ owner[held[w].fd] \in Conns
      BY <1>0, <3>1, OwnerOfTask
    <3>3. PICK c \in Conns : c = owner[held[w].fd]
      BY <3>2
    <3>4. /\ stream[c] # <<>> /\ loc'[w] = Head(stream[c])
          /\ held' = held /\ owner' = owner
      BY <1>0, <2>2, <3>3 DEF Recv, Goto
    <3>5. stream[c] \in Seq(Messages)
      BY <1>0
    <3>6. /\ 1 \in 1..Len(stream[c]) /\ loc'[w] = stream[c][1]
          /\ stream[c][1] \in Messages
      BY <3>4, <3>5
    <3>7. stream[c][1].conn = c /\ Genuine(sent, stream[c][1])
      BY <3>6 DEF Origins
    <3>8. Genuine(sent', stream[c][1])
      BY <1>0, <3>6, <3>7, GenuineStep
    <3> QED BY <3>3, <3>4, <3>6, <3>7, <3>8
  <2>3. CASE UNCHANGED <<held, pc, loc>>
    BY <1>2, <2>1, <2>3
  <2>4. ClientStep \/ Dispatch \/ (\E t \in Tasks : Submit(t)) => UNCHANGED <<held, pc, loc>>
    BY ClientFrame DEF serverVars, Dispatch, Submit, Pool!Offer
  <2>5. ASSUME NEW v \in Workers, WorkerStep(v), v # w
        PROVE  loc'[w].conn = owner'[held'[w].fd] /\ Genuine(sent', loc'[w])
    BY <1>0, <1>2, <2>1, <2>5, OthersStay
  <2>6. CASE WorkerStep(w)
    <3>1. ~Take(w)
      BY <1>0, <1>2 DEF Take
    <3>2. Return(w) => FALSE
      BY <1>0, <1>2 DEF Return
    <3>3. /\ ~Ignore(w) /\ ~Relisten(w) /\ ~ShortRead(w) /\ ~RejectRequest(w)
          /\ ~EventDone(w) /\ ~CloseFd(w)
      BY <3>2 DEF Ignore, Relisten, ShortRead, RejectRequest, EventDone, CloseFd,
                  Desert
    <3>4. /\ ~Accept(w) /\ ~AcceptFails(w) /\ ~SetupFails(w) /\ ~Attach(w)
          /\ ~AddConnection(w)
      BY <1>0, <1>2 DEF Accept, AcceptFails, SetupFails, Attach, AddConnection,
                        Goto
    <3>5. ~HandleRequest(w) /\ ~Detach(w) /\ ~Delete(w)
      BY <1>0, <1>2 DEF HandleRequest, Detach, Delete, Goto
    <3>6. ~Send(w) /\ ~SendWouldBlock(w)
      BY <1>0, <1>2 DEF Send, SendWouldBlock, Goto
    <3>7. Recv(w) => pc[w] # "handle"
      BY DEF Recv, Event, At
    <3>8. SendFails(w) => UNCHANGED <<held, pc, loc>>
      BY DEF SendFails
    <3>9. CASE ReadPipe(w)
      <4>1. pipe[held[w].fd] = <<>>
        BY <1>0, <1>2, <3>9 DEF ReadPipe, Goto
      <4> QED BY <2>3, <3>9, <4>1 DEF ReadPipe
    <3> QED
      BY <2>2, <2>3, <2>6, <3>1, <3>3, <3>4, <3>5, <3>6, <3>7, <3>8, <3>9
      DEF WorkerStep
  <2> QED BY <2>3, <2>4, <2>5, <2>6 DEF Next
<1> QED BY <1>1, <1>2 DEF Origins

(* A reset is reported of a connection that keeps its descriptor.          *)
LEMMA ResetsStep == Events /\ Resets /\ Next => Resets'
<1> SUFFICES ASSUME Events, Resets, Next,
                    NEW t \in Tasks, Reported(t)', t.type = "NONE"
             PROVE  t.fd \in Fds /\ peer'[owner'[t.fd]] = "reset"
  BY DEF Resets
<1>0. Lock /\ Free /\ AllFds = Fds \cup {ListenFd}
  BY DEF Events, Lock, AllFds
<1>1. t.fd \in AllFds /\ InFlight(t.fd)'
  <2>1. t.fd \in AllFds /\ t # None
    BY NoneAssumption DEF Tasks
  <2> QED BY <2>1 DEF Reported, InFlight, Busy
<1>2. /\ t.fd \in Fds /\ peer[owner[t.fd]] = "reset"
      /\ InFlight(t.fd) \/ t.fd \in Ready
  <2>1. CASE Reported(t)
    BY <2>1, <1>0, ReportedAlone DEF Resets
  <2>2. CASE t.fd \in Ready /\ t.type = EventOf(t.fd)
    BY <1>0, <1>1, <2>2 DEF EventOf
  <2> QED BY <1>0, <2>1, <2>2, ReportedStep
<1>3. owner'[t.fd] = owner[t.fd] /\ owner[t.fd] \in Conns
  BY <1>0, <1>1, <1>2, OwnerKept
<1> QED BY <1>0, <1>2, <1>3, Remembered

(* Culprit in the next state, of a connection that may be named by a       *)
(* primed variable.                                                        *)
CulpritNext(c) ==
  \/ peer'[c] = "reset"
  \/ c \in torn'
  \/ \E n \in 1..MaxReqs : n <= Len(sent'[c]) /\ sent'[c][n] = "bad"

LEMMA CulpritKept ==
  ASSUME Lock, Next, NEW c \in Conns, Culprit(c)
  PROVE  CulpritNext(c)
BY Remembered DEF Culprit, CulpritNext, Sent

(* Whoever goes deaf has earned it.                                        *)
LEMMA BlamedStep == Contained /\ Next => Blamed'
<1> SUFFICES ASSUME Contained, Next, Roomy, NEW f \in deaf'
             PROVE  f \in Fds /\ owner'[f] # None /\ CulpritNext(owner'[f])
  BY DEF Blamed, Roomy, Culprit, CulpritNext, Sent
<1>0. /\ Events /\ Lock /\ Labels /\ Pending /\ Attached /\ Off /\ Origins
      /\ Resets /\ Blamed
      /\ owner \in [Fds -> Conns \cup {None}]
      /\ held \in [Workers -> Tasks \cup {None}]
      /\ stream \in [Conns -> Seq(Messages)]
      /\ cut \in [Conns -> BOOLEAN]
      /\ torn \subseteq Conns
      /\ \A w \in Workers : pc[w] = "idle" <=> held[w] = None
      /\ None \notin Conns /\ ListenFd \notin Fds
  BY ServerAssumption DEF Contained, Events, Lock, TypeOK
<1>1. CASE f \in deaf
  <2>1. f \in Fds /\ owner[f] \in Conns /\ Culprit(owner[f])
    BY <1>0, <1>1 DEF Blamed
  <2>2. owner'[f] = owner[f]
    BY <1>0, <1>1, <2>1, DeafStays
  <2>3. CulpritNext(owner[f])
    <3>1. PICK c \in Conns : c = owner[f]
      BY <2>1
    <3>2. CulpritNext(c)
      BY <1>0, <2>1, <3>1, CulpritKept
    <3> QED BY <2>2, <3>1, <3>2
  <2> QED BY <1>0, <2>1, <2>2, <2>3
<1>2. ASSUME NEW w \in Workers, f = held[w].fd, UNCHANGED owner,
             pc[w] # "idle", f # ListenFd, NEW c \in Conns, c = owner[f],
             CulpritNext(c)
      PROVE  f \in Fds /\ owner'[f] # None /\ CulpritNext(owner'[f])
  BY <1>0, <1>2, OwnerOfTask
<1>3. ASSUME NEW w \in Workers, Ignore(w), f = held[w].fd
      PROVE  f \in Fds /\ owner'[f] # None /\ CulpritNext(owner'[f])
  <2>1. /\ pc[w] = "start" /\ held[w].type \notin handlers[held[w].fd]
        /\ held[w] \in Tasks /\ held[w] # None /\ UNCHANGED owner
    BY <1>0, <1>3 DEF Ignore, At
  <2>2. held[w].type = "NONE" /\ Reported(held[w])
    BY <1>0, <2>1, EventsFindHandler DEF HandlerFound, Reported
  <2>3. f \in Fds /\ peer[owner[f]] = "reset"
    BY <1>0, <1>3, <2>1, <2>2 DEF Resets
  <2>4. owner[f] \in Conns
    BY <1>0, <1>3, <2>1, <2>3, OwnerOfTask
  <2>5. CulpritNext(owner[f])
    <3>1. PICK c \in Conns : c = owner[f]
      BY <2>4
    <3>2. CulpritNext(c)
      BY <1>0, <2>3, <3>1, CulpritKept DEF Culprit
    <3> QED BY <2>1, <3>1, <3>2
  <2> QED BY <1>0, <2>1, <2>3, <2>4, <2>5
<1>4. ASSUME NEW w \in Workers, ShortRead(w), f = held[w].fd
      PROVE  f \in Fds /\ owner'[f] # None /\ CulpritNext(owner'[f])
  <2>1. /\ pc[w] = "start" /\ held[w].type = "READ" /\ f # ListenFd
        /\ held[w] \in Tasks /\ held[w] # None /\ UNCHANGED owner
    BY <1>0, <1>4 DEF ShortRead, Event, At
  <2>2. f \in Fds /\ owner[f] \in Conns
    BY <1>0, <1>4, <2>1, OwnerOfTask
  <2>3. PICK c \in Conns : c = owner[f]
    BY <2>2
  <2>4. stream[c] # <<>>
    <3>1. Reported(held[w])
      BY <2>1 DEF Reported
    <3> QED BY <1>0, <1>4, <2>1, <2>3, <3>1 DEF Pending
  <2>5. c \in torn'
    <3>1. stream[c] = <<>> \/ (Len(stream[c]) = 1 /\ cut[c])
      BY <1>4, <2>3 DEF ShortRead
    <3>2. torn' = IF cut[c] THEN torn \cup {c} ELSE torn
      BY <1>4, <2>3 DEF ShortRead
    <3> QED BY <2>4, <3>1, <3>2
  <2>6. CulpritNext(c)
    BY <2>5 DEF CulpritNext
  <2> QED BY <1>2, <1>4, <2>1, <2>3, <2>6, <1>0
<1>5. ASSUME NEW w \in Workers, RejectRequest(w), f = held[w].fd
      PROVE  f \in Fds /\ owner'[f] # None /\ CulpritNext(owner'[f])
  <2>1. /\ pc[w] = "handle" /\ loc[w].kind = "bad" /\ UNCHANGED owner
    BY <1>5 DEF RejectRequest, At
  <2>2. f \in Fds /\ f # ListenFd /\ loc[w] \in Messages /\ held[w] # None
    BY <1>0, <1>5, <2>1 DEF Labels
  <2>3. owner[f] \in Conns
    BY <1>0, <1>5, <2>2, OwnerOfTask
  <2>4. PICK c \in Conns : c = owner[f]
    BY <2>3
  <2>5. loc[w].conn = c /\ Genuine(sent, loc[w])
    BY <1>0, <1>5, <2>1, <2>4 DEF Origins
  <2>6. /\ loc[w].seq \in 1..MaxReqs /\ Sent(c, loc[w].seq, "bad")
    BY <2>1, <2>2, <2>5 DEF Genuine, Sent, Messages
  <2>7. Culprit(c)
    BY <2>6 DEF Culprit
  <2>8. CulpritNext(c)
    BY <1>0, <2>7, CulpritKept
  <2> QED BY <1>0, <1>2, <1>5, <2>1, <2>2, <2>4, <2>8
<1> QED BY <1>0, <1>1, <1>3, <1>4, <1>5, NewlyDeaf, NoRefusal

-----------------------------------------------------------------------------
(* Deafness: theorem.                                                      *)

(* The early returns of HandleReadEvent and HandleEvent, and the result of *)
(* AddTask that Reactor::Run ignores, cost no connection but that of the   *)
(* client whose request was rejected or cut in two, or whose connection    *)
(* was reset, if the queue has room for a task of every descriptor.        *)
THEOREM FaultsStayAtHome == Spec => []DeafByOwnFault
<1>1. Init => Off /\ Origins /\ Resets /\ Blamed
  <2> SUFFICES ASSUME Init PROVE Off /\ Origins /\ Resets /\ Blamed
    OBVIOUS
  <2>1. \A f \in AllFds : ~InFlight(f)
    BY DEF Init, InFlight, Busy, Pool!PoolInit
  <2>2. \A t : ~Reported(t)
    BY DEF Init, Reported, Pool!PoolInit
  <2>3. \A c \in Conns : Len(stream[c]) = 0
    BY DEF Init
  <2>4. deaf = {} /\ \A w \in Workers : pc[w] = "idle"
    BY DEF Init
  <2> QED BY <2>1, <2>2, <2>3, <2>4 DEF Off, Origins, Resets, Blamed
<1>2. Contained /\ [Next]_vars /\ Events' => Contained'
  <2> SUFFICES ASSUME Contained, [Next]_vars, Events' PROVE Contained'
    OBVIOUS
  <2>1. CASE Next
    BY <2>1, OffStep, OriginsStep, ResetsStep, BlamedStep
    DEF Contained, Events
  <2>2. CASE UNCHANGED vars
    <3>1. Off' /\ Resets'
      BY <2>2 DEF Contained, Off, Resets, Reported, InFlight, Busy, vars,
                  clientVars, serverVars
    <3>2. Origins' /\ Blamed'
      BY <2>2 DEF Contained, Origins, Genuine, Blamed, Culprit, Sent, vars,
                  clientVars, serverVars
    <3> QED BY <3>1, <3>2 DEF Contained
  <2> QED BY <2>1, <2>2
<1>3. Contained => DeafByOwnFault
  BY ServerAssumption
  DEF Contained, Events, NoOrphan, Blamed, Roomy, DeafByOwnFault
<1> QED BY <1>1, <1>2, <1>3, EventsInvariant, PTL DEF Spec, Contained

-----------------------------------------------------------------------------
(* No call is lost, and the refinement.                                    *)

(* Sequences of requests may be joined in any order.                       *)
Joins(s, t, u) == (s \o t) \o u = s \o (t \o u)

LEMMA Associative == \A s, t, u \in Seq(Messages) : Joins(s, t, u)
BY ConcatAssociative DEF Joins

-----------------------------------------------------------------------------
(* Induction over the naturals, stated of sets rather than predicates.     *)

(* Every set of naturals has a least element.                              *)
LEMMA LeastNatural ==
  ASSUME NEW S \in SUBSET Nat, S # {}
  PROVE  \E n \in S : \A m \in S : n <= m
<1>1. PICK n \in S : \A m \in S : <<m, n>> \notin OpToRel(<, Nat)
  BY WFMin, NatLessThanWellFounded
<1>2. \A m \in S : ~(m < n)
  BY <1>1 DEF OpToRel
<1> QED BY <1>2

(* A set with 0 and every successor holds all naturals.                    *)
LEMMA SetInduction ==
  ASSUME NEW S \in SUBSET Nat, 0 \in S, \A n \in S : n + 1 \in S
  PROVE  \A n \in Nat : n \in S
<1> DEFINE R == Nat \ S
<1>1. SUFFICES ASSUME R # {} PROVE FALSE
  OBVIOUS
<1>2. R \in SUBSET Nat
  OBVIOUS
<1> HIDE DEF R
<1>3. PICK n \in R : \A m \in R : n <= m
  BY <1>1, <1>2, LeastNatural
<1>4. n \in Nat /\ n # 0 /\ n - 1 \notin R
  BY <1>3 DEF R
<1>5. n - 1 \in S
  BY <1>4 DEF R
<1> QED BY <1>3, <1>4, <1>5 DEF R

-----------------------------------------------------------------------------
(* What CallsIn computes.                                                  *)

(* g[i] holds the calls among the first i requests of s.                   *)
Scan(s, n, g) ==
  /\ g \in [0..n -> Seq(Messages)]
  /\ g[0] = <<>>
  /\ \A i \in 1..n :
       g[i] = IF s[i].kind = "call" THEN Append(g[i - 1], s[i]) ELSE g[i - 1]

(* The recursion is well founded.                                          *)
LEMMA ScanExists ==
  ASSUME NEW s \in Seq(Messages)
  PROVE  \E g : Scan(s, Len(s), g)
<1> DEFINE S == {n \in Nat : n <= Len(s) => \E g : Scan(s, n, g)}
<1>0. Len(s) \in Nat /\ \A i \in 1..Len(s) : s[i] \in Messages
  OBVIOUS
<1>1. 0 \in S
  <2>1. Scan(s, 0, [i \in 0..0 |-> <<>>])
    BY DEF Scan
  <2> QED BY <2>1
<1>2. ASSUME NEW n \in S PROVE n + 1 \in S
  <2>1. SUFFICES ASSUME n + 1 <= Len(s) PROVE \E g : Scan(s, n + 1, g)
    OBVIOUS
  <2>2. PICK g : Scan(s, n, g)
    BY <1>0, <2>1
  <2> DEFINE v == IF s[n + 1].kind = "call" THEN Append(g[n], s[n + 1]) ELSE g[n]
  <2> DEFINE h == [i \in 0..(n + 1) |-> IF i = n + 1 THEN v ELSE g[i]]
  <2>3. n \in Nat /\ g \in [0..n -> Seq(Messages)]
    BY <2>2 DEF Scan
  <2>4. v \in Seq(Messages)
    <3>1. s[n + 1] \in Messages /\ g[n] \in Seq(Messages)
      BY <1>0, <2>1, <2>3
    <3>2. Append(g[n], s[n + 1]) \in Seq(Messages)
      BY <3>1
    <3> QED BY <3>1, <3>2
  <2> HIDE DEF v
  <2>5. h \in [0..(n + 1) -> Seq(Messages)] /\ h[0] = <<>>
    BY <2>2, <2>3, <2>4 DEF Scan
  <2>6. ASSUME NEW i \in 1..(n + 1)
        PROVE  h[i] = IF s[i].kind = "call" THEN Append(h[i - 1], s[i])
                      ELSE h[i - 1]
    <3>1. CASE i = n + 1
      <4>1. h[i] = v /\ h[i - 1] = g[n]
        BY <2>3, <3>1
      <4> QED BY <3>1, <4>1 DEF v
    <3>2. CASE i # n + 1
      <4>1. i \in 1..n /\ h[i] = g[i] /\ h[i - 1] = g[i - 1]
        BY <2>3, <3>2
      <4> HIDE DEF h
      <4> QED BY <2>2, <4>1 DEF Scan
    <3> QED BY <3>1, <3>2
  <2> HIDE DEF h
  <2>7. Scan(s, n + 1, h)
    BY <2>5, <2>6 DEF Scan
  <2> QED BY <2>7
<1> HIDE DEF S
<1>3. S \in SUBSET Nat
  BY DEF S
<1>4. Len(s) \in S
  BY <1>0, <1>1, <1>2, <1>3, SetInduction
<1> QED BY <1>0, <1>4 DEF S

(* Two scans of the same requests agree.                                   *)
LEMMA ScanUnique ==
  ASSUME NEW s, NEW n \in Nat, NEW g, NEW h, Scan(s, n, g), Scan(s, n, h)
  PROVE  g[n] = h[n]
<1> DEFINE S == {m \in Nat : m <= n => g[m] = h[m]}
<1>1. 0 \in S
  BY DEF Scan
<1>2. ASSUME NEW m \in S PROVE m + 1 \in S
  <2>1. SUFFICES ASSUME m + 1 <= n PROVE g[m + 1] = h[m + 1]
    OBVIOUS
  <2>2. g[m] = h[m] /\ m + 1 \in 1..n /\ (m + 1) - 1 = m
    BY <2>1
  <2> QED BY <2>2 DEF Scan
<1> HIDE DEF S
<1>3. S \in SUBSET Nat
  BY DEF S
<1>4. n \in S
  BY <1>1, <1>2, <1>3, SetInduction
<1> QED BY <1>4 DEF S

(* CallsIn is what any scan ends with.                                     *)
LEMMA CallsInScan ==
  ASSUME NEW s \in Seq(Messages), NEW g, Scan(s, Len(s), g)
  PROVE  CallsIn(s) = g[Len(s)]
<1>0. Len(s) \in Nat
  OBVIOUS
<1> DEFINE F == CHOOSE f : f = [i \in 0..Len(s) |->
                  IF i = 0 THEN <<>>
                  ELSE IF s[i].kind = "call" THEN Append(f[i - 1], s[i])
                  ELSE f[i - 1]]
<1>1. CallsIn(s) = F[Len(s)]
  BY DEF CallsIn
<1>2. g = [i \in 0..Len(s) |->
             IF i = 0 THEN <<>>
             ELSE IF s[i].kind = "call" THEN Append(g[i - 1], s[i])
             ELSE g[i - 1]]
  <2>1. g = [i \in 0..Len(s) |-> g[i]]
    BY DEF Scan
  <2>2. ASSUME NEW i \in 0..Len(s)
        PROVE  g[i] = IF i = 0 THEN <<>>
                      ELSE IF s[i].kind = "call" THEN Append(g[i - 1], s[i])
                      ELSE g[i - 1]
    <3>1. i = 0 \/ i \in 1..Len(s)
      BY <1>0
    <3> QED BY <3>1 DEF Scan
  <2> QED BY <2>1, <2>2, Zenon
<1>3. F = [i \in 0..Len(s) |->
             IF i = 0 THEN <<>>
             ELSE IF s[i].kind = "call" THEN Append(F[i - 1], s[i])
             ELSE F[i - 1]]
  BY <1>2
<1> HIDE DEF F
<1> DEFINE S == {m \in Nat : m <= Len(s) => F[m] = g[m]}
<1>4. 0 \in S
  <2>1. 0 \in 0..Len(s)
    BY <1>0
  <2>2. F[0] = <<>>
    BY <1>3, <2>1, Zenon
  <2> QED BY <2>2 DEF Scan
<1>5. ASSUME NEW m \in S PROVE m + 1 \in S
  <2>1. SUFFICES ASSUME m + 1 <= Len(s) PROVE F[m + 1] = g[m + 1]
    OBVIOUS
  <2>2. /\ F[m] = g[m] /\ m + 1 \in 1..Len(s) /\ (m + 1) - 1 = m
        /\ m + 1 \in 0..Len(s) /\ m + 1 # 0
    BY <1>0, <2>1
  <2>3. F[m + 1] = IF s[m + 1].kind = "call"
                   THEN Append(F[(m + 1) - 1], s[m + 1]) ELSE F[(m + 1) - 1]
    BY <1>3, <2>2, Zenon
  <2>4. g[m + 1] = IF s[m + 1].kind = "call"
                   THEN Append(g[(m + 1) - 1], s[m + 1]) ELSE g[(m + 1) - 1]
    BY <2>2, Zenon DEF Scan
  <2> QED BY <2>2, <2>3, <2>4
<1> HIDE DEF S
<1>6. S \in SUBSET Nat
  BY DEF S
<1>7. Len(s) \in S
  BY <1>0, <1>4, <1>5, <1>6, SetInduction
<1> QED BY <1>0, <1>1, <1>7 DEF S

(* There are no calls among no requests.                                   *)
LEMMA CallsInEmpty == CallsIn(<<>>) = <<>>
<1>1. <<>> \in Seq(Messages) /\ Len(<<>>) = 0
  OBVIOUS
<1>2. PICK g : Scan(<<>>, 0, g)
  BY <1>1, ScanExists
<1>3. CallsIn(<<>>) = g[0]
  BY <1>1, <1>2, CallsInScan
<1> QED BY <1>2, <1>3 DEF Scan

(* Some of the requests are calls.                                         *)
LEMMA CallsInType ==
  ASSUME NEW s \in Seq(Messages)
  PROVE  CallsIn(s) \in Seq(Messages)
<1>1. PICK g : Scan(s, Len(s), g)
  BY ScanExists
<1>2. CallsIn(s) = g[Len(s)] /\ Len(s) \in 0..Len(s)
  BY <1>1, CallsInScan
<1> QED BY <1>1, <1>2 DEF Scan

(* The call a request is, if it is one.                                    *)
CallIn(m) == IF m.kind = "call" THEN <<m>> ELSE <<>>

(* One more request at the end.                                            *)
LEMMA CallsInAppend ==
  ASSUME NEW s \in Seq(Messages), NEW m \in Messages
  PROVE  CallsIn(Append(s, m)) = CallsIn(s) \o CallIn(m)
<1> DEFINE n == Len(s)
<1> DEFINE t == Append(s, m)
<1>0. /\ n \in Nat /\ t \in Seq(Messages) /\ Len(t) = n + 1
      /\ \A i \in 1..n : t[i] = s[i]
      /\ t[n + 1] = m
  OBVIOUS
<1> HIDE DEF n, t
<1>1. PICK g : Scan(s, n, g)
  BY ScanExists DEF n
<1>2. PICK h : Scan(t, n + 1, h)
  BY <1>0, ScanExists
<1>3. Scan(s, n, [i \in 0..n |-> h[i]])
  <2> DEFINE k == [i \in 0..n |-> h[i]]
  <2>1. \A i \in 0..n : k[i] = h[i] /\ h[i] \in Seq(Messages)
    BY <1>0, <1>2 DEF Scan
  <2>2. k \in [0..n -> Seq(Messages)]
    BY <2>1
  <2>3. k[0] = <<>>
    BY <1>0, <1>2, <2>1 DEF Scan
  <2>4. ASSUME NEW i \in 1..n
        PROVE  k[i] = IF s[i].kind = "call" THEN Append(k[i - 1], s[i])
                      ELSE k[i - 1]
    <3>1. i \in 1..(n + 1) /\ i \in 0..n /\ i - 1 \in 0..n /\ t[i] = s[i]
      BY <1>0
    <3>2. k[i] = h[i] /\ k[i - 1] = h[i - 1]
      BY <2>1, <3>1
    <3> HIDE DEF k
    <3> QED BY <1>2, <3>1, <3>2 DEF Scan
  <2> HIDE DEF k
  <2>5. Scan(s, n, k)
    BY <2>2, <2>3, <2>4 DEF Scan
  <2> QED BY <2>5 DEF k
<1>4. CallsIn(s) = h[n]
  <2>1. CallsIn(s) = [i \in 0..n |-> h[i]][n]
    BY <1>3, CallsInScan DEF n
  <2> QED BY <1>0, <2>1
<1>5. CallsIn(t) = h[n + 1]
  BY <1>0, <1>2, CallsInScan
<1>6. h[n + 1] = IF m.kind = "call" THEN Append(h[n], m) ELSE h[n]
  <2>1. n + 1 \in 1..(n + 1) /\ (n + 1) - 1 = n
    BY <1>0
  <2> QED BY <1>0, <1>2, <2>1 DEF Scan
<1>7. h[n] \in Seq(Messages)
  BY <1>0, <1>2 DEF Scan
<1>8. Append(h[n], m) = h[n] \o <<m>> /\ h[n] \o <<>> = h[n]
  BY <1>7, AppendIsConcat, ConcatEmptySeq
<1> QED BY <1>4, <1>5, <1>6, <1>8 DEF CallIn, t

(* One request less at the front.                                          *)
LEMMA CallsInTail ==
  ASSUME NEW s \in Seq(Messages), s # <<>>
  PROVE  CallsIn(s) = CallIn(Head(s)) \o CallsIn(Tail(s))
<1> DEFINE n == Len(s)
<1> DEFINE t == Tail(s)
<1> DEFINE p == CallIn(Head(s))
<1>0. /\ n \in Nat \ {0} /\ t \in Seq(Messages) /\ Len(t) = n - 1
      /\ \A i \in 1..(n - 1) : t[i] = s[i + 1] /\ s[i + 1] \in Messages
      /\ Head(s) = s[1] /\ s[1] \in Messages
  OBVIOUS
<1>1. p \in Seq(Messages)
  BY <1>0 DEF CallIn
<1>2. PICK g : Scan(t, n - 1, g)
  BY <1>0, ScanExists
<1> HIDE DEF n, t
<1> DEFINE h == [i \in 0..n |-> IF i = 0 THEN <<>> ELSE p \o g[i - 1]]
<1>3. g \in [0..(n - 1) -> Seq(Messages)] /\ g[0] = <<>>
  BY <1>2 DEF Scan
<1>4. \A i \in 1..n : p \o g[i - 1] \in Seq(Messages) /\ h[i] = p \o g[i - 1]
  <2>1. \A i \in 1..n : g[i - 1] \in Seq(Messages)
    BY <1>0, <1>3
  <2>2. \A u \in Seq(Messages) : p \o u \in Seq(Messages)
    <3> HIDE DEF p
    <3> QED BY <1>1, ConcatProperties
  <2>3. \A i \in 1..n : h[i] = p \o g[i - 1]
    <3> HIDE DEF p
    <3> QED BY <1>0
  <2> HIDE DEF p, h
  <2> QED BY <2>1, <2>2, <2>3
<1>5. h \in [0..n -> Seq(Messages)] /\ h[0] = <<>>
  <2> HIDE DEF p
  <2>1. ASSUME NEW i \in 0..n PROVE h[i] \in Seq(Messages)
    <3>1. CASE i = 0
      BY <3>1
    <3>2. CASE i # 0
      <4>1. i \in 1..n
        BY <1>0, <3>2
      <4> QED BY <1>4, <4>1
    <3> QED BY <3>1, <3>2
  <2> QED BY <1>0, <2>1
<1>6. ASSUME NEW i \in 1..n
      PROVE  h[i] = IF s[i].kind = "call" THEN Append(h[i - 1], s[i])
                    ELSE h[i - 1]
  <2>1. CASE i = 1
    <3>1. h[i] = p \o <<>> /\ h[i - 1] = <<>> /\ s[i] = Head(s)
      <4> HIDE DEF h, p
      <4>1. i - 1 = 0
        BY <2>1
      <4> QED BY <1>0, <1>3, <1>4, <1>5, <2>1, <4>1
    <3>2. h[i] = p
      BY <1>1, <3>1, ConcatEmptySeq
    <3>3. Append(<<>>, Head(s)) = <<Head(s)>>
      OBVIOUS
    <3> HIDE DEF h
    <3> QED BY <3>1, <3>2, <3>3 DEF CallIn
  <2>2. CASE i # 1
    <3>1. /\ i - 1 \in 1..(n - 1) /\ i - 1 \in 1..n
          /\ t[i - 1] = s[i] /\ s[i] \in Messages
      <4>1. i - 1 \in 1..(n - 1) /\ i - 1 \in 1..n /\ (i - 1) + 1 = i
        BY <1>0, <2>2
      <4> QED BY <1>0, <4>1
    <3>2. h[i] = p \o g[i - 1] /\ h[i - 1] = p \o g[(i - 1) - 1]
      BY <1>4, <3>1
    <3>3. g[i - 1] = IF s[i].kind = "call" THEN Append(g[(i - 1) - 1], s[i])
                     ELSE g[(i - 1) - 1]
      BY <1>2, <3>1 DEF Scan
    <3> DEFINE u == g[(i - 1) - 1]
    <3>4. u \in Seq(Messages)
      BY <1>0, <1>3, <3>1
    <3> HIDE DEF h, p, u
    <3>5. p \o Append(u, s[i]) = Append(p \o u, s[i])
      <4>1. /\ Append(u, s[i]) = u \o <<s[i]>>
            /\ p \o u \in Seq(Messages) /\ <<s[i]>> \in Seq(Messages)
        BY <1>1, <3>1, <3>4, AppendIsConcat, ConcatProperties
      <4>2. Append(p \o u, s[i]) = (p \o u) \o <<s[i]>>
        BY <3>1, <4>1, AppendIsConcat
      <4>3. (p \o u) \o <<s[i]>> = p \o (u \o <<s[i]>>)
        <5>1. Joins(p, u, <<s[i]>>)
          BY <1>1, <3>4, <4>1, Associative, Zenon
        <5> QED BY <5>1 DEF Joins
      <4> QED BY <4>1, <4>2, <4>3
    <3> QED BY <3>2, <3>3, <3>5 DEF u
  <2> QED BY <2>1, <2>2
<1>7. CallsIn(s) = h[n]
  <2> HIDE DEF h, p
  <2>1. Scan(s, n, h)
    BY <1>5, <1>6 DEF Scan
  <2> QED BY <2>1, CallsInScan DEF n
<1>8. CallsIn(t) = g[n - 1]
  BY <1>0, <1>2, CallsInScan
<1>9. h[n] = p \o g[n - 1]
  <2> HIDE DEF h, p
  <2>1. n \in 1..n
    BY <1>0
  <2> QED BY <1>4, <2>1
<1> QED BY <1>7, <1>8, <1>9 DEF t

-----------------------------------------------------------------------------
(* What is between a connection's receive buffer and its client.           *)

(* The worker that is busy with a descriptor has its call in hand.         *)
LEMMA HandBusy ==
  Lock => \A f \in Fds, w \in Workers, l \in PCs :
            Busy(w, f) =>
              InHand(f, l) = IF pc[w] = l THEN CallIn(loc[w]) ELSE <<>>
<1> SUFFICES ASSUME Lock, NEW f \in Fds, NEW w \in Workers, NEW l \in PCs,
                    Busy(w, f)
             PROVE  InHand(f, l) = IF pc[w] = l THEN CallIn(loc[w]) ELSE <<>>
  OBVIOUS
<1> DEFINE W == {v \in Workers : pc[v] = l /\ Busy(v, f) /\ loc[v].kind = "call"}
<1>1. \A v \in Workers : Busy(v, f) => v = w
  BY DEF Lock, Distinct, AllFds
<1>2. W = IF pc[w] = l /\ loc[w].kind = "call" THEN {w} ELSE {}
  BY <1>1
<1>3. InHand(f, l) = IF W = {} THEN <<>> ELSE <<loc[CHOOSE v \in W : TRUE]>>
  BY DEF InHand
<1> HIDE DEF W
<1>4. CASE pc[w] = l /\ loc[w].kind = "call"
  <2>1. W = {w} /\ (CHOOSE v \in W : TRUE) = w
    BY <1>2, <1>4
  <2> QED BY <1>3, <1>4, <2>1 DEF CallIn
<1>5. CASE ~(pc[w] = l /\ loc[w].kind = "call")
  <2>1. W = {}
    BY <1>2, <1>5
  <2> QED BY <1>3, <1>5, <2>1 DEF CallIn
<1> QED BY <1>4, <1>5

(* With no worker busy with it, a descriptor has nothing in hand.          *)
LEMMA HandNone ==
  \A f, l : (\A w \in Workers : ~Busy(w, f)) => InHand(f, l) = <<>>
BY DEF InHand

(* Both of them, of the state a step leads to.                             *)
LEMMA HandBusyNext ==
  (Lock => \A f \in Fds, w \in Workers, l \in PCs :
             Busy(w, f) =>
               InHand(f, l) = IF pc[w] = l THEN CallIn(loc[w]) ELSE <<>>)'
BY HandBusy, PTL

LEMMA HandNoneNext ==
  (\A f, l : (\A w \in Workers : ~Busy(w, f)) => InHand(f, l) = <<>>)'
BY HandNone, PTL

(* The boxes of a connection with a descriptor, and of one without.        *)
BoxesAt(f) ==
  /\ Inbox(owner[f]) = InHand(f, "handle") \o CallsIn(stream[owner[f]])
  /\ Outbox(owner[f]) = InHand(f, "send") \o pipe[f]

LEMMA BoxesOwned == Owners => \A f \in Fds : owner[f] # None => BoxesAt(f)
<1> SUFFICES ASSUME Owners, NEW f \in Fds, owner[f] # None PROVE BoxesAt(f)
  OBVIOUS
<1> DEFINE c == owner[f]
<1>1. FdOf(c) = {f}
  BY DEF FdOf, Owners
<1>2. FdOf(c) # {} /\ (CHOOSE g \in FdOf(c) : TRUE) = f
  BY <1>1
<1> QED BY <1>2 DEF BoxesAt, Inbox, Outbox

(* A connection without a descriptor has only its receive buffer.          *)
LEMMA BoxesFree ==
  \A c : (\A f \in Fds : owner[f] # c) =>
    Inbox(c) = CallsIn(stream[c]) /\ Outbox(c) = <<>>
<1> SUFFICES ASSUME NEW c, \A f \in Fds : owner[f] # c
             PROVE  Inbox(c) = CallsIn(stream[c]) /\ Outbox(c) = <<>>
  OBVIOUS
<1>1. FdOf(c) = {}
  BY DEF FdOf
<1> QED BY <1>1 DEF Inbox, Outbox

(* Both of them, of the state a step leads to.                             *)
LEMMA BoxesOwnedNext ==
  (Owners => \A f \in Fds : owner[f] # None => BoxesAt(f))'
BY BoxesOwned, PTL

LEMMA BoxesFreeNext ==
  (\A c : (\A f \in Fds : owner[f] # c) =>
     Inbox(c) = CallsIn(stream[c]) /\ Outbox(c) = <<>>)'
BY BoxesFree, PTL

(* What a worker has in hand does not change while the worker stands still,*)
(* has no call or works on something else.                                 *)
LEMMA HandFrame ==
  ASSUME NEW f, NEW l,
         \A w \in Workers :
           \/ held'[w] = held[w] /\ pc'[w] = pc[w] /\ loc'[w] = loc[w]
           \/ /\ pc[w] = l => loc[w].kind # "call"
              /\ pc'[w] = l => loc'[w].kind # "call"
           \/ ~Busy(w, f) /\ ~Busy(w, f)'
  PROVE  InHand(f, l)' = InHand(f, l)
<1> DEFINE W == {w \in Workers : pc[w] = l /\ Busy(w, f) /\ loc[w].kind = "call"}
<1>1. W' = W /\ \A w \in W : loc'[w] = loc[w]
  BY DEF Busy
<1>2. /\ InHand(f, l) = IF W = {} THEN <<>> ELSE <<loc[CHOOSE w \in W : TRUE]>>
      /\ InHand(f, l)' = IF W' = {} THEN <<>> ELSE <<loc'[CHOOSE w \in W' : TRUE]>>
  BY DEF InHand
<1>3. W # {} => (CHOOSE w \in W : TRUE) \in W
  OBVIOUS
<1> HIDE DEF W
<1> QED BY <1>1, <1>2, <1>3

(* The boxes of a connection that a step does not concern.                 *)
LEMMA BoxFrame ==
  ASSUME Owners, Owners', None \notin Conns, NEW c \in Conns,
         stream'[c] = stream[c],
         \A f \in Fds : owner'[f] = c <=> owner[f] = c,
         \A f \in Fds : owner[f] = c =>
           /\ pipe'[f] = pipe[f]
           /\ InHand(f, "handle")' = InHand(f, "handle")
           /\ InHand(f, "send")' = InHand(f, "send")
  PROVE  Inbox(c)' = Inbox(c) /\ Outbox(c)' = Outbox(c)
<1>1. CASE \E f \in Fds : owner[f] = c
  <2>1. PICK f \in Fds : owner[f] = c
    BY <1>1
  <2>2. BoxesAt(f)
    BY <2>1, BoxesOwned
  <2>3. BoxesAt(f)' /\ owner'[f] = c
    BY <2>1, BoxesOwnedNext
  <2> QED BY <2>1, <2>2, <2>3 DEF BoxesAt
<1>2. CASE \A f \in Fds : owner[f] # c
  <2>1. Inbox(c) = CallsIn(stream[c]) /\ Outbox(c) = <<>>
    BY <1>2, BoxesFree
  <2>2. Inbox(c)' = CallsIn(stream[c])' /\ Outbox(c)' = <<>>
    BY <1>2, BoxesFreeNext
  <2> QED BY <2>1, <2>2
<1> QED BY <1>1, <1>2

-----------------------------------------------------------------------------
(* Calls: the inductive invariant.                                         *)

(* No connection is reset, clients close when they have all their answers, *)
(* and send() does not return EAGAIN; requests may come in pieces.         *)
Patient == Faults \subseteq {"segment"}

(* Only calls have results.                                                *)
CallsOnly ==
  /\ \A f \in Fds : \A i \in 1..Len(pipe[f]) : pipe[f][i].kind = "call"
  /\ \A w \in Workers : pc[w] = "send" => loc[w].kind = "call"

(* A connection is closed by the server after its client.                  *)
Hangup ==
  /\ \A c \in Conns : peer[c] # "reset"
  /\ \A t \in Tasks : Reported(t) /\ t.type = "CLOSE"
       => peer[owner[t.fd]] = "closed"
  /\ \A w \in Workers : pc[w] \in {"delete", "close"}
       => peer[owner[held[w].fd]] = "closed"

(* What a client has got, its results on the way and its calls not yet     *)
(* served are the calls it has made, unless its connection went deaf.      *)
Books ==
  /\ \A c \in Conns : (\A f \in deaf \cap Fds : owner[f] # c) =>
       got[c] \o (Outbox(c) \o Inbox(c)) = CallsOf(c)
  /\ \A c \in Conns : peer[c] = "closed" => Len(got[c]) = Len(CallsOf(c))
  /\ \A f \in Fds : owner[f] = None => pipe[f] = <<>>
  /\ \A c \in Conns : Len(sent[c]) <= MaxReqs

Ledger == Events /\ Off /\ CallsOnly /\ Hangup /\ Books

-----------------------------------------------------------------------------
(* Its parts that do not need CallsIn.                                     *)

(* Write comes after the test of the request's type.                       *)
LEMMA CallsOnlyStep == Lock /\ CallsOnly /\ Next => CallsOnly'
<1> SUFFICES ASSUME Lock, CallsOnly, Next PROVE CallsOnly'
  OBVIOUS
<1>0. /\ pc \in [Workers -> PCs]
      /\ loc \in [Workers -> Messages \cup Fds \cup {None}]
      /\ held \in [Workers -> Tasks \cup {None}]
      /\ pipe \in [Fds -> Seq(Messages)]
      /\ \A w \in Workers : pc[w] = "idle" <=> held[w] = None
      /\ Labels
  BY DEF Lock, TypeOK
<1>1. ASSUME NEW f \in Fds, NEW i \in 1..Len(pipe'[f])
      PROVE  pipe'[f][i].kind = "call"
  <2>1. CASE pipe'[f] = pipe[f]
    BY <1>1, <2>1 DEF CallsOnly
  <2>2. ASSUME NEW w \in Workers, HandleRequest(w), pipe'[f] # pipe[f]
        PROVE  pipe'[f][i].kind = "call"
    <3>1. /\ held[w].fd = f /\ loc[w].kind = "call"
          /\ pipe'[f] = Append(pipe[f], loc[w]) /\ pipe[f] \in Seq(Messages)
      BY <1>0, <2>2 DEF HandleRequest
    <3>2. pipe'[f][i] = loc[w] \/ (i \in 1..Len(pipe[f]) /\ pipe'[f][i] = pipe[f][i])
      BY <1>1, <3>1
    <3> QED BY <3>1, <3>2 DEF CallsOnly
  <2>3. ASSUME NEW w \in Workers, ReadPipe(w), pipe'[f] # pipe[f]
        PROVE  pipe'[f][i].kind = "call"
    <3>1. /\ held[w].fd = f /\ pipe[f] # <<>>
          /\ pipe'[f] = Tail(pipe[f]) /\ pipe[f] \in Seq(Messages)
      BY <1>0, <2>3 DEF ReadPipe
    <3>2. i + 1 \in 1..Len(pipe[f]) /\ pipe'[f][i] = pipe[f][i + 1]
      BY <1>1, <3>1
    <3> QED BY <3>2 DEF CallsOnly
  <2> QED BY <2>1, <2>2, <2>3, Frame
<1>2. ASSUME NEW w \in Workers, pc'[w] = "send" PROVE loc'[w].kind = "call"
  <2>1. CASE pc[w] = "send" /\ loc'[w] = loc[w]
    BY <2>1 DEF CallsOnly
  <2>2. CASE ReadPipe(w) /\ pc[w] # "send"
    <3>1. /\ pipe[held[w].fd] # <<>> /\ loc' = [loc EXCEPT ![w] = Head(pipe[held[w].fd])]
          /\ held[w].fd \in Fds
      BY <1>0, <1>2, <2>2, OwnerOfTask DEF ReadPipe, Event, At, Labels
    <3>2. pipe[held[w].fd] \in Seq(Messages)
      BY <1>0, <3>1
    <3>3. /\ loc'[w] = pipe[held[w].fd][1]
          /\ 1 \in 1..Len(pipe[held[w].fd])
      BY <1>0, <3>1, <3>2
    <3> QED BY <3>1, <3>3 DEF CallsOnly
  <2>3. CASE UNCHANGED <<pc, loc>>
    BY <1>2, <2>1, <2>3
  <2>4. ClientStep \/ Dispatch \/ (\E t \in Tasks : Submit(t)) => UNCHANGED <<pc, loc>>
    BY ClientFrame DEF serverVars, Dispatch, Submit
  <2>5. ASSUME NEW v \in Workers, WorkerStep(v), v # w PROVE loc'[w].kind = "call"
    BY <1>2, <2>1, <2>5, OthersStay
  <2>6. CASE WorkerStep(w)
    <3>1. ~Take(w)
      BY <1>0, <1>2 DEF Take
    <3>2. Return(w) => FALSE
      BY <1>0, <1>2 DEF Return
    <3>3. /\ ~Ignore(w) /\ ~Relisten(w) /\ ~ShortRead(w) /\ ~RejectRequest(w)
          /\ ~EventDone(w) /\ ~CloseFd(w)
      BY <3>2 DEF Ignore, Relisten, ShortRead, RejectRequest, EventDone, CloseFd,
                  Desert
    <3>4. /\ ~Accept(w) /\ ~AcceptFails(w) /\ ~SetupFails(w) /\ ~Attach(w)
          /\ ~AddConnection(w)
      BY <1>0, <1>2 DEF Accept, AcceptFails, SetupFails, Attach, AddConnection,
                        Goto
    <3>5. ~Recv(w) /\ ~HandleRequest(w) /\ ~Detach(w) /\ ~Delete(w)
      BY <1>0, <1>2 DEF Recv, HandleRequest, Detach, Delete, Goto
    <3>6. ~Send(w) /\ ~SendWouldBlock(w)
      BY <1>0, <1>2 DEF Send, SendWouldBlock, Goto
    <3>7. ReadPipe(w) => pc[w] # "send"
      BY DEF ReadPipe, Event, At
    <3>8. SendFails(w) => UNCHANGED <<pc, loc>>
      BY DEF SendFails
    <3> QED
      BY <2>2, <2>3, <2>6, <3>1, <3>3, <3>4, <3>5, <3>6, <3>7, <3>8 DEF WorkerStep
  <2> QED BY <2>3, <2>4, <2>5, <2>6 DEF Next
<1> QED BY <1>1, <1>2 DEF CallsOnly

(* The server closes a connection after its client has.                    *)
LEMMA HangupStep == Patient /\ Events /\ Hangup /\ Next => Hangup'
<1> SUFFICES ASSUME Patient, Events, Hangup, Next PROVE Hangup'
  OBVIOUS
<1>0. /\ peer \in [Conns -> {"new", "open", "closed", "reset"}]
      /\ owner \in [Fds -> Conns \cup {None}]
      /\ held \in [Workers -> Tasks \cup {None}]
      /\ pc \in [Workers -> PCs]
      /\ \A w \in Workers : pc[w] = "idle" <=> held[w] = None
      /\ Lock /\ Labels /\ Free /\ Pending
      /\ ListenFd \notin Fds /\ AllFds = Fds \cup {ListenFd} /\ None \notin Conns
  BY ServerAssumption DEF Events, Lock, TypeOK, AllFds
<1>1. /\ \A c \in Conns : peer'[c] # "reset"
      /\ \A c \in Conns : peer[c] = "closed" => peer'[c] = "closed"
  <2>1. ASSUME NEW c \in Conns, Connect(c) \/ Close(c) \/ Reset(c)
        PROVE  /\ \A d \in Conns : peer'[d] # "reset"
               /\ \A d \in Conns : peer[d] = "closed" => peer'[d] = "closed"
    <3>1. ~Reset(c)
      BY DEF Reset, Patient
    <3> QED BY <1>0, <2>1, <3>1 DEF Connect, Close, Hangup
  <2>2. \A w \in Workers : ~SetupFails(w)
    BY DEF SetupFails, Patient
  <2> QED BY <2>1, <2>2, Frame DEF Hangup
<1>2. ASSUME NEW f \in Fds, InFlight(f)', InFlight(f) \/ f \in Ready
      PROVE  owner'[f] = owner[f] /\ owner[f] \in Conns
  BY <1>0, <1>2, OwnerKept
<1>3. ASSUME NEW t \in Tasks, Reported(t)', t.type = "CLOSE"
      PROVE  peer'[owner'[t.fd]] = "closed"
  <2>1. t.fd \in AllFds /\ t # None
    BY NoneAssumption DEF Tasks
  <2>2. InFlight(t.fd)'
    BY <1>3, <2>1 DEF Reported, InFlight, Busy
  <2>3. CASE Reported(t)
    <3>1. t.fd \in Fds /\ InFlight(t.fd) /\ peer[owner[t.fd]] = "closed"
      BY <1>0, <1>3, <2>1, <2>3, ReportedAlone DEF Pending, Hangup
    <3> QED BY <1>1, <1>2, <2>2, <3>1
  <2>4. CASE t.fd \in Ready /\ t.type = EventOf(t.fd)
    <3>1. t.fd \in Fds /\ peer[owner[t.fd]] = "closed"
      BY <1>0, <1>3, <2>1, <2>4 DEF EventOf
    <3> QED BY <1>1, <1>2, <2>2, <2>4, <3>1
  <2> QED BY <1>0, <1>3, <2>3, <2>4, ReportedStep
<1>4. ASSUME NEW w \in Workers, pc'[w] \in {"delete", "close"}
      PROVE  peer'[owner'[held'[w].fd]] = "closed"
  <2>1. ASSUME held'[w] = held[w], held[w] # None, held[w].fd \in Fds,
               peer[owner[held[w].fd]] = "closed"
        PROVE  peer'[owner'[held'[w].fd]] = "closed"
    <3>1. PICK f \in Fds : f = held[w].fd
      BY <2>1
    <3>2. InFlight(f) /\ InFlight(f)'
      BY <2>1, <3>1 DEF InFlight, Busy
    <3> QED BY <1>1, <1>2, <2>1, <3>1, <3>2
  <2>2. CASE pc[w] \in {"delete", "close"} /\ held'[w] = held[w]
    BY <1>0, <2>1, <2>2 DEF Labels, Hangup
  <2>3. CASE Detach(w)
    <3>1. /\ pc[w] = "start" /\ held'[w] = held[w] /\ held[w] \in Tasks
          /\ held[w].type = "CLOSE"
      BY <1>0, <2>3 DEF Detach, Event, At, Goto
    <3>2. Reported(held[w])
      BY <3>1 DEF Reported
    <3>3. held[w].fd \in Fds /\ peer[owner[held[w].fd]] = "closed" /\ held[w] # None
      BY <1>0, <3>1, <3>2 DEF Hangup, Pending, Tasks
    <3> QED BY <2>1, <3>1, <3>3
  <2>4. CASE UNCHANGED <<pc, held>>
    BY <1>4, <2>2, <2>4
  <2>5. ClientStep \/ Dispatch \/ (\E t \in Tasks : Submit(t)) => UNCHANGED <<pc, held>>
    BY ClientFrame DEF serverVars, Dispatch, Submit, Pool!Offer
  <2>6. ASSUME NEW v \in Workers, WorkerStep(v), v # w
        PROVE  peer'[owner'[held'[w].fd]] = "closed"
    BY <1>0, <1>4, <2>2, <2>6, OthersStay
  <2>7. CASE WorkerStep(w)
    <3>1. ~Take(w)
      BY <1>0, <1>4 DEF Take
    <3>2. Return(w) => FALSE
      BY <1>0, <1>4 DEF Return
    <3> QED BY <1>0, <1>4, <2>2, <2>3, <2>4, <2>7, <3>1, <3>2, OwnMove
  <2> QED BY <2>4, <2>5, <2>6, <2>7 DEF Next
<1> QED BY <1>1, <1>3, <1>4 DEF Hangup

-----------------------------------------------------------------------------
(* What each step does to a connection's boxes.                            *)

(* What a worker has in hand is a sequence of messages.                    *)
LEMMA HandType ==
  ASSUME Lock, NEW f \in Fds, NEW l \in {"handle", "send"}
  PROVE  InHand(f, l) \in Seq(Messages)
<1>0. l \in PCs
  BY DEF PCs
<1>1. CASE \A w \in Workers : ~Busy(w, f)
  <2>1. InHand(f, l) = <<>>
    BY <1>1, HandNone
  <2> QED BY <2>1
<1>2. ASSUME NEW w \in Workers, Busy(w, f) PROVE InHand(f, l) \in Seq(Messages)
  <2>1. InHand(f, l) = IF pc[w] = l THEN CallIn(loc[w]) ELSE <<>>
    BY <1>0, <1>2, HandBusy
  <2>2. pc[w] = l => loc[w] \in Messages
    BY DEF Lock, Labels
  <2> QED BY <2>1, <2>2 DEF CallIn
<1> QED BY <1>1, <1>2

(* So are the boxes.                                                       *)
LEMMA BoxesType ==
  ASSUME Lock, Owners, NEW c \in Conns
  PROVE  /\ Inbox(c) \in Seq(Messages) /\ Outbox(c) \in Seq(Messages)
         /\ CallsIn(stream[c]) \in Seq(Messages)
<1>0. stream[c] \in Seq(Messages) /\ pipe \in [Fds -> Seq(Messages)] /\ None \notin Conns
  BY ServerAssumption DEF Lock, TypeOK
<1>1. CallsIn(stream[c]) \in Seq(Messages)
  BY <1>0, CallsInType
<1>2. CASE \A f \in Fds : owner[f] # c
  <2>1. Inbox(c) = CallsIn(stream[c]) /\ Outbox(c) = <<>>
    BY <1>2, BoxesFree
  <2> QED BY <1>1, <2>1
<1>3. ASSUME NEW f \in Fds, owner[f] = c
      PROVE  Inbox(c) \in Seq(Messages) /\ Outbox(c) \in Seq(Messages)
  <2>1. BoxesAt(f)
    BY <1>0, <1>3, BoxesOwned
  <2>2. /\ InHand(f, "handle") \in Seq(Messages) /\ InHand(f, "send") \in Seq(Messages)
        /\ pipe[f] \in Seq(Messages)
    BY <1>0, HandType
  <2>3. /\ InHand(f, "handle") \o CallsIn(stream[c]) \in Seq(Messages)
        /\ InHand(f, "send") \o pipe[f] \in Seq(Messages)
    BY <1>1, <2>2, ConcatProperties
  <2> QED BY <1>3, <2>1, <2>3 DEF BoxesAt
<1> QED BY <1>1, <1>2, <1>3

(* The requests a client has sent, as messages.                            *)
LEMMA SentType ==
  ASSUME Lock, NEW c \in Conns, Len(sent[c]) <= MaxReqs
  PROVE  SentBy(c) \in Seq(Messages) /\ Len(SentBy(c)) = Len(sent[c])
<1>1. sent[c] \in Seq(Kinds) /\ MaxReqs \in Nat
  BY ServerAssumption DEF Lock, TypeOK
<1>2. Len(sent[c]) \in Nat /\ \A i \in 1..Len(sent[c]) : sent[c][i] \in Kinds
  BY <1>1
<1>3. \A i \in 1..Len(sent[c]) : [conn |-> c, seq |-> i, kind |-> sent[c][i]] \in Messages
  BY <1>1, <1>2 DEF Messages
<1> QED BY <1>2, <1>3 DEF SentBy

(* A client that has closed has everything: its boxes are empty.           *)
LEMMA ClosedIsDone ==
  ASSUME Ledger, NEW c \in Conns, peer[c] = "closed",
         \A f \in deaf \cap Fds : owner[f] # c
  PROVE  Inbox(c) = <<>> /\ Outbox(c) = <<>>
<1>0. /\ Lock /\ Owners /\ got[c] \in Seq(Messages) /\ Len(sent[c]) <= MaxReqs
      /\ Len(got[c]) = Len(CallsOf(c))
      /\ got[c] \o (Outbox(c) \o Inbox(c)) = CallsOf(c)
  BY DEF Ledger, Events, Lock, TypeOK, Books
<1>1. Inbox(c) \in Seq(Messages) /\ Outbox(c) \in Seq(Messages)
  BY <1>0, BoxesType
<1> DEFINE x == Outbox(c) \o Inbox(c)
<1>2. x \in Seq(Messages) /\ Len(x) = Len(Outbox(c)) + Len(Inbox(c))
  BY <1>1, ConcatProperties
<1> HIDE DEF x
<1>3. Len(got[c] \o x) = Len(got[c]) + Len(x)
  BY <1>0, <1>2, ConcatProperties
<1>4. Len(x) = 0
  BY <1>0, <1>2, <1>3 DEF x
<1>5. Len(Outbox(c)) = 0 /\ Len(Inbox(c)) = 0
  <2>1. Len(Outbox(c)) \in Nat /\ Len(Inbox(c)) \in Nat
    BY <1>1
  <2> QED BY <1>2, <1>4, <2>1
<1> QED BY <1>1, <1>5

(* What a step does to connection c.                                       *)
Still(c) ==
  /\ Inbox(c)' = Inbox(c) /\ Outbox(c)' = Outbox(c)
  /\ got'[c] = got[c] /\ CallsOf(c)' = CallsOf(c)

Posted(c) == \E m \in Messages :
  /\ Inbox(c)' = Append(Inbox(c), m) /\ Outbox(c)' = Outbox(c)
  /\ got'[c] = got[c] /\ CallsOf(c)' = Append(CallsOf(c), m)
  /\ peer[c] = "open"

Served(c) == \E m \in Messages :
  /\ Inbox(c) # <<>> /\ m = Head(Inbox(c))
  /\ Inbox(c)' = Tail(Inbox(c)) /\ Outbox(c)' = Append(Outbox(c), m)
  /\ got'[c] = got[c] /\ CallsOf(c)' = CallsOf(c)

Delivered(c) ==
  /\ Outbox(c) # <<>>
  /\ Outbox(c)' = Tail(Outbox(c)) /\ got'[c] = Append(got[c], Head(Outbox(c)))
  /\ Inbox(c)' = Inbox(c) /\ CallsOf(c)' = CallsOf(c)
  /\ peer[c] = "open"

Lost(c) ==
  /\ Inbox(c)' = <<>> /\ Outbox(c)' = Outbox(c)
  /\ got'[c] = got[c] /\ CallsOf(c)' = CallsOf(c)
  /\ \E f \in Fds : f \in deaf' /\ owner'[f] = c

(* The calls a client made depend only on what it sent.                    *)
LEMMA SameSent ==
  ASSUME NEW c, sent'[c] = sent[c]
  PROVE  CallsOf(c)' = CallsOf(c)
BY DEF CallsOf, SentBy

(* Nothing changes while no call passes through a worker's hands.          *)
LEMMA QuietStep ==
  ASSUME Events, Owners', UNCHANGED <<stream, owner, pipe, sent, got>>,
         \A w \in Workers, l \in {"handle", "send"} :
           \/ held'[w] = held[w] /\ pc'[w] = pc[w] /\ loc'[w] = loc[w]
           \/ /\ pc[w] = l => loc[w].kind # "call"
              /\ pc'[w] = l => loc'[w].kind # "call"
  PROVE  \A c \in Conns : Still(c)
<1> SUFFICES ASSUME NEW c \in Conns PROVE Still(c)
  OBVIOUS
<1>0. Owners /\ None \notin Conns
  BY ServerAssumption DEF Events
<1>1. \A f \in Fds : /\ InHand(f, "handle")' = InHand(f, "handle")
                     /\ InHand(f, "send")' = InHand(f, "send")
  BY HandFrame
<1>2. Inbox(c)' = Inbox(c) /\ Outbox(c)' = Outbox(c)
  BY <1>0, <1>1, BoxFrame
<1> QED BY <1>2, SameSent DEF Still

(* A worker's step concerns only the connection of its descriptor.         *)
LEMMA Elsewhere ==
  ASSUME Events, Owners', NEW w \in Workers, WorkerStep(w), ~Take(w),
         NEW f \in Fds, f = held[w].fd, UNCHANGED <<owner, sent>>,
         NEW c \in Conns, c # owner[f],
         stream'[c] = stream[c], got'[c] = got[c],
         \A g \in Fds : g # f => pipe'[g] = pipe[g]
  PROVE  Still(c)
<1>0. Lock /\ Owners /\ None \notin Conns
  BY ServerAssumption DEF Events
<1>1. \A v \in Workers : v # w =>
        pc'[v] = pc[v] /\ held'[v] = held[v] /\ loc'[v] = loc[v]
  BY <1>0, OthersStay
<1>2. held'[w] = held[w] \/ held'[w] = None
  <2>1. Return(w) => held'[w] = None
    BY <1>0 DEF Return, Pool!Finish, Lock, TypeOK
  <2> QED BY <1>0, <2>1, OwnMove
<1>3. ASSUME NEW g \in Fds, g # f
      PROVE  /\ InHand(g, "handle")' = InHand(g, "handle")
             /\ InHand(g, "send")' = InHand(g, "send")
  <2>1. ~Busy(w, g) /\ ~Busy(w, g)'
    BY <1>2, <1>3 DEF Busy
  <2> QED BY <1>1, <2>1, HandFrame
<1>4. Inbox(c)' = Inbox(c) /\ Outbox(c)' = Outbox(c)
  <2>1. \A g \in Fds : owner[g] = c => g # f
    OBVIOUS
  <2> QED BY <1>0, <1>3, <2>1, BoxFrame
<1> QED BY <1>4, SameSent DEF Still

(* The reactor, most of the clients' steps and most labels of a handler    *)
(* have nothing to do with calls.                                          *)
LEMMA OtherStep ==
  ASSUME Events, Owners', Next,
         \A c \in Conns, k \in Kinds, part \in BOOLEAN : ~Request(c, k, part),
         \A w \in Workers : /\ ~Accept(w) /\ ~Recv(w) /\ ~ShortRead(w)
                            /\ ~HandleRequest(w) /\ ~ReadPipe(w) /\ ~Send(w)
                            /\ ~SendWouldBlock(w) /\ ~CloseFd(w)
  PROVE  \A c \in Conns : Still(c)
<1>0. /\ Lock /\ pc \in [Workers -> PCs]
      /\ loc \in [Workers -> Messages \cup Fds \cup {None}]
  BY DEF Events, Lock, TypeOK
<1>1. UNCHANGED <<stream, owner, pipe, sent, got>>
  BY Frame, TalkFrame
<1>2. CASE UNCHANGED <<held, pc, loc>>
  BY <1>1, <1>2, QuietStep
<1>3. ClientStep \/ Dispatch \/ (\E t \in Tasks : Submit(t)) => UNCHANGED <<held, pc, loc>>
  BY ClientFrame DEF serverVars, Dispatch, Submit, Pool!Offer
<1>4. ASSUME NEW w \in Workers, WorkerStep(w) PROVE \A c \in Conns : Still(c)
  <2>1. \A v \in Workers : v # w =>
          pc'[v] = pc[v] /\ held'[v] = held[v] /\ loc'[v] = loc[v]
    BY <1>0, <1>4, OthersStay
  <2>2. ASSUME NEW l \in {"handle", "send"}
        PROVE  \/ UNCHANGED <<held, pc, loc>>
               \/ /\ pc[w] = l => loc[w].kind # "call"
                  /\ pc'[w] = l => loc'[w].kind # "call"
    <3>1. CASE SendFails(w)
      BY <3>1 DEF SendFails
    <3>2. CASE Take(w)
      BY <1>0, <3>2 DEF Take, Pool!Begin, Lock, TypeOK
    <3>3. CASE Return(w) /\ pc[w] # "handle" /\ pc[w] # "send"
      BY <1>0, <3>3 DEF Return
    <3>4. CASE RejectRequest(w)
      BY <1>0, <3>4 DEF RejectRequest, Desert, Return, At
    <3>5. Ignore(w) \/ Relisten(w) \/ EventDone(w) =>
            Return(w) /\ pc[w] # "handle" /\ pc[w] # "send"
      BY DEF Ignore, Relisten, EventDone, Desert, At
    <3>6. CASE \/ AcceptFails(w) \/ SetupFails(w) \/ Attach(w)
               \/ AddConnection(w)
      BY <1>0, <3>6 DEF AcceptFails, SetupFails, Attach, AddConnection, Goto, At,
                        Event
    <3>7. CASE Detach(w) \/ Delete(w)
      BY <1>0, <3>7 DEF Detach, Delete, Goto, At, Event
    <3> QED BY <1>4, <3>1, <3>2, <3>3, <3>4, <3>5, <3>6, <3>7 DEF WorkerStep
  <2>3. ASSUME NEW v \in Workers, NEW l \in {"handle", "send"}
        PROVE  \/ held'[v] = held[v] /\ pc'[v] = pc[v] /\ loc'[v] = loc[v]
               \/ /\ pc[v] = l => loc[v].kind # "call"
                  /\ pc'[v] = l => loc'[v].kind # "call"
    BY <2>1, <2>2
  <2> QED BY <1>1, <2>3, QuietStep
<1> QED BY <1>2, <1>3, <1>4 DEF Next

(* A new request joins the end of its connection's inbox, if it is a call. *)
LEMMA RequestStep ==
  ASSUME Ledger, Owners', NEW c \in Conns, NEW k \in Kinds, NEW part \in BOOLEAN,
         Request(c, k, part)
  PROVE  Still(c) \/ Posted(c)
<1> DEFINE m == [conn |-> c, seq |-> Len(sent[c]) + 1, kind |-> k]
<1>0. /\ Lock /\ Owners /\ sent \in [Conns -> Seq(Kinds)]
      /\ stream \in [Conns -> Seq(Messages)]
      /\ MaxReqs \in Nat /\ None \notin Conns
  BY ServerAssumption DEF Ledger, Events, Lock, TypeOK
<1>1. /\ Len(sent[c]) \in Nat /\ Len(sent[c]) < MaxReqs /\ peer[c] = "open"
      /\ sent'[c] = Append(sent[c], k)
      /\ stream'[c] = Append(stream[c], m)
      /\ UNCHANGED <<got, serverVars>>
  BY <1>0 DEF Request
<1>2. m \in Messages
  BY <1>0, <1>1 DEF Messages
<1>3. CallsOf(c)' = CallsOf(c) \o CallIn(m)
  <2>1. SentBy(c) \in Seq(Messages) /\ Len(SentBy(c)) = Len(sent[c])
    BY <1>0, <1>1, SentType
  <2>2. SentBy(c)' = Append(SentBy(c), m)
    <3>1. /\ Len(sent'[c]) = Len(sent[c]) + 1
          /\ \A i \in 1..Len(sent[c]) : sent'[c][i] = sent[c][i]
          /\ sent'[c][Len(sent[c]) + 1] = k
      BY <1>0, <1>1
    <3>2. SentBy(c)' = [i \in 1..(Len(sent[c]) + 1) |->
                          [conn |-> c, seq |-> i, kind |-> sent'[c][i]]]
      BY <3>1 DEF SentBy
    <3>3. \A i \in 1..Len(sent[c]) :
            SentBy(c)[i] = [conn |-> c, seq |-> i, kind |-> sent[c][i]]
      BY DEF SentBy
    <3>4. /\ Append(SentBy(c), m) \in Seq(Messages)
          /\ Len(Append(SentBy(c), m)) = Len(sent[c]) + 1
          /\ \A i \in 1..Len(sent[c]) : Append(SentBy(c), m)[i] = SentBy(c)[i]
          /\ Append(SentBy(c), m)[Len(sent[c]) + 1] = m
      BY <1>2, <2>1, AppendProperties
    <3>5. Append(SentBy(c), m) =
            [i \in 1..(Len(sent[c]) + 1) |-> Append(SentBy(c), m)[i]]
      BY <3>4
    <3>6. ASSUME NEW i \in 1..(Len(sent[c]) + 1)
          PROVE  Append(SentBy(c), m)[i] =
                   [conn |-> c, seq |-> i, kind |-> sent'[c][i]]
      <4>1. CASE i = Len(sent[c]) + 1
        BY <3>1, <3>4, <4>1
      <4>2. CASE i # Len(sent[c]) + 1
        <5>1. i \in 1..Len(sent[c])
          BY <1>1, <4>2
        <5> QED BY <3>1, <3>3, <3>4, <5>1
      <4> QED BY <4>1, <4>2
    <3> HIDE DEF m
    <3> QED BY <3>2, <3>5, <3>6
  <2> HIDE DEF m
  <2>3. CallsIn(Append(SentBy(c), m)) = CallsIn(SentBy(c)) \o CallIn(m)
    BY <1>2, <2>1, CallsInAppend
  <2> QED BY <2>2, <2>3 DEF CallsOf
<1> HIDE DEF m
<1>4. CallsIn(stream'[c]) = CallsIn(stream[c]) \o CallIn(m)
  BY <1>0, <1>1, <1>2, CallsInAppend
<1>5. /\ Inbox(c) \in Seq(Messages) /\ CallsIn(stream[c]) \in Seq(Messages)
      /\ CallIn(m) \in Seq(Messages)
  BY <1>0, <1>2, BoxesType DEF CallIn
<1>6. Inbox(c)' = Inbox(c) \o CallIn(m) /\ Outbox(c)' = Outbox(c)
  <2>1. CASE \A f \in Fds : owner[f] # c
    <3>1. Inbox(c) = CallsIn(stream[c]) /\ Outbox(c) = <<>>
      BY <2>1, BoxesFree
    <3>2. Inbox(c)' = CallsIn(stream'[c]) /\ Outbox(c)' = <<>>
      BY <1>1, <2>1, BoxesFreeNext DEF serverVars
    <3> QED BY <1>4, <3>1, <3>2
  <2>2. ASSUME NEW f \in Fds, owner[f] = c
        PROVE  Inbox(c)' = Inbox(c) \o CallIn(m) /\ Outbox(c)' = Outbox(c)
    <3>1. BoxesAt(f)
      BY <1>0, <2>2, BoxesOwned
    <3>2. BoxesAt(f)' /\ owner'[f] = c /\ pipe' = pipe
      BY <1>0, <1>1, <2>2, BoxesOwnedNext DEF serverVars
    <3>3. /\ InHand(f, "handle")' = InHand(f, "handle")
          /\ InHand(f, "send")' = InHand(f, "send")
      <4>1. \A w \in Workers :
              held'[w] = held[w] /\ pc'[w] = pc[w] /\ loc'[w] = loc[w]
        BY <1>1 DEF serverVars
      <4> QED BY <4>1, HandFrame
    <3> DEFINE h == InHand(f, "handle")
    <3>4. h \in Seq(Messages)
      BY <1>0, HandType
    <3>5. /\ Inbox(c) = h \o CallsIn(stream[c])
          /\ Inbox(c)' = h \o (CallsIn(stream[c]) \o CallIn(m))
          /\ Outbox(c)' = Outbox(c)
      BY <1>4, <2>2, <3>1, <3>2, <3>3 DEF BoxesAt
    <3> HIDE DEF h
    <3>6. h \o (CallsIn(stream[c]) \o CallIn(m)) = (h \o CallsIn(stream[c])) \o CallIn(m)
      <4> DEFINE x == CallsIn(stream[c])
      <4> DEFINE y == CallIn(m)
      <4>1. x \in Seq(Messages) /\ y \in Seq(Messages)
        BY <1>5
      <4> HIDE DEF x, y
      <4>2. (h \o x) \o y = h \o (x \o y)
        <5>1. Joins(h, x, y)
          BY <3>4, <4>1, Associative, Zenon
        <5> QED BY <5>1 DEF Joins
      <4> QED BY <4>2 DEF x, y
    <3> QED BY <3>5, <3>6
  <2> QED BY <2>1, <2>2
<1>7. CallsOf(c) \in Seq(Messages)
  <2>1. SentBy(c) \in Seq(Messages)
    BY <1>0, <1>1, SentType
  <2> QED BY <2>1, CallsInType DEF CallsOf
<1>8. CASE k = "call"
  <2>1. CallIn(m) = <<m>>
    BY <1>8 DEF CallIn, m
  <2>2. /\ Inbox(c) \o <<m>> = Append(Inbox(c), m)
        /\ CallsOf(c) \o <<m>> = Append(CallsOf(c), m)
    BY <1>2, <1>5, <1>7, AppendIsConcat
  <2> QED BY <1>1, <1>2, <1>3, <1>6, <2>1, <2>2 DEF Posted
<1>9. CASE k # "call"
  <2>1. CallIn(m) = <<>>
    BY <1>9 DEF CallIn, m
  <2>2. Inbox(c) \o <<>> = Inbox(c) /\ CallsOf(c) \o <<>> = CallsOf(c)
    BY <1>5, <1>7, ConcatEmptySeq
  <2> QED BY <1>1, <1>3, <1>6, <2>1, <2>2 DEF Still
<1> QED BY <1>8, <1>9

(* What a worker at its handler's labels has in hand, before and after.    *)
LEMMA OwnHand ==
  ASSUME Ledger, Events', NEW w \in Workers, NEW f \in Fds, f = held[w].fd,
         held[w] # None, UNCHANGED owner
  PROVE  /\ owner[f] \in Conns /\ BoxesAt(f) /\ BoxesAt(f)' /\ f \notin deaf
         /\ \A l \in {"handle", "send"} :
              InHand(f, l) = IF pc[w] = l THEN CallIn(loc[w]) ELSE <<>>
         /\ held'[w] = held[w] => \A l \in {"handle", "send"} :
              InHand(f, l)' = IF pc'[w] = l THEN CallIn(loc'[w]) ELSE <<>>
         /\ Inbox(owner[f]) \in Seq(Messages)
         /\ Outbox(owner[f]) \in Seq(Messages)
         /\ pipe[f] \in Seq(Messages)
         /\ stream[owner[f]] \in Seq(Messages)
         /\ CallsIn(stream[owner[f]]) \in Seq(Messages)
<1>0. /\ Lock /\ Owners /\ Lock' /\ Owners' /\ Free /\ Off
      /\ owner \in [Fds -> Conns \cup {None}]
      /\ pipe \in [Fds -> Seq(Messages)] /\ stream \in [Conns -> Seq(Messages)]
      /\ {"handle", "send"} \subseteq PCs /\ None \notin Conns
  BY ServerAssumption DEF Ledger, Events, Lock, TypeOK, PCs
<1>1. Busy(w, f) /\ InFlight(f)
  BY DEF Busy, InFlight
<1>2. owner[f] \in Conns /\ owner[f] # None /\ f \notin deaf
  BY <1>0, <1>1 DEF Free, Off
<1>3. BoxesAt(f)
  BY <1>0, <1>2, BoxesOwned
<1>4. BoxesAt(f)'
  BY <1>0, <1>2, BoxesOwnedNext
<1>5. \A l \in {"handle", "send"} :
        InHand(f, l) = IF pc[w] = l THEN CallIn(loc[w]) ELSE <<>>
  BY <1>0, <1>1, HandBusy
<1>6. ASSUME held'[w] = held[w], NEW l \in {"handle", "send"}
      PROVE  InHand(f, l)' = IF pc'[w] = l THEN CallIn(loc'[w]) ELSE <<>>
  <2>1. Busy(w, f)'
    BY <1>6 DEF Busy
  <2> QED BY <1>0, <2>1, HandBusyNext
<1> QED BY <1>0, <1>2, <1>3, <1>4, <1>5, <1>6, BoxesType

(* recv() takes a request from the stream into the worker's hands.         *)
LEMMA RecvStep ==
  ASSUME Ledger, Events', NEW w \in Workers, Recv(w)
  PROVE  \A c \in Conns : Still(c)
<1>0. /\ Events /\ Lock /\ pc \in [Workers -> PCs]
      /\ loc \in [Workers -> Messages \cup Fds \cup {None}]
      /\ stream \in [Conns -> Seq(Messages)]
      /\ held[w] # None /\ held[w].fd \in Fds /\ pc[w] = "start"
  <2>1. Lock /\ pc[w] = "start" /\ held[w] # None /\ held[w].fd # ListenFd
    BY DEF Recv, Event, At, Ledger, Events, Lock, TypeOK
  <2> QED BY <2>1, OwnerOfTask DEF Ledger, Events, Lock, TypeOK
<1>1. PICK f \in Fds : f = held[w].fd
  BY <1>0
<1> DEFINE d == owner[f]
<1>2. /\ UNCHANGED <<owner, sent, got, pipe, held>>
      /\ stream[d] # <<>>
      /\ loc' = [loc EXCEPT ![w] = Head(stream[d])]
      /\ stream' = [stream EXCEPT ![d] = Tail(@)]
      /\ pc' = [pc EXCEPT ![w] = "handle"]
  BY <1>1 DEF Recv, Goto
<1>3. /\ d \in Conns /\ BoxesAt(f) /\ BoxesAt(f)' /\ stream[d] \in Seq(Messages)
      /\ InHand(f, "handle") = <<>>
      /\ InHand(f, "handle")' = CallIn(loc'[w])
      /\ InHand(f, "send") = <<>> /\ InHand(f, "send")' = <<>>
      /\ CallsIn(stream[d]) \in Seq(Messages)
  BY <1>0, <1>1, <1>2, OwnHand
<1>4. loc'[w] = Head(stream[d]) /\ stream'[d] = Tail(stream[d])
  BY <1>0, <1>2, <1>3
<1>5. Inbox(d) = <<>> \o CallsIn(stream[d]) /\ Outbox(d) = <<>> \o pipe[f]
  BY <1>3 DEF BoxesAt
<1>6. /\ Inbox(d)' = CallIn(Head(stream[d])) \o CallsIn(Tail(stream[d]))
      /\ Outbox(d)' = <<>> \o pipe[f]
  BY <1>2, <1>3, <1>4 DEF BoxesAt
<1>7. CallsIn(stream[d]) = CallIn(Head(stream[d])) \o CallsIn(Tail(stream[d]))
  BY <1>2, <1>3, CallsInTail
<1>8. <<>> \o CallsIn(stream[d]) = CallsIn(stream[d])
  BY <1>3, ConcatEmptySeq
<1>9. Still(d)
  BY <1>2, <1>5, <1>6, <1>7, <1>8, SameSent DEF Still
<1>10. ASSUME NEW c \in Conns, c # d PROVE Still(c)
  <2>1. WorkerStep(w) /\ ~Take(w) /\ Owners'
    BY <1>0 DEF WorkerStep, Take, Pool!Begin, Events
  <2> QED BY <1>0, <1>1, <1>2, <1>10, <2>1, Elsewhere
<1> QED BY <1>9, <1>10

(* ReturnValuePipe::Read takes a result from the pipe into its hands.      *)
LEMMA ReadPipeStep ==
  ASSUME Ledger, Events', NEW w \in Workers, ReadPipe(w)
  PROVE  \A c \in Conns : Still(c)
<1>0. /\ Events /\ Lock /\ pc \in [Workers -> PCs]
      /\ loc \in [Workers -> Messages \cup Fds \cup {None}]
      /\ pipe \in [Fds -> Seq(Messages)] /\ CallsOnly
      /\ held[w] # None /\ held[w].fd \in Fds /\ pc[w] = "start"
      /\ pipe[held[w].fd] # <<>>
  <2>1. /\ Lock /\ pc[w] = "start" /\ held[w] \in Tasks /\ held[w].type = "WRITE"
        /\ held[w] # None
    BY DEF ReadPipe, Event, At, Ledger, Events, Lock, TypeOK
  <2>2. Reported(held[w])
    BY <2>1 DEF Reported
  <2>3. held[w].fd # ListenFd /\ pipe[held[w].fd] # <<>>
    BY <2>1, <2>2 DEF Ledger, Events, Pending
  <2> QED BY <2>1, <2>3, OwnerOfTask DEF Ledger, Events, Lock, TypeOK
<1>1. PICK f \in Fds : f = held[w].fd
  BY <1>0
<1> DEFINE d == owner[f]
<1>2. /\ UNCHANGED <<owner, sent, got, stream, held>>
      /\ loc' = [loc EXCEPT ![w] = Head(pipe[f])]
      /\ pipe' = [pipe EXCEPT ![f] = Tail(@)]
      /\ pc' = [pc EXCEPT ![w] = "send"]
  BY <1>0, <1>1 DEF ReadPipe, Goto, clientVars
<1>3. /\ d \in Conns /\ BoxesAt(f) /\ BoxesAt(f)' /\ pipe[f] \in Seq(Messages)
      /\ InHand(f, "handle") = <<>> /\ InHand(f, "handle")' = <<>>
      /\ InHand(f, "send") = <<>> /\ InHand(f, "send")' = CallIn(loc'[w])
  BY <1>0, <1>1, <1>2, OwnHand
<1>4. /\ loc'[w] = Head(pipe[f]) /\ pipe'[f] = Tail(pipe[f]) /\ pipe[f] # <<>>
      /\ Head(pipe[f]) = pipe[f][1] /\ 1 \in 1..Len(pipe[f])
  BY <1>0, <1>1, <1>2, <1>3
<1>5. CallIn(loc'[w]) = <<Head(pipe[f])>>
  BY <1>0, <1>4 DEF CallsOnly, CallIn
<1>6. /\ Inbox(d) = <<>> \o CallsIn(stream[d]) /\ Outbox(d) = <<>> \o pipe[f]
      /\ Inbox(d)' = <<>> \o CallsIn(stream[d])
      /\ Outbox(d)' = <<Head(pipe[f])>> \o Tail(pipe[f])
  BY <1>2, <1>3, <1>4, <1>5 DEF BoxesAt
<1>7. <<Head(pipe[f])>> \o Tail(pipe[f]) = <<>> \o pipe[f]
  BY <1>3, <1>4
<1>8. Still(d)
  BY <1>2, <1>6, <1>7, SameSent DEF Still
<1>9. ASSUME NEW c \in Conns, c # d PROVE Still(c)
  <2>1. WorkerStep(w) /\ ~Take(w) /\ Owners'
    BY <1>0 DEF WorkerStep, Take, Pool!Begin, Events
  <2> QED BY <1>0, <1>1, <1>2, <1>9, <2>1, Elsewhere
<1> QED BY <1>8, <1>9

(* Service->Handle serves the head of the inbox, if it is a call.          *)
LEMMA HandleStep ==
  ASSUME Ledger, Events', NEW w \in Workers, HandleRequest(w)
  PROVE  \E d \in Conns : /\ Still(d) \/ Served(d)
                          /\ \A c \in Conns : c # d => Still(c)
<1>0. /\ Events /\ Lock /\ pc \in [Workers -> PCs]
      /\ loc \in [Workers -> Messages \cup Fds \cup {None}]
      /\ pipe \in [Fds -> Seq(Messages)]
      /\ held[w] # None /\ held[w].fd \in Fds /\ pc[w] = "handle"
      /\ loc[w] \in Messages
  BY DEF HandleRequest, At, Ledger, Events, Lock, TypeOK, Labels
<1>1. PICK f \in Fds : f = held[w].fd
  BY <1>0
<1> DEFINE d == owner[f]
<1> DEFINE m == loc[w]
<1>2. /\ UNCHANGED <<owner, sent, got, stream, held, loc>>
      /\ pipe' = IF m.kind = "call" THEN [pipe EXCEPT ![f] = Append(@, m)] ELSE pipe
      /\ pc' = [pc EXCEPT ![w] = "done"]
  BY <1>0, <1>1 DEF HandleRequest, Goto, clientVars
<1> DEFINE x == CallsIn(stream[d])
<1>3. /\ d \in Conns /\ BoxesAt(f) /\ BoxesAt(f)' /\ pipe[f] \in Seq(Messages)
      /\ InHand(f, "handle") = CallIn(m) /\ InHand(f, "handle")' = <<>>
      /\ InHand(f, "send") = <<>> /\ InHand(f, "send")' = <<>>
      /\ x \in Seq(Messages)
  BY <1>0, <1>1, <1>2, OwnHand
<1>4. /\ Inbox(d) = CallIn(m) \o x /\ Outbox(d) = <<>> \o pipe[f]
      /\ Inbox(d)' = <<>> \o x /\ Outbox(d)' = <<>> \o pipe'[f]
  BY <1>2, <1>3 DEF BoxesAt
<1> HIDE DEF x
<1>5. ASSUME m.kind = "call" PROVE Served(d)
  <2>1. CallIn(m) = <<m>> /\ pipe'[f] = Append(pipe[f], m)
    BY <1>0, <1>2, <1>5 DEF CallIn
  <2>2. m \in Messages
    BY <1>0
  <2> HIDE DEF m
  <2>3. <<m>> \o x # <<>> /\ Head(<<m>> \o x) = m /\ Tail(<<m>> \o x) = <<>> \o x
    BY <1>3, <2>2
  <2>4. <<>> \o Append(pipe[f], m) = Append(<<>> \o pipe[f], m)
    BY <1>3, <2>2
  <2>5. /\ Inbox(d) # <<>> /\ m = Head(Inbox(d)) /\ Inbox(d)' = Tail(Inbox(d))
        /\ Outbox(d)' = Append(Outbox(d), m)
    BY <1>4, <2>1, <2>3, <2>4
  <2> QED BY <1>2, <2>2, <2>5, SameSent DEF Served
<1>6. ASSUME m.kind # "call" PROVE Still(d)
  <2>1. CallIn(m) = <<>> /\ pipe' = pipe
    BY <1>2, <1>6 DEF CallIn
  <2> QED BY <1>2, <1>4, <2>1, SameSent DEF Still
<1>7. ASSUME NEW c \in Conns, c # d PROVE Still(c)
  <2>1. WorkerStep(w) /\ ~Take(w) /\ Owners'
    BY <1>0 DEF WorkerStep, Take, Pool!Begin, Events
  <2>2. \A g \in Fds : g # f => pipe'[g] = pipe[g]
    BY <1>0, <1>2
  <2> QED BY <1>0, <1>1, <1>2, <1>7, <2>1, <2>2, Elsewhere
<1> QED BY <1>3, <1>5, <1>6, <1>7

(* send() delivers the head of the outbox: its client is still there.      *)
LEMMA SendStep ==
  ASSUME Ledger, Events', NEW w \in Workers, Send(w)
  PROVE  \E d \in Conns : Delivered(d) /\ \A c \in Conns : c # d => Still(c)
<1>0. /\ Events /\ Lock /\ Owners /\ pc \in [Workers -> PCs]
      /\ got \in [Conns -> Seq(Messages)]
      /\ peer \in [Conns -> {"new", "open", "closed", "reset"}]
      /\ held[w] # None /\ held[w].fd \in Fds /\ pc[w] = "send"
      /\ loc[w] \in Messages /\ loc[w].kind = "call"
  BY DEF Send, At, Ledger, Events, Lock, TypeOK, Labels, CallsOnly
<1>1. PICK f \in Fds : f = held[w].fd
  BY <1>0
<1> DEFINE d == owner[f]
<1> DEFINE m == loc[w]
<1> DEFINE x == CallsIn(stream[d])
<1>2. /\ UNCHANGED <<owner, sent, stream, held, loc, pipe>>
      /\ pc' = [pc EXCEPT ![w] = "done"]
      /\ peer[d] # "reset"
      /\ got' = IF peer[d] = "open" THEN [got EXCEPT ![d] = Append(@, m)] ELSE got
  BY <1>0, <1>1 DEF Send, Goto
<1>3. /\ d \in Conns /\ BoxesAt(f) /\ BoxesAt(f)' /\ pipe[f] \in Seq(Messages)
      /\ InHand(f, "handle") = <<>> /\ InHand(f, "handle")' = <<>>
      /\ InHand(f, "send") = CallIn(m) /\ InHand(f, "send")' = <<>>
      /\ x \in Seq(Messages) /\ f \notin deaf
  BY <1>0, <1>1, <1>2, OwnHand
<1>4. /\ Inbox(d) = <<>> \o x /\ Outbox(d) = <<m>> \o pipe[f]
      /\ Inbox(d)' = <<>> \o x /\ Outbox(d)' = <<>> \o pipe[f]
  <2>1. CallIn(m) = <<m>>
    BY <1>0 DEF CallIn
  <2> QED BY <1>2, <1>3, <2>1 DEF BoxesAt
<1>5. <<m>> \o pipe[f] # <<>> /\ Head(<<m>> \o pipe[f]) = m /\ Tail(<<m>> \o pipe[f]) = <<>> \o pipe[f]
  <2>1. m \in Messages
    BY <1>0
  <2> HIDE DEF m
  <2> QED BY <1>3, <2>1
<1>6. peer[d] = "open"
  <2>1. peer[d] # "new"
    BY <1>0, <1>3, ServerAssumption DEF Owners
  <2>2. ASSUME peer[d] = "closed" PROVE FALSE
    <3>1. \A g \in deaf \cap Fds : owner[g] # d
      BY <1>0, <1>3, ServerAssumption DEF Owners
    <3>2. Outbox(d) = <<>>
      BY <1>3, <2>2, <3>1, ClosedIsDone
    <3> QED BY <1>4, <1>5, <3>2
  <2> QED BY <1>0, <1>2, <1>3, <2>1, <2>2
<1>7. Delivered(d)
  <2>1. got'[d] = Append(got[d], m)
    BY <1>0, <1>2, <1>3, <1>6
  <2> HIDE DEF m, x
  <2> QED BY <1>2, <1>4, <1>5, <1>6, <2>1, SameSent DEF Delivered
<1>8. ASSUME NEW c \in Conns, c # d PROVE Still(c)
  <2>1. WorkerStep(w) /\ ~Take(w) /\ Owners'
    BY <1>0 DEF WorkerStep, Take, Pool!Begin, Events
  <2>2. got'[c] = got[c]
    BY <1>0, <1>2, <1>8
  <2> QED BY <1>0, <1>1, <1>2, <1>8, <2>1, <2>2, Elsewhere
<1> QED BY <1>3, <1>7, <1>8

(* A request taken for a bad packet empties the inbox and deafens the fd.  *)
LEMMA ShortReadStep ==
  ASSUME Ledger, Events', NEW w \in Workers, ShortRead(w)
  PROVE  \E d \in Conns : Lost(d) /\ \A c \in Conns : c # d => Still(c)
<1>0. /\ Events /\ Lock /\ pc \in [Workers -> PCs]
      /\ stream \in [Conns -> Seq(Messages)] /\ held \in [Workers -> Tasks \cup {None}]
      /\ held[w] # None /\ held[w].fd \in Fds /\ pc[w] = "start"
  <2>1. Lock /\ pc[w] = "start" /\ held[w] # None /\ held[w].fd # ListenFd
    BY DEF ShortRead, Event, At, Ledger, Events, Lock, TypeOK
  <2> QED BY <2>1, OwnerOfTask DEF Ledger, Events, Lock, TypeOK
<1>1. PICK f \in Fds : f = held[w].fd
  BY <1>0
<1> DEFINE d == owner[f]
<1>2. /\ UNCHANGED <<owner, sent, got, pipe, batch>>
      /\ stream' = [stream EXCEPT ![d] = <<>>]
      /\ Return(w) /\ f \in deaf'
  BY <1>1 DEF ShortRead, Desert
<1>3. /\ d \in Conns /\ BoxesAt(f) /\ BoxesAt(f)'
      /\ InHand(f, "send") = <<>>
  BY <1>0, <1>1, <1>2, OwnHand
<1>4. InHand(f, "handle")' = <<>> /\ InHand(f, "send")' = <<>>
  <2>1. ~InFlight(f)'
    BY <1>0, <1>1, <1>2, ReturnFrees DEF AllFds
  <2>2. \A v \in Workers : ~Busy(v, f)'
    BY <2>1 DEF InFlight
  <2> QED BY <2>2, HandNoneNext
<1>5. stream'[d] = <<>>
  BY <1>0, <1>2, <1>3
<1>6. /\ Outbox(d) = <<>> \o pipe[f] /\ Outbox(d)' = <<>> \o pipe[f]
      /\ Inbox(d)' = <<>> \o CallsIn(<<>>)
  BY <1>2, <1>3, <1>4, <1>5 DEF BoxesAt
<1>7. <<>> \o CallsIn(<<>>) = <<>>
  BY CallsInEmpty
<1>8. Lost(d)
  BY <1>2, <1>6, <1>7, SameSent DEF Lost
<1>9. ASSUME NEW c \in Conns, c # d PROVE Still(c)
  <2>1. WorkerStep(w) /\ ~Take(w) /\ Owners'
    BY <1>0 DEF WorkerStep, Take, Pool!Begin, Events
  <2>2. stream'[c] = stream[c]
    BY <1>0, <1>2, <1>9
  <2> QED BY <1>0, <1>1, <1>2, <1>9, <2>1, <2>2, Elsewhere
<1> QED BY <1>3, <1>8, <1>9

(* accept() gives a connection an empty pipe and idle hands.               *)
LEMMA AcceptStep ==
  ASSUME Ledger, Events', NEW w \in Workers, Accept(w)
  PROVE  \A c \in Conns : Still(c)
<1>0. /\ Lock /\ Owners /\ Owners' /\ Free /\ Books /\ Pending
      /\ owner \in [Fds -> Conns \cup {None}]
      /\ pc \in [Workers -> PCs] /\ loc \in [Workers -> Messages \cup Fds \cup {None}]
      /\ backlog \in Seq(Conns) /\ backlog # <<>> /\ None \notin Conns
      /\ UNCHANGED <<sent, stream, got, held, pipe>>
  BY ServerAssumption DEF Ledger, Events, Lock, TypeOK, Accept, Goto
<1>1. PICK f \in Fds : /\ owner[f] = None
                       /\ owner' = [owner EXCEPT ![f] = Head(backlog)]
                       /\ loc' = [loc EXCEPT ![w] = f]
  BY DEF Accept
<1>2. pc[w] = "start" /\ pc' = [pc EXCEPT ![w] = "attach"]
  BY DEF Accept, Goto, Event, At
<1>3. PICK d \in Conns : d = Head(backlog)
  BY <1>0
<1>4. \A g \in Fds : owner[g] # d
  <2>1. Head(backlog) = backlog[1] /\ 1 \in 1..Len(backlog)
    BY <1>0
  <2> QED BY <1>0, <1>3, <2>1 DEF Owners
<1>5. owner'[f] = d /\ \A g \in Fds : g # f => owner'[g] = owner[g]
  BY <1>0, <1>1, <1>3
<1>6. \A v \in Workers, l \in {"handle", "send"} :
        \/ held'[v] = held[v] /\ pc'[v] = pc[v] /\ loc'[v] = loc[v]
        \/ /\ pc[v] = l => loc[v].kind # "call"
           /\ pc'[v] = l => loc'[v].kind # "call"
  BY <1>0, <1>1, <1>2
<1>7. \A g \in Fds : /\ InHand(g, "handle")' = InHand(g, "handle")
                     /\ InHand(g, "send")' = InHand(g, "send")
  BY <1>6, HandFrame
<1>8. Still(d)
  <2>1. Inbox(d) = CallsIn(stream[d]) /\ Outbox(d) = <<>>
    BY <1>4, BoxesFree
  <2>2. InHand(f, "handle") = <<>> /\ InHand(f, "send") = <<>> /\ pipe[f] = <<>>
    <3>1. \A v \in Workers : ~Busy(v, f)
      BY <1>0, <1>1 DEF Free, InFlight
    <3> QED BY <1>0, <1>1, <3>1, HandNone DEF Books
  <2>3. BoxesAt(f)'
    BY <1>0, <1>5, BoxesOwnedNext
  <2>4. Inbox(d)' = <<>> \o CallsIn(stream[d]) /\ Outbox(d)' = <<>> \o <<>>
    BY <1>0, <1>5, <1>7, <2>2, <2>3 DEF BoxesAt
  <2>5. CallsIn(stream[d]) \in Seq(Messages)
    BY <1>0, BoxesType
  <2>6. <<>> \o CallsIn(stream[d]) = CallsIn(stream[d]) /\ <<>> \o <<>> = <<>>
    BY <2>5, ConcatEmptySeq
  <2> QED BY <1>0, <2>1, <2>4, <2>6, SameSent DEF Still
<1>9. ASSUME NEW c \in Conns, c # d PROVE Still(c)
  <2>1. \A g \in Fds : owner'[g] = c <=> owner[g] = c
    BY <1>0, <1>1, <1>5, <1>9
  <2>2. Inbox(c)' = Inbox(c) /\ Outbox(c)' = Outbox(c)
    BY <1>0, <1>7, <2>1, BoxFrame
  <2> QED BY <1>0, <2>2, SameSent DEF Still
<1> QED BY <1>8, <1>9

(* close() leaves nothing behind: the client had closed, so it had all.    *)
LEMMA CloseFdStep ==
  ASSUME Ledger, Events', NEW w \in Workers, CloseFd(w)
  PROVE  /\ \A c \in Conns : Still(c)
         /\ pipe[held[w].fd] = <<>>
<1>0. /\ Lock /\ Owners /\ Owners' /\ Free /\ Hangup /\ Off
      /\ owner \in [Fds -> Conns \cup {None}]
      /\ pc \in [Workers -> PCs] /\ pipe \in [Fds -> Seq(Messages)]
      /\ None \notin Conns
      /\ held[w] # None /\ held[w].fd \in Fds /\ pc[w] = "close"
      /\ UNCHANGED <<sent, stream, got, batch, pipe>>
      /\ Return(w)
  BY ServerAssumption DEF Ledger, Events, Lock, TypeOK, Labels, CloseFd, At, clientVars
<1>1. PICK f \in Fds : f = held[w].fd
  BY <1>0
<1>2. /\ pc'[w] = "idle"
      /\ \A v \in Workers : v # w =>
           held'[v] = held[v] /\ pc'[v] = pc[v] /\ loc'[v] = loc[v]
  BY <1>0, ReturnFrees
<1>3. \A g \in Fds : /\ InHand(g, "handle")' = InHand(g, "handle")
                     /\ InHand(g, "send")' = InHand(g, "send")
  <2>1. \A v \in Workers, l \in {"handle", "send"} :
          \/ held'[v] = held[v] /\ pc'[v] = pc[v] /\ loc'[v] = loc[v]
          \/ /\ pc[v] = l => loc[v].kind # "call"
             /\ pc'[v] = l => loc'[v].kind # "call"
    BY <1>0, <1>2
  <2> QED BY <2>1, HandFrame
<1>4. owner[f] \in Conns /\ f \notin deaf
  <2>1. InFlight(f)
    BY <1>0, <1>1 DEF InFlight, Busy
  <2> QED BY <1>0, <2>1 DEF Free, Off
<1>5. PICK d \in Conns : d = owner[f]
  BY <1>4
<1>6. owner'[f] = None /\ \A g \in Fds : g # f => owner'[g] = owner[g]
  BY <1>0, <1>1 DEF CloseFd
<1>7. Inbox(d) = <<>> /\ Outbox(d) = <<>>
  <2>1. peer[d] = "closed"
    BY <1>0, <1>1, <1>5 DEF Hangup
  <2>2. \A g \in deaf \cap Fds : owner[g] # d
    BY <1>0, <1>4, <1>5 DEF Owners
  <2> QED BY <2>1, <2>2, ClosedIsDone
<1>8. CallsIn(stream[d]) = <<>> /\ pipe[f] = <<>>
  <2>1. BoxesAt(f)
    BY <1>0, <1>4, BoxesOwned
  <2>2. /\ InHand(f, "handle") \o CallsIn(stream[d]) = <<>>
        /\ InHand(f, "send") \o pipe[f] = <<>>
    BY <1>5, <1>7, <2>1 DEF BoxesAt
  <2>3. /\ InHand(f, "handle") \in Seq(Messages) /\ InHand(f, "send") \in Seq(Messages)
        /\ pipe[f] \in Seq(Messages) /\ CallsIn(stream[d]) \in Seq(Messages)
    BY <1>0, HandType, BoxesType
  <2> QED BY <2>2, <2>3, ConcatEqualIffEmpty
<1>9. Still(d)
  <2>1. \A g \in Fds : owner'[g] # d
    BY <1>0, <1>5, <1>6 DEF Owners
  <2>2. Inbox(d)' = CallsIn(stream'[d]) /\ Outbox(d)' = <<>>
    BY <2>1, BoxesFreeNext
  <2> QED BY <1>0, <1>7, <1>8, <2>2, SameSent DEF Still
<1>10. ASSUME NEW c \in Conns, c # d PROVE Still(c)
  <2>1. \A g \in Fds : owner'[g] = c <=> owner[g] = c
    BY <1>0, <1>5, <1>6, <1>10
  <2>2. Inbox(c)' = Inbox(c) /\ Outbox(c)' = Outbox(c)
    BY <1>0, <1>3, <2>1, BoxFrame
  <2> QED BY <1>0, <2>2, SameSent DEF Still
<1> QED BY <1>1, <1>8, <1>9, <1>10

(* Every step is one of the service's, on one connection, or none.         *)
LEMMA ServiceStep ==
  ASSUME Patient, Ledger, Events', Next
  PROVE  \/ \A c \in Conns : Still(c)
         \/ \E d \in Conns : /\ Posted(d) \/ Served(d) \/ Delivered(d) \/ Lost(d)
                             /\ \A c \in Conns : c # d => Still(c)
<1>0. Events /\ Owners' /\ Lock
  BY DEF Ledger, Events
<1>1. ASSUME NEW d \in Conns, NEW k \in Kinds, NEW part \in BOOLEAN,
             Request(d, k, part), NEW c \in Conns, c # d
      PROVE  Still(c)
  <2>1. /\ stream'[c] = stream[c] /\ sent'[c] = sent[c]
        /\ UNCHANGED <<got, serverVars>>
    BY <1>0, <1>1 DEF Request, Lock, TypeOK
  <2>2. \A w \in Workers : held'[w] = held[w] /\ pc'[w] = pc[w] /\ loc'[w] = loc[w]
    BY <2>1 DEF serverVars
  <2>3. \A f \in Fds : /\ InHand(f, "handle")' = InHand(f, "handle")
                       /\ InHand(f, "send")' = InHand(f, "send")
    BY <2>2, HandFrame
  <2>4. Inbox(c)' = Inbox(c) /\ Outbox(c)' = Outbox(c)
    BY <1>0, <2>1, <2>3, BoxFrame, ServerAssumption DEF serverVars, Events
  <2> QED BY <2>1, <2>4, SameSent DEF Still
<1>2. \A d \in Conns, k \in Kinds, part \in BOOLEAN :
        Request(d, k, part) => Still(d) \/ Posted(d)
  BY <1>0, RequestStep
<1>3. \A w \in Workers : ~SendWouldBlock(w)
  BY DEF SendWouldBlock, Patient
<1>4. CASE \E d \in Conns, k \in Kinds, part \in BOOLEAN : Request(d, k, part)
  BY <1>1, <1>2, <1>4
<1>5. ASSUME NEW w \in Workers, Accept(w) \/ Recv(w) \/ ReadPipe(w) \/ CloseFd(w)
      PROVE  \A c \in Conns : Still(c)
  BY <1>5, AcceptStep, RecvStep, ReadPipeStep, CloseFdStep
<1>6. ASSUME NEW w \in Workers, HandleRequest(w) \/ Send(w) \/ ShortRead(w)
      PROVE  \/ \A c \in Conns : Still(c)
             \/ \E d \in Conns : /\ Posted(d) \/ Served(d) \/ Delivered(d) \/ Lost(d)
                                 /\ \A c \in Conns : c # d => Still(c)
  <2>1. CASE HandleRequest(w)
    BY <2>1, HandleStep
  <2>2. CASE Send(w)
    BY <2>2, SendStep
  <2>3. CASE ShortRead(w)
    BY <2>3, ShortReadStep
  <2> QED BY <1>6, <2>1, <2>2, <2>3
<1> QED BY <1>0, <1>3, <1>4, <1>5, <1>6, OtherStep

-----------------------------------------------------------------------------
(* The books stay balanced.                                                *)

(* What the service's steps do to the three sequences laid end to end.     *)
LEMMA PostedJoins ==
  \A g, o, i \in Seq(Messages), m \in Messages :
    g \o (o \o Append(i, m)) = Append(g \o (o \o i), m)
<1> SUFFICES ASSUME NEW g \in Seq(Messages), NEW o \in Seq(Messages),
                    NEW i \in Seq(Messages), NEW m \in Messages
             PROVE  g \o (o \o Append(i, m)) = Append(g \o (o \o i), m)
  OBVIOUS
<1>1. <<m>> \in Seq(Messages) /\ o \o i \in Seq(Messages)
  BY ConcatProperties
<1>2. g \o (o \o i) \in Seq(Messages)
  BY <1>1, ConcatProperties
<1>3. Append(i, m) = i \o <<m>> /\ Append(g \o (o \o i), m) = (g \o (o \o i)) \o <<m>>
  BY <1>2, AppendIsConcat
<1>4. (o \o i) \o <<m>> = o \o (i \o <<m>>)
  <2>1. Joins(o, i, <<m>>)
    BY <1>1, Associative, Zenon
  <2> QED BY <2>1 DEF Joins
<1>5. (g \o (o \o i)) \o <<m>> = g \o ((o \o i) \o <<m>>)
  <2>1. Joins(g, o \o i, <<m>>)
    BY <1>1, Associative, Zenon
  <2> QED BY <2>1 DEF Joins
<1> QED BY <1>3, <1>4, <1>5

LEMMA HeadMoves ==
  \A o, i \in Seq(Messages) :
    i # <<>> => Append(o, Head(i)) \o Tail(i) = o \o i
<1> SUFFICES ASSUME NEW o \in Seq(Messages), NEW i \in Seq(Messages), i # <<>>
             PROVE  Append(o, Head(i)) \o Tail(i) = o \o i
  OBVIOUS
<1>1. Head(i) \in Messages /\ Tail(i) \in Seq(Messages) /\ i = <<Head(i)>> \o Tail(i)
  OBVIOUS
<1>2. Append(o, Head(i)) = o \o <<Head(i)>> /\ <<Head(i)>> \in Seq(Messages)
  BY <1>1, AppendIsConcat
<1>3. (o \o <<Head(i)>>) \o Tail(i) = o \o (<<Head(i)>> \o Tail(i))
  <2>1. Joins(o, <<Head(i)>>, Tail(i))
    BY <1>1, <1>2, Associative, Zenon
  <2> QED BY <2>1 DEF Joins
<1> QED BY <1>1, <1>2, <1>3

LEMMA HeadLeaves ==
  \A g, o, i \in Seq(Messages) :
    o # <<>> => Append(g, Head(o)) \o (Tail(o) \o i) = g \o (o \o i)
<1> SUFFICES ASSUME NEW g \in Seq(Messages), NEW o \in Seq(Messages),
                    NEW i \in Seq(Messages), o # <<>>
             PROVE  Append(g, Head(o)) \o (Tail(o) \o i) = g \o (o \o i)
  OBVIOUS
<1> DEFINE h == Append(g, Head(o))
<1> DEFINE t == Tail(o)
<1>1. h \in Seq(Messages) /\ t \in Seq(Messages)
  OBVIOUS
<1>2. h \o t = g \o o
  BY HeadMoves
<1> HIDE DEF h, t
<1>3. (h \o t) \o i = h \o (t \o i)
  <2>1. Joins(h, t, i)
    BY <1>1, Associative, Zenon
  <2> QED BY <2>1 DEF Joins
<1>4. (g \o o) \o i = g \o (o \o i)
  <2>1. Joins(g, o, i)
    BY Associative, Zenon
  <2> QED BY <2>1 DEF Joins
<1>5. h \o (t \o i) = g \o (o \o i)
  BY <1>2, <1>3, <1>4
<1> QED BY <1>5 DEF h, t

(* Every step keeps the account of every connection.                       *)
LEMMA BooksStep ==
  ASSUME Patient, Ledger, Events', Next
  PROVE  Books'
<1>0. /\ Lock /\ Owners /\ Free /\ Books /\ got \in [Conns -> Seq(Messages)]
      /\ owner \in [Fds -> Conns \cup {None}] /\ pipe \in [Fds -> Seq(Messages)]
      /\ peer \in [Conns -> {"new", "open", "closed", "reset"}]
      /\ sent \in [Conns -> Seq(Kinds)] /\ MaxReqs \in Nat
  BY ServerAssumption DEF Ledger, Events, Lock, TypeOK
<1>1. ASSUME NEW c \in Conns
      PROVE  Still(c) \/ Posted(c) \/ Served(c) \/ Delivered(c) \/ Lost(c)
  BY ServiceStep
<1>2. ASSUME NEW c \in Conns, \A f \in deaf' \cap Fds : owner'[f] # c
      PROVE  got'[c] \o (Outbox(c)' \o Inbox(c)') = CallsOf(c)'
  <2>1. got[c] \o (Outbox(c) \o Inbox(c)) = CallsOf(c)
    BY <1>0, <1>2, DeafStays DEF Books, Ledger
  <2> DEFINE g == got[c]
  <2> DEFINE o == Outbox(c)
  <2> DEFINE i == Inbox(c)
  <2>2. g \in Seq(Messages) /\ o \in Seq(Messages) /\ i \in Seq(Messages)
    BY <1>0, BoxesType
  <2>3. CASE Still(c)
    BY <2>1, <2>3 DEF Still
  <2>4. CASE Posted(c)
    <3>1. PICK m \in Messages :
            /\ Inbox(c)' = Append(i, m) /\ Outbox(c)' = o
            /\ got'[c] = g /\ CallsOf(c)' = Append(CallsOf(c), m)
      BY <2>4 DEF Posted
    <3> HIDE DEF g, o, i
    <3>2. g \o (o \o Append(i, m)) = Append(g \o (o \o i), m)
      BY <2>2, PostedJoins, ZenonT(30)
    <3> QED BY <2>1, <3>1, <3>2 DEF g, o, i
  <2>5. CASE Served(c)
    <3>1. /\ i # <<>> /\ Inbox(c)' = Tail(i) /\ Outbox(c)' = Append(o, Head(i))
          /\ got'[c] = g /\ CallsOf(c)' = CallsOf(c)
      BY <2>5 DEF Served
    <3> HIDE DEF g, o, i
    <3>2. Append(o, Head(i)) \o Tail(i) = o \o i
      BY <2>2, <3>1, HeadMoves
    <3> QED BY <2>1, <3>1, <3>2 DEF g, o, i
  <2>6. CASE Delivered(c)
    <3>1. /\ o # <<>> /\ Outbox(c)' = Tail(o) /\ got'[c] = Append(g, Head(o))
          /\ Inbox(c)' = i /\ CallsOf(c)' = CallsOf(c)
      BY <2>6 DEF Delivered
    <3> HIDE DEF g, o, i
    <3>2. Append(g, Head(o)) \o (Tail(o) \o i) = g \o (o \o i)
      BY <2>2, <3>1, HeadLeaves, Zenon
    <3> QED BY <2>1, <3>1, <3>2 DEF g, o, i
  <2>7. ~Lost(c)
    BY <1>2 DEF Lost
  <2> QED BY <1>1, <2>3, <2>4, <2>5, <2>6, <2>7
<1>3. ASSUME NEW c \in Conns, peer'[c] = "closed"
      PROVE  Len(got'[c]) = Len(CallsOf(c)')
  <2>1. CASE peer[c] = "closed"
    <3>1. Len(got[c]) = Len(CallsOf(c))
      BY <1>0, <2>1 DEF Books
    <3>2. ~Posted(c) /\ ~Delivered(c)
      BY <2>1 DEF Posted, Delivered
    <3>3. Still(c) \/ Served(c) \/ Lost(c) => got'[c] = got[c] /\ CallsOf(c)' = CallsOf(c)
      BY DEF Still, Served, Lost
    <3> QED BY <1>1, <3>1, <3>2, <3>3
  <2>2. CASE peer[c] # "closed"
    <3>0. \A w \in Workers : ~SetupFails(w)
      BY DEF SetupFails, Patient
    <3>1. PICK d \in Conns : Connect(d) \/ Close(d) \/ Reset(d)
      BY <1>3, <2>2, <3>0, Frame
    <3>2. d = c /\ Close(c)
      <4>1. ~Connect(d) /\ ~Reset(d)
        BY <1>0, <1>3, <2>2 DEF Connect, Reset
      <4> QED BY <1>0, <1>3, <2>2, <3>1, <4>1 DEF Close
    <3>3. Len(got[c]) = Len(CallsOf(c)) /\ UNCHANGED <<sent, got>>
      BY <3>2 DEF Close, Patient
    <3> QED BY <3>3, SameSent
  <2> QED BY <2>1, <2>2
<1>4. ASSUME NEW f \in Fds, owner'[f] = None PROVE pipe'[f] = <<>>
  <2>1. ASSUME NEW w \in Workers, HandleRequest(w) \/ ReadPipe(w)
        PROVE  pipe'[f] = pipe[f] /\ owner[f] = None
    <3>1. held[w] # None /\ UNCHANGED owner
      BY <1>0, <2>1 DEF HandleRequest, ReadPipe, Event, At, Lock, TypeOK
    <3>2. held[w].fd # f
      BY <1>0, <1>4, <3>1 DEF Free, InFlight, Busy
    <3>3. CASE HandleRequest(w)
      BY <1>0, <1>4, <3>1, <3>2, <3>3 DEF HandleRequest
    <3>4. CASE ReadPipe(w)
      BY <1>0, <1>4, <3>1, <3>2, <3>4 DEF ReadPipe
    <3> QED BY <2>1, <3>3, <3>4
  <2>2. CASE UNCHANGED pipe /\ owner[f] = None
    BY <1>0, <2>2 DEF Books
  <2>3. CASE UNCHANGED pipe /\ owner[f] # None
    <3>1. PICK w \in Workers : Accept(w) \/ CloseFd(w)
      BY <1>4, <2>3, Frame
    <3>2. ~Accept(w)
      BY <1>0, <1>4, <2>3 DEF Accept
    <3>3. CloseFd(w) /\ held[w].fd = f
      BY <1>0, <1>4, <2>3, <3>1, <3>2 DEF CloseFd
    <3> QED BY <2>3, <3>3, CloseFdStep
  <2> QED BY <1>0, <2>1, <2>2, <2>3, Frame DEF Books
<1>5. ASSUME NEW c \in Conns PROVE Len(sent'[c]) <= MaxReqs
  <2>1. ASSUME NEW d \in Conns, NEW k \in Kinds, NEW part \in BOOLEAN,
               Request(d, k, part)
        PROVE  Len(sent'[c]) <= MaxReqs
    <3>1. Len(sent[d]) \in Nat /\ Len(sent[d]) < MaxReqs
      BY <1>0, <2>1 DEF Request
    <3>2. sent'[c] = sent[c] \/ (c = d /\ sent'[c] = Append(sent[c], k))
      BY <1>0, <2>1 DEF Request
    <3>3. Len(Append(sent[c], k)) = Len(sent[c]) + 1
      BY <1>0
    <3> QED BY <1>0, <3>1, <3>2, <3>3 DEF Books
  <2> QED BY <1>0, <2>1, TalkFrame DEF Books
<1> QED BY <1>2, <1>3, <1>4, <1>5 DEF Books

(* The ledger is an invariant of the server with patient clients.          *)
LEMMA LedgerInvariant ==
  ASSUME Patient
  PROVE  Spec => []Ledger
<1>1. Init /\ Events => Ledger
  <2> SUFFICES ASSUME Init, Events PROVE Ledger
    OBVIOUS
  <2>1. Off
    BY DEF Init, Pool!PoolInit, Off, InFlight, Busy
  <2>2. CallsOnly
    BY DEF Init, CallsOnly
  <2>3. Hangup
    <3>1. \A t \in Tasks : ~Reported(t)
      BY NoneAssumption DEF Init, Pool!PoolInit, Reported
    <3> QED BY <3>1 DEF Init, Hangup
  <2>4. Books
    <3>1. ASSUME NEW c \in Conns
          PROVE  /\ got[c] = <<>> /\ sent[c] = <<>> /\ peer[c] = "new"
                 /\ Inbox(c) = <<>> /\ Outbox(c) = <<>> /\ CallsOf(c) = <<>>
      <4>1. got[c] = <<>> /\ sent[c] = <<>> /\ peer[c] = "new" /\ stream[c] = <<>>
        BY DEF Init
      <4>2. \A f \in Fds : owner[f] # c
        BY ServerAssumption DEF Init
      <4>3. Inbox(c) = CallsIn(<<>>) /\ Outbox(c) = <<>>
        BY <4>1, <4>2, BoxesFree
      <4>4. SentBy(c) = <<>>
        BY <4>1 DEF SentBy
      <4> QED BY <4>1, <4>3, <4>4, CallsInEmpty DEF CallsOf
    <3>2. <<>> \o (<<>> \o <<>>) = <<>> /\ Len(<<>>) = 0
      OBVIOUS
    <3>3. \A f \in Fds : pipe[f] = <<>>
      BY DEF Init
    <3>4. \A c \in Conns : got[c] \o (Outbox(c) \o Inbox(c)) = CallsOf(c)
      BY <3>1, <3>2
    <3>5. \A c \in Conns : peer[c] # "closed" /\ Len(sent[c]) <= MaxReqs
      BY <3>1, <3>2, ServerAssumption
    <3> QED BY <3>3, <3>4, <3>5 DEF Books
  <2> QED BY <2>1, <2>2, <2>3, <2>4 DEF Ledger
<1>2. Ledger /\ Events' /\ [Next]_vars => Ledger'
  <2> SUFFICES ASSUME Ledger, Events', [Next]_vars PROVE Ledger'
    OBVIOUS
  <2>1. CASE Next
    <3>1. Lock /\ Events /\ Off /\ CallsOnly /\ Hangup
      BY DEF Ledger, Events
    <3>2. Off' /\ CallsOnly' /\ Hangup' /\ Books'
      BY <2>1, <3>1, OffStep, CallsOnlyStep, HangupStep, BooksStep
    <3> QED BY <3>2 DEF Ledger
  <2>2. CASE UNCHANGED vars
    <3>1. Off' /\ CallsOnly'
      BY <2>2 DEF vars, serverVars, clientVars, Ledger, Off, CallsOnly, InFlight, Busy
    <3>2. Hangup'
      BY <2>2 DEF vars, serverVars, clientVars, Ledger, Hangup, Reported
    <3>3. ASSUME NEW c \in Conns PROVE Still(c)
      <4>1. Events /\ Owners'
        BY DEF Ledger, Events
      <4>2. \A w \in Workers : held'[w] = held[w] /\ pc'[w] = pc[w] /\ loc'[w] = loc[w]
        BY <2>2 DEF vars, serverVars, clientVars
      <4>3. UNCHANGED <<stream, owner, pipe, sent, got>>
        BY <2>2 DEF vars, serverVars, clientVars
      <4> QED BY <4>1, <4>2, <4>3, QuietStep
    <3>4. Books'
      <4>1. UNCHANGED <<peer, sent, owner, pipe, deaf>> /\ Books
        BY <2>2 DEF vars, serverVars, clientVars, Ledger
      <4> QED BY <3>3, <4>1 DEF Books, Still
    <3> QED BY <3>1, <3>2, <3>4 DEF Ledger
  <2> QED BY <2>1, <2>2
<1> QED BY <1>1, <1>2, EventsInvariant, PTL DEF Spec

(* While clients wait for their answers, each call of a connection is in   *)
(* exactly one place between its receive buffer and its client, in the     *)
(* order of sending: no step of recv(), Handle, ReturnValuePipe::Write,    *)
(* Read or send(), by whichever worker, drops, repeats or reorders one.    *)
THEOREM NoCallLost ==
  ASSUME Patient
  PROVE  Spec => []NothingLost
<1>1. Ledger => NothingLost
  <2> SUFFICES ASSUME Ledger, NEW f \in Fds, owner[f] # None, f \notin deaf
               PROVE  got[owner[f]] \o InHand(f, "send") \o pipe[f]
                        \o InHand(f, "handle") \o CallsIn(stream[owner[f]])
                      = CallsOf(owner[f])
    BY DEF NothingLost
  <2>0. /\ Lock /\ Owners /\ owner[f] \in Conns
        /\ got[owner[f]] \in Seq(Messages) /\ pipe[f] \in Seq(Messages)
    BY DEF Ledger, Events, Lock, TypeOK
  <2>1. \A g \in deaf \cap Fds : owner[g] # owner[f]
    BY <2>0 DEF Owners
  <2>2. BoxesAt(f)
    BY <2>0, BoxesOwned
  <2> DEFINE g == got[owner[f]]
  <2> DEFINE a == InHand(f, "send")
  <2> DEFINE p == pipe[f]
  <2> DEFINE b == InHand(f, "handle")
  <2> DEFINE x == CallsIn(stream[owner[f]])
  <2>3. g \o ((a \o p) \o (b \o x)) = CallsOf(owner[f])
    BY <2>0, <2>1, <2>2 DEF Ledger, Books, BoxesAt
  <2>4. g \in Seq(Messages) /\ a \in Seq(Messages) /\ p \in Seq(Messages)
    BY <2>0, HandType
  <2>5. b \in Seq(Messages) /\ x \in Seq(Messages)
    BY <2>0, HandType, BoxesType
  <2>6. (((g \o a) \o p) \o b) \o x = g \o ((a \o p) \o (b \o x))
    <3> HIDE DEF g, a, p, b, x
    <3>1. (g \o a) \o p = g \o (a \o p)
      <4>1. Joins(g, a, p)
        BY <2>4, Associative, Zenon
      <4> QED BY <4>1 DEF Joins
    <3> DEFINE ap == a \o p
    <3> DEFINE bx == b \o x
    <3> DEFINE gap == g \o ap
    <3>2. ap \in Seq(Messages) /\ bx \in Seq(Messages)
      BY <2>4, <2>5, ConcatProperties
    <3> HIDE DEF ap
    <3>3. gap \in Seq(Messages)
      BY <2>4, <3>2, ConcatProperties
    <3> HIDE DEF gap
    <3>4. (gap \o b) \o x = gap \o bx
      <4>1. Joins(gap, b, x)
        BY <2>5, <3>3, Associative, Zenon
      <4> QED BY <4>1 DEF Joins
    <3> HIDE DEF bx
    <3>5. g \in Seq(Messages)
      BY <2>4
    <3>6. (g \o ap) \o bx = g \o (ap \o bx)
      <4>1. Joins(g, ap, bx)
        BY <3>2, <3>5, Associative, Zenon
      <4> QED BY <4>1 DEF Joins
    <3>7. (gap \o b) \o x = g \o (ap \o bx)
      BY <3>4, <3>6 DEF gap
    <3> QED BY <3>1, <3>7 DEF gap, ap, bx
  <2> QED BY <2>3, <2>6
<1> QED BY <1>1, LedgerInvariant, PTL

(* With patient clients every step of the server is a step of RpcService   *)
(* or invisible to it: calls are served once and in order, results are     *)
(* delivered once, in order and to their caller, and what was served is    *)
(* never lost.                                                             *)
THEOREM ServerImplementsService ==
  ASSUME Patient
  PROVE  Spec => ImplementsRpcService
<1> DEFINE ib == [c \in Conns |-> Inbox(c)]
<1> DEFINE ob == [c \in Conns |-> Outbox(c)]
<1>1. Init /\ Events => Service!SvcInit
  <2> SUFFICES ASSUME Init, Events PROVE Service!SvcInit
    OBVIOUS
  <2>1. ASSUME NEW c \in Conns PROVE Inbox(c) = <<>> /\ Outbox(c) = <<>>
    <3>1. stream[c] = <<>> /\ \A f \in Fds : owner[f] # c
      BY ServerAssumption DEF Init
    <3> QED BY <3>1, BoxesFree, CallsInEmpty
  <2>2. got = [c \in Conns |-> <<>>]
    BY DEF Init
  <2> QED BY <2>1, <2>2 DEF Service!SvcInit
<1>2. Ledger /\ Ledger' /\ [Next]_vars => [Service!SvcNext]_(Service!svcVars)
  <2> SUFFICES ASSUME Ledger, Ledger', [Next]_vars
               PROVE  Service!SvcNext \/ UNCHANGED <<ib, ob, got>>
    BY DEF Service!svcVars
  <2>0. got \in [Conns -> Seq(Messages)] /\ got' \in [Conns -> Seq(Messages)]
    BY DEF Ledger, Events, Lock, TypeOK
  <2>1. CASE UNCHANGED vars
    BY <2>1 DEF vars, serverVars, clientVars, Inbox, Outbox, InHand, FdOf, Busy
  <2>2. CASE Next /\ \A c \in Conns : Still(c)
    <3>1. \A c \in Conns : /\ Inbox(c)' = Inbox(c) /\ Outbox(c)' = Outbox(c)
                           /\ got'[c] = got[c]
      BY <2>2 DEF Still
    <3>2. got' = got
      BY <2>0, <3>1
    <3>3. ib' = ib /\ ob' = ob
      BY <3>1, Zenon
    <3> QED BY <3>2, <3>3
  <2>3. ASSUME Next, NEW d \in Conns,
               Posted(d) \/ Served(d) \/ Delivered(d) \/ Lost(d),
               \A c \in Conns : c # d => Still(c)
        PROVE  Service!SvcNext
    <3>1. /\ \A c \in Conns : c # d => /\ Inbox(c)' = Inbox(c)
                                       /\ Outbox(c)' = Outbox(c)
                                       /\ got'[c] = got[c]
      BY <2>3 DEF Still
    <3>2. /\ ib' = [ib EXCEPT ![d] = Inbox(d)']
          /\ ob' = [ob EXCEPT ![d] = Outbox(d)']
          /\ got' = [got EXCEPT ![d] = got'[d]]
      BY <2>0, <3>1
    <3>3. ib[d] = Inbox(d) /\ ob[d] = Outbox(d)
      OBVIOUS
    <3>4. /\ Inbox(d)' = Inbox(d) => ib' = ib
          /\ Outbox(d)' = Outbox(d) => ob' = ob
          /\ got'[d] = got[d] => got' = got
      BY <2>0, <3>1
    <3> HIDE DEF ib, ob
    <3>5. CASE Posted(d)
      <4>1. PICK m \in Messages :
              /\ Inbox(d)' = Append(Inbox(d), m) /\ Outbox(d)' = Outbox(d)
              /\ got'[d] = got[d]
        BY <3>5 DEF Posted
      <4>2. ib' = [ib EXCEPT ![d] = Append(@, m)] /\ ob' = ob /\ got' = got
        BY <3>2, <3>3, <3>4, <4>1
      <4>3. Service!Post(d, m)
        BY <4>2 DEF Service!Post, ib, ob
      <4> QED BY <4>3 DEF Service!SvcNext
    <3>6. CASE Served(d)
      <4>1. PICK m \in Messages :
              /\ Inbox(d) # <<>> /\ m = Head(Inbox(d))
              /\ Inbox(d)' = Tail(Inbox(d)) /\ Outbox(d)' = Append(Outbox(d), m)
              /\ got'[d] = got[d]
        BY <3>6 DEF Served
      <4>2. /\ ib[d] # <<>> /\ m = Head(ib[d])
            /\ ib' = [ib EXCEPT ![d] = Tail(@)]
            /\ ob' = [ob EXCEPT ![d] = Append(@, m)] /\ got' = got
        BY <3>2, <3>3, <3>4, <4>1
      <4>3. Service!Serve(d, m)
        BY <4>2 DEF Service!Serve, Itself, ib, ob
      <4> QED BY <4>3 DEF Service!SvcNext
    <3>7. CASE Delivered(d)
      <4>1. /\ Outbox(d) # <<>> /\ Outbox(d)' = Tail(Outbox(d))
            /\ got'[d] = Append(got[d], Head(Outbox(d))) /\ Inbox(d)' = Inbox(d)
        BY <3>7 DEF Delivered
      <4>2. /\ ob[d] # <<>> /\ ob' = [ob EXCEPT ![d] = Tail(@)]
            /\ got' = [got EXCEPT ![d] = Append(@, Head(ob[d]))] /\ ib' = ib
        BY <3>2, <3>3, <3>4, <4>1
      <4>3. Service!Deliver(d)
        BY <4>2 DEF Service!Deliver, ib, ob
      <4> QED BY <4>3 DEF Service!SvcNext
    <3>8. CASE Lost(d)
      <4>1. Inbox(d)' = <<>> /\ Outbox(d)' = Outbox(d) /\ got'[d] = got[d]
        BY <3>8 DEF Lost
      <4>2. ib' = [ib EXCEPT ![d] = <<>>] /\ ob' = ob /\ got' = got
        BY <3>2, <3>3, <3>4, <4>1
      <4>3. Service!Lose(d)
        BY <4>2 DEF Service!Lose, ib, ob
      <4> QED BY <4>3 DEF Service!SvcNext
    <3> QED BY <2>3, <3>5, <3>6, <3>7, <3>8
  <2>4. Next => \/ \A c \in Conns : Still(c)
                \/ \E d \in Conns :
                     /\ Posted(d) \/ Served(d) \/ Delivered(d) \/ Lost(d)
                     /\ \A c \in Conns : c # d => Still(c)
    BY ServiceStep DEF Ledger
  <2> QED BY <2>1, <2>2, <2>3, <2>4
<1> QED BY <1>1, <1>2, EventsInvariant, LedgerInvariant, PTL
        DEF Spec, ImplementsRpcService, Service!SvcSpec

=============================================================================
