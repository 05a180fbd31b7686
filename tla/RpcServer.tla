----------------------------- MODULE RpcServer ------------------------------
(***************************************************************************)
(* The RPC server: Poller and Reactor (one thread in Reactor::Run), the    *)
(* thread pool it feeds, EventHandlerManager, ServerTransport,             *)
(* RpcRequestHandler, RpcResultSender and the ReturnValuePipe between the  *)
(* last two, with the kernel's sockets and epoll instance underneath and   *)
(* the clients at the other end.                                           *)
(*                                                                         *)
(* There is no lock on the pipe, the handler table or the sockets: what    *)
(* keeps two workers off one descriptor is EPOLLONESHOT.  epoll_wait       *)
(* disarms a descriptor when it reports it, and a handler re-arms it as    *)
(* the last thing it does.  A handler that returns early without doing so  *)
(* leaves the descriptor deaf: no event of it is ever reported again.      *)
(***************************************************************************)
EXTENDS Naturals, Sequences, FiniteSets

CONSTANTS
  Conns,      \* the connections clients may open, each at most once
  Fds,        \* the descriptors accept() may return
  ListenFd,   \* the listening socket
  Workers,    \* the threads of the pool (4 in Reactor::Reactor)
  MaxTasks,   \* capacity of the task queue (10000 in Reactor::Reactor)
  MaxReqs,    \* bound: requests a client sends over one connection
  Kinds,      \* the kinds of request clients send
  Faults,     \* what else may happen to a connection
  None        \* no descriptor, connection, task or message

(* "call" wants a result, "oneway" does not; "bad" has another magic       *)
(* number, another version or the name of a service never registered.      *)
ASSUME KindsAssumption == Kinds \subseteq {"call", "oneway", "bad"}

(* "abandon":    a client closes before all its calls are answered         *)
(* "reset":      a connection is reset                                     *)
(* "segment":    a request arrives in two pieces                           *)
(* "wouldblock": send() finds no room, or not enough, in the socket buffer *)
(* "setup":      setsockopt() fails on an accepted connection              *)
ASSUME FaultsAssumption ==
  Faults \subseteq {"abandon", "reset", "segment", "wouldblock", "setup"}

ASSUME ServerAssumption ==
  /\ ListenFd \notin Fds
  /\ None \notin Fds \cup Conns \cup {ListenFd}
  /\ MaxTasks \in Nat /\ MaxReqs \in Nat

(* A process has a bounded number of descriptors.                          *)
ASSUME FdsAssumption == IsFiniteSet(Fds)

AllFds == Fds \cup {ListenFd}

(* A request and the result that answers it.  Only seq (the seqno) is on   *)
(* the wire; conn records whose request it was.                            *)
Messages == [conn : Conns, seq : 1..MaxReqs, kind : Kinds]

(* The closure Poller::Dispatch puts in its vector.  "NONE" is Type 0.     *)
EventTypes == {"READ", "WRITE", "CLOSE"}
Tasks == [fd : AllFds, type : EventTypes \cup {"NONE"}]

ASSUME NoneAssumption == None \notin Messages \cup Tasks

VARIABLES
  (* kernel and clients *)
  peer,       \* what the server's kernel knows of each client
  sent,       \* kinds of the requests each client has sent, by seqno
  stream,     \* requests in each connection's receive buffer
  cut,        \* is the last of them incomplete?
  torn,       \* clients a piece of whose request was read alone (history)
  got,        \* results each client has received
  backlog,    \* connections waiting for accept()
  owner,      \* the connection behind each descriptor
  interest,   \* the epoll registration of each descriptor
  (* server *)
  handlers,   \* EventHandlerManager::_list
  batch,      \* the vector Dispatch returned, as far as not yet submitted
  queue,      \* the thread pool's queue
  held,       \* the task each worker executes
  pc,         \* where in its handler each worker is
  loc,        \* its local Connfd, Message or Result
  pipe,       \* ReturnValuePipe::_return_values
  deaf,       \* descriptors whose handler returned without re-arming
  alive       \* the process has not exited or aborted

clientVars == <<peer, sent, stream, cut, torn, got, backlog>>
serverVars == <<owner, interest, handlers, batch, queue, held, pc, loc, pipe,
                deaf, alive>>
vars == <<clientVars, serverVars>>

(* The pool as ThreadPool implements it.                                   *)
Pool == INSTANCE TaskPool WITH MaxSize <- MaxTasks, Idle <- None

PCs == {"idle", "start",
        "attach", "add", "relisten",       \* ServerTransport::HandleReadEvent
        "handle",                          \* RpcRequestHandler
        "send",                            \* RpcResultSender
        "done",                            \* FileDescriptorEventDone
        "delete", "close"}                 \* HandleCloseEvent

(* Types; and a worker of the pool holds a task exactly while it is in a   *)
(* handler.                                                                *)
TypeOK ==
  /\ peer \in [Conns -> {"new", "open", "closed", "reset"}]
  /\ sent \in [Conns -> Seq(Kinds)]
  /\ stream \in [Conns -> Seq(Messages)]
  /\ cut \in [Conns -> BOOLEAN]
  /\ torn \subseteq Conns
  /\ got \in [Conns -> Seq(Messages)]
  /\ backlog \in Seq(Conns)
  /\ owner \in [Fds -> Conns \cup {None}]
  /\ interest \in [AllFds -> {"absent", "off", "in", "inout"}]
  /\ handlers \in [AllFds -> SUBSET EventTypes]
  /\ batch \subseteq Tasks
  /\ queue \in Seq(Tasks)
  /\ held \in [Workers -> Tasks \cup {None}]
  /\ pc \in [Workers -> PCs]
  /\ loc \in [Workers -> Messages \cup Fds \cup {None}]
  /\ pipe \in [Fds -> Seq(Messages)]
  /\ deaf \subseteq AllFds
  /\ alive \in BOOLEAN
  /\ \A w \in Workers : pc[w] = "idle" <=> held[w] = None

Init ==
  /\ peer = [c \in Conns |-> "new"]
  /\ sent = [c \in Conns |-> <<>>]
  /\ stream = [c \in Conns |-> <<>>]
  /\ cut = [c \in Conns |-> FALSE]
  /\ torn = {}
  /\ got = [c \in Conns |-> <<>>]
  /\ backlog = <<>>
  /\ owner = [f \in Fds |-> None]
  /\ interest = [f \in AllFds |-> IF f = ListenFd THEN "in" ELSE "absent"]
  /\ handlers = [f \in AllFds |-> IF f = ListenFd THEN {"READ"} ELSE {}]
  /\ batch = {}
  /\ Pool!PoolInit
  /\ pc = [w \in Workers |-> "idle"]
  /\ loc = [w \in Workers |-> None]
  /\ pipe = [f \in Fds |-> <<>>]
  /\ deaf = {}
  /\ alive = TRUE

-----------------------------------------------------------------------------
(* Clients.                                                                *)

Connect(c) ==
  /\ peer[c] = "new"
  /\ peer' = [peer EXCEPT ![c] = "open"]
  /\ backlog' = Append(backlog, c)
  /\ UNCHANGED <<sent, stream, cut, torn, got, serverVars>>

(* TCP keeps the order; the request arrives whole or its head arrives.     *)
Request(c, k, part) ==
  /\ peer[c] = "open"
  /\ ~cut[c]
  /\ Len(sent[c]) < MaxReqs
  /\ part => "segment" \in Faults
  /\ sent' = [sent EXCEPT ![c] = Append(@, k)]
  /\ stream' = [stream EXCEPT ![c] =
       Append(@, [conn |-> c, seq |-> Len(sent[c]) + 1, kind |-> k])]
  /\ cut' = [cut EXCEPT ![c] = part]
  /\ UNCHANGED <<peer, torn, got, backlog, serverVars>>

(* The rest of a request in two pieces arrives.                            *)
Rest(c) ==
  /\ cut[c] /\ peer[c] = "open"
  /\ cut' = [cut EXCEPT ![c] = FALSE]
  /\ UNCHANGED <<peer, sent, stream, torn, got, backlog, serverVars>>

(* The calls among some requests: SelectSeq, spelt out as a recursion that *)
(* can be reasoned about.                                                  *)
CallsIn(s) ==
  LET F[i \in 0..Len(s)] ==
        IF i = 0 THEN <<>>
        ELSE IF s[i].kind = "call" THEN Append(F[i - 1], s[i])
        ELSE F[i - 1]
  IN  F[Len(s)]

SentBy(c) == [i \in 1..Len(sent[c]) |->
                [conn |-> c, seq |-> i, kind |-> sent[c][i]]]

CallsOf(c) == CallsIn(SentBy(c))

Close(c) ==
  /\ peer[c] = "open"
  /\ "abandon" \in Faults \/ Len(got[c]) = Len(CallsOf(c))
  /\ peer' = [peer EXCEPT ![c] = "closed"]
  /\ UNCHANGED <<sent, stream, cut, torn, got, backlog, serverVars>>

Reset(c) ==
  /\ "reset" \in Faults
  /\ peer[c] \in {"open", "closed"}
  /\ peer' = [peer EXCEPT ![c] = "reset"]
  /\ UNCHANGED <<sent, stream, cut, torn, got, backlog, serverVars>>

ClientStep ==
  \E c \in Conns :
    \/ Connect(c)
    \/ \E k \in Kinds, part \in BOOLEAN : Request(c, k, part)
    \/ Rest(c)
    \/ Close(c)
    \/ Reset(c)

-----------------------------------------------------------------------------
(* The reactor thread: Reactor::Run.                                       *)

Armed(f) == interest[f] \in {"in", "inout"}

(* What epoll_wait reports of an armed descriptor, after the priorities of *)
(* Poller::Dispatch: ERR before RDHUP before IN before OUT.  A connection  *)
(* in this system is always writable when nothing is in error.             *)
EventOf(f) ==
  IF f = ListenFd THEN IF backlog # <<>> THEN "READ" ELSE "QUIET"
  ELSE IF peer[owner[f]] = "reset" THEN "NONE"
  ELSE IF peer[owner[f]] = "closed" THEN "CLOSE"
  ELSE IF stream[owner[f]] # <<>> THEN "READ"
  ELSE IF interest[f] = "inout" THEN "WRITE"
  ELSE "QUIET"

Ready == {f \in AllFds : Armed(f) /\ EventOf(f) # "QUIET"}

(* Variant: the registration forgets EPOLLONESHOT.                         *)
DispatchLevel ==
  /\ alive
  /\ batch = {}
  /\ Ready # {}
  /\ batch' = {[fd |-> f, type |-> EventOf(f)] : f \in Ready}
  /\ UNCHANGED <<clientVars, owner, interest, handlers, queue, held, pc, loc,
                 pipe, deaf, alive>>

(* epoll_wait returns, having disarmed every descriptor it reports.        *)
Dispatch ==
  /\ alive
  /\ batch = {}
  /\ Ready # {}
  /\ batch' = {[fd |-> f, type |-> EventOf(f)] : f \in Ready}
  /\ interest' = [f \in AllFds |-> IF f \in Ready THEN "off" ELSE interest[f]]
  /\ UNCHANGED <<clientVars, owner, handlers, queue, held, pc, loc, pipe,
                 deaf, alive>>

(* AddTask; its result is ignored, so a refused task is simply gone.       *)
Submit(t) ==
  /\ alive
  /\ t \in batch
  /\ batch' = batch \ {t}
  /\ Pool!Offer(t)
  /\ deaf' = IF Len(queue) >= MaxTasks THEN deaf \cup {t.fd} ELSE deaf
  /\ UNCHANGED <<clientVars, owner, interest, handlers, pc, loc, pipe, alive>>

-----------------------------------------------------------------------------
(* The workers.                                                            *)

At(w, l) == alive /\ pc[w] = l

Event(w, type) == At(w, "start") /\ held[w].type = type
                  /\ type \in handlers[held[w].fd]

Goto(w, l) == pc' = [pc EXCEPT ![w] = l] /\ UNCHANGED <<queue, held>>

(* The handler returns and the worker asks for its next task.              *)
Return(w) ==
  /\ Pool!Finish(w)
  /\ pc' = [pc EXCEPT ![w] = "idle"]
  /\ loc' = [loc EXCEPT ![w] = None]

(* It returns without having re-armed its descriptor.                      *)
Desert(w) == Return(w) /\ deaf' = deaf \cup {held[w].fd}

Take(w) ==
  /\ alive
  /\ Pool!Begin(w)
  /\ pc' = [pc EXCEPT ![w] = "start"]
  /\ UNCHANGED <<clientVars, owner, interest, handlers, batch, loc, pipe,
                 deaf, alive>>

(* EventHandlerManager::HandleEvent with Type 0, or with no handler.       *)
Ignore(w) ==
  /\ At(w, "start")
  /\ held[w].type \notin handlers[held[w].fd]
  /\ Desert(w)
  /\ UNCHANGED <<clientVars, owner, interest, handlers, batch, pipe, alive>>

(* ServerTransport::HandleReadEvent on the listening socket.               *)
Accept(w) ==
  /\ Event(w, "READ") /\ held[w].fd = ListenFd
  /\ backlog # <<>>
  /\ \E f \in Fds :
       /\ owner[f] = None
       /\ owner' = [owner EXCEPT ![f] = Head(backlog)]
       /\ loc' = [loc EXCEPT ![w] = f]
  /\ backlog' = Tail(backlog)
  /\ Goto(w, "attach")
  /\ UNCHANGED <<peer, sent, stream, cut, torn, got, interest, handlers, batch,
                 pipe, deaf, alive>>

(* accept() fails: the process is out of descriptors.  The three           *)
(* AttachEventHandler(-1, ...) write in front of _list, which may kill the *)
(* process or do nothing visible; AddEvent(-1) is an error epoll reports.  *)
AcceptFails(w) ==
  /\ Event(w, "READ") /\ held[w].fd = ListenFd
  /\ backlog = <<>> \/ \A f \in Fds : owner[f] # None
  /\ alive' \in BOOLEAN
  /\ Goto(w, "relisten")
  /\ UNCHANGED <<clientVars, owner, interest, handlers, batch, loc, pipe, deaf>>

(* accept() succeeds and setsockopt() fails: the connection is closed at   *)
(* once and -1 goes the same way.                                          *)
SetupFails(w) ==
  /\ Event(w, "READ") /\ held[w].fd = ListenFd
  /\ "setup" \in Faults
  /\ backlog # <<>> /\ \E f \in Fds : owner[f] = None
  /\ peer' = [peer EXCEPT ![Head(backlog)] = IF @ = "open" THEN "closed" ELSE @]
  /\ backlog' = Tail(backlog)
  /\ alive' \in BOOLEAN
  /\ Goto(w, "relisten")
  /\ UNCHANGED <<sent, stream, cut, torn, got, owner, interest, handlers,
                 batch, loc, pipe, deaf>>

(* Variant: no handler is attached for CLOSE_EVENT.                        *)
AttachWithoutClose(w) ==
  /\ At(w, "attach")
  /\ handlers' = [handlers EXCEPT ![loc[w]] = {"READ", "WRITE"}]
  /\ Goto(w, "add")
  /\ UNCHANGED <<clientVars, owner, interest, batch, loc, pipe, deaf, alive>>

Attach(w) ==
  /\ At(w, "attach")
  /\ handlers' = [handlers EXCEPT ![loc[w]] = EventTypes]
  /\ Goto(w, "add")
  /\ UNCHANGED <<clientVars, owner, interest, batch, loc, pipe, deaf, alive>>

AddConnection(w) ==
  /\ At(w, "add")
  /\ interest' = [interest EXCEPT ![loc[w]] = "in"]
  /\ Goto(w, "relisten")
  /\ UNCHANGED <<clientVars, owner, handlers, batch, loc, pipe, deaf, alive>>

(* Variant: the listening socket is not armed again.                       *)
RelistenForgotten(w) ==
  /\ At(w, "relisten")
  /\ Return(w)
  /\ UNCHANGED <<clientVars, owner, interest, handlers, batch, pipe, deaf,
                 alive>>

Relisten(w) ==
  /\ At(w, "relisten")
  /\ interest' = [interest EXCEPT ![ListenFd] = "in"]
  /\ Return(w)
  /\ UNCHANGED <<clientVars, owner, handlers, batch, pipe, deaf, alive>>

(* RpcRequestHandler::HandleReadEvent, the two recv().                     *)
Recv(w) ==
  /\ Event(w, "READ") /\ held[w].fd # ListenFd
  /\ LET c == owner[held[w].fd] IN
       /\ stream[c] # <<>>
       /\ Len(stream[c]) > 1 \/ ~cut[c]
       /\ loc' = [loc EXCEPT ![w] = Head(stream[c])]
       /\ stream' = [stream EXCEPT ![c] = Tail(@)]
  /\ Goto(w, "handle")
  /\ UNCHANGED <<peer, sent, cut, torn, got, backlog, owner, interest, handlers,
                 batch, pipe, deaf, alive>>

(* "Bad packet": what has arrived so far is consumed and the handler       *)
(* returns; with nothing at all to read and an error on the socket it      *)
(* calls exit(1).                                                          *)
ShortRead(w) ==
  /\ Event(w, "READ") /\ held[w].fd # ListenFd
  /\ LET c == owner[held[w].fd] IN
       /\ stream[c] = <<>> \/ (Len(stream[c]) = 1 /\ cut[c])
       /\ stream' = [stream EXCEPT ![c] = <<>>]
       /\ cut' = [cut EXCEPT ![c] = FALSE]
       /\ torn' = IF cut[c] THEN torn \cup {c} ELSE torn
       /\ alive' = ~(stream[c] = <<>> /\ peer[c] = "reset")
  /\ Desert(w)
  /\ UNCHANGED <<peer, sent, got, backlog, owner, interest, handlers, batch,
                 pipe>>

(* Wrong magic number, wrong version or unknown service: just return.      *)
RejectRequest(w) ==
  /\ At(w, "handle")
  /\ loc[w].kind = "bad"
  /\ Desert(w)
  /\ UNCHANGED <<clientVars, owner, interest, handlers, batch, pipe, alive>>

(* Variants: the descriptor is re-armed before the result is queued; the   *)
(* pipe hands out the newest result first.                                 *)
HandleRequestAfterRearm(w) ==
  /\ At(w, "handle")
  /\ loc[w].kind # "bad"
  /\ pipe' = [pipe EXCEPT ![held[w].fd] = Append(@, loc[w])]
  /\ interest' = [interest EXCEPT ![held[w].fd] = "in"]
  /\ Goto(w, "done")
  /\ UNCHANGED <<clientVars, owner, handlers, batch, loc, deaf, alive>>

HandleRequestOnStack(w) ==
  /\ At(w, "handle")
  /\ loc[w].kind = "call"
  /\ pipe' = [pipe EXCEPT ![held[w].fd] = <<loc[w]>> \o @]
  /\ Goto(w, "done")
  /\ UNCHANGED <<clientVars, owner, interest, handlers, batch, loc, deaf,
                 alive>>

(* Variant: without a result to return the handler just returns.           *)
HandleRequestOneWayDeaf(w) ==
  /\ At(w, "handle")
  /\ loc[w].kind # "bad"
  /\ IF loc[w].kind = "call"
     THEN /\ pipe' = [pipe EXCEPT ![held[w].fd] = Append(@, loc[w])]
          /\ Goto(w, "done")
          /\ UNCHANGED <<loc, deaf>>
     ELSE Desert(w) /\ UNCHANGED pipe
  /\ UNCHANGED <<clientVars, owner, interest, handlers, batch, alive>>

(* Service->Handle, then _pipe->Write if the request wants a result.       *)
HandleRequest(w) ==
  /\ At(w, "handle")
  /\ loc[w].kind # "bad"
  /\ pipe' = IF loc[w].kind = "call"
             THEN [pipe EXCEPT ![held[w].fd] = Append(@, loc[w])]
             ELSE pipe
  /\ Goto(w, "done")
  /\ UNCHANGED <<clientVars, owner, interest, handlers, batch, loc, deaf,
                 alive>>

(* Variant: the result stays in the pipe.                                  *)
ReadPipeKeeping(w) ==
  /\ Event(w, "WRITE")
  /\ pipe[held[w].fd] # <<>>
  /\ loc' = [loc EXCEPT ![w] = Head(pipe[held[w].fd])]
  /\ Goto(w, "send")
  /\ UNCHANGED <<clientVars, owner, interest, handlers, batch, pipe, deaf,
                 alive>>

(* RpcResultSender::HandleWriteEvent: _pipe->Read, which asserts that      *)
(* there is a result.                                                      *)
ReadPipe(w) ==
  /\ Event(w, "WRITE")
  /\ alive' = (pipe[held[w].fd] # <<>>)
  /\ IF pipe[held[w].fd] # <<>>
     THEN /\ loc' = [loc EXCEPT ![w] = Head(pipe[held[w].fd])]
          /\ pipe' = [pipe EXCEPT ![held[w].fd] = Tail(@)]
          /\ Goto(w, "send")
     ELSE UNCHANGED <<queue, held, pc, loc, pipe>>
  /\ UNCHANGED <<clientVars, owner, interest, handlers, batch, deaf>>

(* send(): delivered while the client is there, discarded by a client      *)
(* that has closed.                                                        *)
Send(w) ==
  /\ At(w, "send")
  /\ LET c == owner[held[w].fd] IN
       /\ peer[c] # "reset"
       /\ got' = IF peer[c] = "open"
                 THEN [got EXCEPT ![c] = Append(@, loc[w])] ELSE got
  /\ Goto(w, "done")
  /\ UNCHANGED <<peer, sent, stream, cut, torn, backlog, owner, interest,
                 handlers, batch, loc, pipe, deaf, alive>>

(* EAGAIN is logged and the result, already off the pipe, is gone.  So is  *)
(* the rest of a result that send() takes only in part; that its head then *)
(* misleads the client about what follows is not modelled.                 *)
SendWouldBlock(w) ==
  /\ At(w, "send")
  /\ "wouldblock" \in Faults
  /\ Goto(w, "done")
  /\ UNCHANGED <<clientVars, owner, interest, handlers, batch, loc, pipe,
                 deaf, alive>>

(* Any other errno is assert(false), if SIGPIPE has not come first.        *)
SendFails(w) ==
  /\ At(w, "send")
  /\ peer[owner[held[w].fd]] = "reset"
  /\ alive' = FALSE
  /\ UNCHANGED <<clientVars, owner, interest, handlers, batch, queue, held,
                 pc, loc, pipe, deaf>>

(* Variants: the descriptor is always, or never, armed for EPOLLOUT.       *)
EventDoneInOut(w) ==
  /\ At(w, "done")
  /\ interest' = [interest EXCEPT ![held[w].fd] = "inout"]
  /\ Return(w)
  /\ UNCHANGED <<clientVars, owner, handlers, batch, pipe, deaf, alive>>

EventDoneIn(w) ==
  /\ At(w, "done")
  /\ interest' = [interest EXCEPT ![held[w].fd] = "in"]
  /\ Return(w)
  /\ UNCHANGED <<clientVars, owner, handlers, batch, pipe, deaf, alive>>

(* RpcServer::FileDescriptorEventDone, the last call of both handlers.     *)
EventDone(w) ==
  /\ At(w, "done")
  /\ interest' = [interest EXCEPT ![held[w].fd] =
                    IF pipe[held[w].fd] = <<>> THEN "in" ELSE "inout"]
  /\ Return(w)
  /\ UNCHANGED <<clientVars, owner, handlers, batch, pipe, deaf, alive>>

(* ServerTransport::HandleCloseEvent.                                      *)
Detach(w) ==
  /\ Event(w, "CLOSE")
  /\ handlers' = [handlers EXCEPT ![held[w].fd] = {}]
  /\ Goto(w, "delete")
  /\ UNCHANGED <<clientVars, owner, interest, batch, loc, pipe, deaf, alive>>

Delete(w) ==
  /\ At(w, "delete")
  /\ interest' = [interest EXCEPT ![held[w].fd] = "absent"]
  /\ Goto(w, "close")
  /\ UNCHANGED <<clientVars, owner, handlers, batch, loc, pipe, deaf, alive>>

(* Variant: the worker returns to the pool as if it still had work.        *)
CloseFdUnfinished(w) ==
  /\ At(w, "close")
  /\ owner' = [owner EXCEPT ![held[w].fd] = None]
  /\ pc' = [pc EXCEPT ![w] = "idle"]
  /\ UNCHANGED <<clientVars, interest, handlers, batch, queue, held, loc,
                 pipe, deaf, alive>>

(* close(Fd): the number may be accept()ed again; the pipe is untouched.   *)
CloseFd(w) ==
  /\ At(w, "close")
  /\ owner' = [owner EXCEPT ![held[w].fd] = None]
  /\ Return(w)
  /\ UNCHANGED <<clientVars, interest, handlers, batch, pipe, deaf, alive>>

WorkerStep(w) ==
  \/ Take(w) \/ Ignore(w)
  \/ Accept(w) \/ AcceptFails(w) \/ SetupFails(w)
  \/ Attach(w) \/ AddConnection(w) \/ Relisten(w)
  \/ Recv(w) \/ ShortRead(w) \/ RejectRequest(w) \/ HandleRequest(w)
  \/ ReadPipe(w) \/ Send(w) \/ SendWouldBlock(w) \/ SendFails(w)
  \/ EventDone(w)
  \/ Detach(w) \/ Delete(w) \/ CloseFd(w)

-----------------------------------------------------------------------------

Next ==
  \/ ClientStep
  \/ Dispatch
  \/ \E t \in Tasks : Submit(t)
  \/ \E w \in Workers : WorkerStep(w)

Spec == Init /\ [][Next]_vars

(* The reactor and the workers are threads the kernel keeps scheduling and *)
(* epoll_wait reports what is ready; the rest of a request in two pieces   *)
(* arrives.  Nothing else is assumed of the clients.                       *)
FairSpec ==
  /\ Spec
  /\ WF_vars(Dispatch)
  /\ WF_vars(\E t \in Tasks : Submit(t))
  /\ \A w \in Workers : WF_vars(WorkerStep(w))
  /\ \A c \in Conns : WF_vars(Rest(c))

-----------------------------------------------------------------------------
(* Properties.                                                             *)

Busy(w, f) == held[w] # None /\ held[w].fd = f

InFlight(f) ==
  \/ \E t \in batch : t.fd = f
  \/ \E i \in 1..Len(queue) : queue[i].fd = f
  \/ \E w \in Workers : Busy(w, f)

(* EPOLLONESHOT as a lock: a descriptor is armed, or one task for it is in *)
(* the reactor's vector, in the queue or in the hands of one worker, and   *)
(* never two of these.  This is all that protects the pipe of a            *)
(* descriptor, its handlers and its socket.                                *)
FdExclusive ==
  /\ \A f \in AllFds : Armed(f) => ~InFlight(f)
  /\ \A t, u \in batch : t.fd = u.fd => t = u
  /\ \A t \in batch, i \in 1..Len(queue) : t.fd # queue[i].fd
  /\ \A t \in batch, w \in Workers : ~Busy(w, t.fd)
  /\ \A i, k \in 1..Len(queue) : queue[i].fd = queue[k].fd => i = k
  /\ \A i \in 1..Len(queue), w \in Workers : ~Busy(w, queue[i].fd)
  /\ \A v, w \in Workers, f \in AllFds : Busy(v, f) /\ Busy(w, f) => v = w

(* EventHandlerManager::HandleEvent finds a handler for every event that   *)
(* has one: a descriptor is armed only after its handlers are in _list,    *)
(* and they stay there until it is closed.                                 *)
HandlerFound ==
  \A w \in Workers :
    pc[w] = "start" /\ held[w].type # "NONE"
      => held[w].type \in handlers[held[w].fd]

(* ReturnValuePipe::Read's assert(!_return_values[fd].empty()) holds: a    *)
(* write event dispatched earlier still finds its result.                  *)
PipeReady ==
  \A w \in Workers :
    pc[w] = "start" /\ held[w].type = "WRITE" => pipe[held[w].fd] # <<>>

(* A read event dispatched earlier still finds something to read, so       *)
(* accept() cannot fail with EAGAIN, recv() cannot return -1 and the       *)
(* exit(1) of HandleReadEvent is never reached.                            *)
ReadFindsData ==
  \A w \in Workers :
    pc[w] = "start" /\ held[w].type = "READ" =>
      IF held[w].fd = ListenFd THEN backlog # <<>>
      ELSE stream[owner[held[w].fd]] # <<>>

Sent(c, n, k) == n <= Len(sent[c]) /\ sent[c][n] = k

(* A client that was reset, whose request TCP cut in two, or that sent a   *)
(* request the server rejects.                                             *)
Culprit(c) ==
  \/ peer[c] = "reset"
  \/ c \in torn
  \/ \E n \in 1..MaxReqs : Sent(c, n, "bad")

(* No client makes another deaf. HandleReadEvent and HandleEvent return    *)
(* early without arming their descriptor again, and Reactor::Run ignores   *)
(* that AddTask refused a task; a descriptor disarmed with no task on its  *)
(* way is lost. If the task queue has room for a task of every descriptor, *)
(* that happens to nobody but the client whose own connection misbehaved:  *)
(* neither to the listening socket, however accept() fails, nor to another *)
(* client, nor because of a full queue. (The culprit's own connection stays*)
(* open, unheard and unanswered, although ServerTransport.hh:26 says of a  *)
(* hangup "we should close this connection" and README.md:360 promises     *)
(* "appropriate failure responses"; and the whole process may end for one  *)
(* client's sake, in SendFails.)                                           *)
DeafByOwnFault ==
  Cardinality(AllFds) <= MaxTasks =>
    \A f \in AllFds :
      interest[f] = "off" /\ ~InFlight(f) =>
        f # ListenFd /\ owner[f] # None /\ Culprit(owner[f])

(* The call a worker handling descriptor f has in hand at label l.         *)
InHand(f, l) ==
  LET W == {w \in Workers : pc[w] = l /\ Busy(w, f) /\ loc[w].kind = "call"}
  IN  IF W = {} THEN <<>> ELSE <<loc[CHOOSE w \in W : TRUE]>>

(* While clients wait for their answers before they close, every call of a *)
(* connection is in exactly one place between its receive buffer and its   *)
(* client, and in the order of sending: nothing is lost, answered twice,   *)
(* overtaken or answered to someone else.                                  *)
NothingLost ==
  \A f \in Fds :
    LET c == owner[f] IN
      c # None /\ f \notin deaf /\ peer[c] = "open" /\ alive =>
        got[c] \o InHand(f, "send") \o pipe[f] \o InHand(f, "handle")
               \o CallsIn(stream[c])
          = CallsOf(c)

Excused(c) ==
  \/ ~alive
  \/ peer[c] # "open"
  \/ ListenFd \in deaf
  \/ \E f \in deaf \cap Fds : owner[f] = c

Received(c, n) == \E i \in 1..Len(got[c]) : got[c][i].conn = c /\ got[c][i].seq = n

(* With a descriptor for every client, every call is eventually answered   *)
(* as long as its client stays and its connection has not gone deaf.       *)
CallsAnswered ==
  \A c \in Conns, n \in 1..MaxReqs :
    Sent(c, n, "call") ~> Received(c, n) \/ Excused(c)

(* README.md:44 "The request and response of a single call share the same  *)
(* `seqno`, which helps the client distribute response": whatever reaches  *)
(* a client answers a call of that client.                                 *)
ResultsReachTheirCaller ==
  \A c \in Conns : \A i \in 1..Len(got[c]) : got[c][i].conn = c

(* The server as a RpcService: of a connection's calls the inbox is what   *)
(* is in its receive buffer or just received, the outbox what its pipe and *)
(* a sending worker hold.                                                  *)
FdOf(c) == {f \in Fds : owner[f] = c}

Inbox(c) ==
  LET waiting == CallsIn(stream[c])
  IN  IF FdOf(c) = {} THEN waiting
      ELSE InHand(CHOOSE f \in FdOf(c) : TRUE, "handle") \o waiting

Outbox(c) ==
  IF FdOf(c) = {} THEN <<>>
  ELSE LET f == CHOOSE g \in FdOf(c) : TRUE IN InHand(f, "send") \o pipe[f]

Itself(m) == m

Service == INSTANCE RpcService WITH
  Calls <- Messages, Results <- Messages, CallOf <- Itself,
  inbox <- [c \in Conns |-> Inbox(c)],
  outbox <- [c \in Conns |-> Outbox(c)]

(* Every step of the server is a step of that service, or none of its      *)
(* business: nothing is answered twice, out of order or to another client, *)
(* and nothing once served is lost.                                        *)
ImplementsRpcService == Service!SvcSpec

=============================================================================
