# DreamboatRPC in TLA+

TLA+ specifications of DreamboatRPC, a C++ RPC library (epoll reactor, thread
pool, asynchronous client) with a name service replicated by a Python Raft.
`PROJECT.json` lists the components, the runs, the mutants, the map from
definitions to source lines, the findings, the hazards and the theorems.

## The system

| Component | State | Operations | Correct when |
|---|---|---|---|
| `ThreadPool`, `SafeQueue` | queue, mutex, condition variable, `m_stop` | AddTask, Dequeue (waits), Stop, destructors | no wakeup or job lost, no job run twice, bound kept |
| `Poller`, `Reactor` | epoll set with one-shot registrations | Dispatch, Add/Mod/DelEvent, Run | a reported descriptor is reported to one thread |
| `EventHandlerManager` | `_list[fd][type]` | attach, detach, HandleEvent | every event finds its handler |
| `ServerTransport` | listening socket, connections | accept, close | listening goes on; closed numbers carry nothing over |
| `RpcRequestHandler`, `RpcResultSender`, `ReturnValuePipe` | one result queue per descriptor | read and serve a request; send a result | each call answered once, in order, to its caller |
| `Guid` | `Heap`, `Bound` | GetGuid, RecycleGuid | no id with two holders, none lost |
| `RpcServiceBase`, `CallbacksHandler`, `ClientTransport`, `RpcClient` | callback table, queue of requests, EPOLLOUT | CallRPC, CallRPCAsync, Push, read and write events | a result runs its own call's callback, once |
| `RaftNode`, `Talker`, `Listener` | role, term, vote, log, commit index, next/match index | the handlers of three roles, timeouts, client_request | terms grow, logs keep their past, leaders are elected |
| Name service (`run_node.py`) | the dictionary committed last | register, heartbeat, discover, monitor | live servers stay registered, dead and forgotten ones go |
| `RpcServer`, `ServiceReporter` | proxies, heartbeat thread | RegisterService, Main, SendHeartbeat | registered before it serves, exits once forgotten |
| `ServiceDiscoverer`, `RpcClientFactory` | none | RequestServiceList, MakeRpcClient | the address leads to a server that knows the callee |
| `RpcClient`'s life | `m_stop`, mutex `m`, detached thread | GetRpcClient, Main, destructor | not destroyed before its thread is done, and destroyed at all |
| Key-value sample | five maps with a lock each | GetValue, SetValue | maps used one thread at a time; reads are not stale |
| `Serializer`, `RpcUtils`, `RpcTypes` | buffers of 480 bytes | Pack/ParseProtoStruct, Serialize, ToRpcResult | what is parsed is what was packed |

How they meet: the reactor thread turns epoll events into closures and gives
them to the pool; workers run handlers, which share the pipe, the handler table
and the sockets *without a lock*. Application threads and the client's network
thread share the callback table without a lock and the request queue with one.
Client and server exchange requests and results that only a `seqno` ties
together. Servers register with the name service over HTTP and exit when a
heartbeat fails; the name service stores its registry as a Raft log entry.

What is hard: the hand-over of a descriptor between threads by `EPOLLONESHOT`;
events that are acted on later than they were reported; descriptors and ids
that are used again; early returns that skip the re-arming; late and lost Raft
messages. The hazards in `PROJECT.json` list these one by one.

## Modules

`TaskPool` (abstract) is implemented by `ThreadPool` and used by `RpcServer`;
`GuidAlloc` (abstract) is implemented by `Guid` and used by `RpcClient`;
`RpcService` (abstract: per connection, calls are served one at a time in order
and results delivered in order) is implemented by `RpcServer` and used by
`KVSystem`, which also builds on `KVStore`. The implementation relations are
checked and proved, so the larger models may use
the smaller abstract components. `NameService` and `Wire` stand alone. `MC...` modules hold the sets
for TLC, `...Proofs` modules the theorems. A definition whose comment begins
with "Variant" is a wrong version of the one after it: each property is tried
against one of them, and TLC must then find the property violated.

**ThreadPool.** `pc[w]` is a worker's place in `Run`/`Dequeue`. Enqueue and
Dequeue are one step each, as they hold the mutex throughout; a Dequeue that
waits is two (`Sleep`, then `Take` or `WakeForNothing`), with spurious wakeups.
The destructors are four owner steps; after `DestroyQueue` a step on the queue
is undefined and the model takes none. `fate` is history.

**RpcServer.** `interest[f]` is the epoll registration ("absent", "off" after a
one-shot report, "in", "inout"); `batch`, `queue`, `held` follow a closure from
`Dispatch` to a worker; `pc`, `loc` are the worker's place and local variable in
its handler, with one label per call that other threads could observe (attach,
AddEvent, ModEvent, pipe, send, DelEvent, close). A request is `call`, `oneway`
or `bad`; its connection is carried along for the properties and not read by
the actions. Clients connect, send (whole or in two pieces), close, are reset.
`deaf` is history: the descriptors whose handler returned without re-arming, or
whose task the full queue refused; so is `torn`, the clients whose request was
read in part. DeafByOwnFault does not mention `deaf`: it looks at descriptors
that are off with no task on its way, and says whose fault that can be.
`SetupFails` is an accepted connection closed at once because setsockopt()
failed. `Faults` selects what may go wrong in a run;
the theorems hold with all of it. The kernel is external: `epoll_wait` reports
what is ready by the priorities of `Poller::Dispatch`, a reset connection
reports EPOLLERR, an idle one is writable. A failed accept() writes in front of
`_list`, so the process may or may not survive it; asserts and `exit(1)` end it
(`CMakeLists.txt` builds Debug, so asserts are on).

**Guid.** The vector and both percolation loops as they are: a loop is a
sequence of rounds, as many as the heap has elements, of which those after
`break` change nothing. Every call is one step, since `HeapMutex` is held
throughout. `used` is history.

**RpcClient.** Threads in `SyncThreads` use CallRPC and wait, the others
CallRPCAsync. A call takes an id, registers its callback, pushes its request;
the network thread receives, executes, clears and recycles as four steps, or
sends one request. The server answers in any order. `executed` and `dropped`
are history. The client's `send` may refuse any request.

**RaftNode.** One round of a role's loop is one step. `net[s][r]` is the FIFO
from s to r; PUB reaches everyone, the sender too; the head may be lost.
Timeouts are always possible. `ballots` is history. The contents of entries are
opaque, which matters: `run_node.py` changes the dictionary it gets from
`check_committed_entry` in place, inside the log.

**NameService.** The registry on the node that servers and clients ask, while
it leads. `check_committed_entry` returns the very object in the log entry, and
the endpoints change it before they submit it again; so `reg[d]` is a
dictionary, `cur` the one committed last and `upcoming` the others on their way.
There is more than one only after an election, when `_leader` submits an empty
one. An endpoint is one step, as is one pass of `monitor_clients`. `age` is the
time since `alive_timestamp` in heartbeat periods; `Tick` lets one pass, when
every heartbeat that is due has been sent, or as a fault when one has not. A
server registers its services in turn, starts its heartbeat thread, listens; a
fault is a failed request, a lost answer, a late heartbeat or a crash. A client
discovers, connects and leaves, again and again.

**RpcService, KVStore, KVSystem.** `step[w]` is a worker's place in
`GetValueInternal` or `SetValueInternal`, from the call to the return, with the
lock taken and released on the way. `KVSystem` adds the client process of
`apps/Client.cc`: the main thread makes two clients (or gets null, or exits
because the server found refuses the connection), launches two
application threads, waits for them, and destroys the clients in reverse order;
each client has a network thread, which may be scheduled at any time. In it the
requests, ids and callbacks are not repeated from `RpcClient`: a call is pending,
with the server, or got. `seen` is history: the values a get may return. The
thread of `GetRpcClient` holds the client through a reference to a `shared_ptr`
(the compiler constructs it in the caller's variable); a thread that enters
`Main` after that variable is gone is `net = "loop"` with `stub = "dead"`. The
run `client_destructor` finds it; what it does there is undefined, the model has
no step for it, and ClientEnds claims nothing of such a behaviour.

**Wire.** Encodings and buffers as sequences of bytes; a header is one unit of
the stream. protobuf is external and modelled by its encoding of the four
messages of `KVService.proto` (varints, tags, defaults omitted, what was parsed
when the input is malformed); ids are not negative and below 2^31, names
contain no zero byte. Uninitialised memory after the terminator is one of
`Leftovers`: any bytes in the theorems, in the run bytes that end a string, look
like a field, or like nothing.

## Runs

| Run | Bounds | Shows |
|---|---|---|
| `pool` | 3 workers, 3 jobs, queue of 2 | more jobs than slots, so refusals occur; two sleepers compete for one notification |
| `server_safety` | 2 connections, 1 descriptor, 2 workers, queue of 2, 1 request each, all kinds and faults | one descriptor forces accept() to fail and numbers to be reused; two workers race for it; who goes deaf |
| `server_live` | 2 connections, 2 descriptors, 2 workers, queue of 3, 2 calls each, cut requests | order and place of every call; every call answered; a client that is cut in two while the other is connected |
| `guid` | 8 ids | heaps of three full levels and one more element |
| `client` | 3 threads, 2 calls each, 2 ids | ids run out and are reused while results of their former calls are on the way |
| `raft` | 2 nodes, 3 terms, logs of 3 entries, 2 messages on the way when one more is sent, 1 queued request | two rival elections, a deposed leader and late messages of both |
| `names` | 2 servers with 2 and 1 services, 2 starts, 1 election, 1 fault, limits of 1 and 0 periods | registrations in turn, restarts, an empty dictionary among updates of the old one; offline and removed are still two passes |
| `system` | 1 get, 2 sets and 1 set of another client, 1 key, 2 values, 2 workers | every order of two workers in one map; either client null; network threads late |
| `wire` | ids 0, 1, 128, 16384; names of 0, 4, 127, 128, 475 and 476 bytes; 2 requests | each length of a varint, each edge of the buffers, two requests in the stream at once |

In `names` a fault or an election is one of a kind that may come at any time,
and the limits matter only in relation to the heartbeat period: 6 periods in the
code, 1 in the model, which is the tightest. One key suffices in `system`, since
maps, locks and answers of different keys do not touch (`getAllottedBucket`
chooses both the map and its lock).

Both server runs bound the queue by the number of descriptors, the listening one
included: FdExclusive makes that as good as 10000. A queue that refuses tasks is
left to the theorems. Two is the least number
of workers, connections and nodes at which the races exist. Deadlock is not
checked where clients may simply stop asking or the process may have ended.

Violation runs, each a finding with the line it contradicts:

* `stale_results`: the pipe survives the connection; the next client on the
  descriptor gets the former one's result.
* `client_destructor`: a network thread that has not run yet does not hold the
  mutex the destructor waits for; it enters `Main` on a destroyed client.
* `raft_votes`: votes of an earlier election are counted in the next.

Other behaviour of the code that the models reach and a reader should know of,
in the hazards: a rejected request (wrong magic number, version or service) is not
answered and its connection is never read again, where `README.md:360` promises
"appropriate failure responses"; EPOLLERR hides the hangup of a connection that
was reset, which is then never closed, where `ServerTransport.hh:26` says "we
should close this connection"; id 1024 of `Guid.hh:10` is one past the end of the
table with 1024 elements (`Register` in `RpcClient`); a late acknowledgement is
taken for that of a newer entry, which is committed without the follower having
it (`RaftNode`); the percolation of `Guid` descends left after it swapped right, so
ids are unique but not always the least; an election empties the registry and
with it ends the servers (`NameService`); `SetValue` through a null client waits
for ever (`app = "hung"` in `KVSystem`); a name of 476 bytes under id 0 can be
set but not read (`server = "aborted"` in `Wire`).

**Fairness.** Pool workers, the reactor and the client's network thread are
kernel threads in loops without an exit, so each is weakly fair; a mutex is
held only for a bounded time. In `RpcServer` the second piece of a request is
assumed to arrive (TCP), in `RpcClient` the server answers what it received
(what `CallsAnswered` shows of it). Nothing is assumed of the owner of a pool,
of clients, of callers, of spurious wakeups or of faults. `CallsAnswered`
excuses a connection that has gone deaf, was left by its client, or whose
server has ended; DeafByOwnFault says who goes deaf.
`RequestsCalledBack` excuses a request that send() refused and a process that has
ended. The Raft runs assume no fairness and check safety only.

In `NameService` time passes, `monitor_clients` makes its passes, servers take
their steps and Raft commits what is submitted; elections, faults, starts and
clients are free not to happen. `DeadServersForgotten` supposes that the log
settles on one dictionary: while updates of two alternate it need not. In
`KVSystem` the main thread, the application and network threads and the server's
workers are weakly fair, which is `CallsAnswered` of the server for a connection
that stays whole; other clients are not. `ClientEnds` supposes that the setter
was found, since otherwise SetValue waits for ever, and ends at a thread that
is in `Main` without a client.

## Proofs

All theorems hold for every value of the constants under the named assumptions
of the modules (finite nonempty `Workers` and a positive capacity for the pool;
that the sentinels are distinct from what they mark; that bounds are naturals).

* `ThreadPoolProofs`: `PoolTyped`, `NoLostWakeup`, `JobsNeitherLostNorDoubled`,
  `PoolRefinement`. NoIdleWhileQueued counts: while someone sleeps there are as
  many workers on their way to the queue as jobs in it. It is inductive together
  with the types; the step that matters is AddTask, which adds a job and moves a
  sleeper to Looking, and Take, which removes one of each.
* `RpcServerProofs`: three layers of one argument. `ServerTyped` and
  `OneThreadPerFd`: FdExclusive is not inductive, as a worker that accepts or
  closes acts on a descriptor that no task names. `Lock` adds that a descriptor
  with a task is disarmed (`Disarmed`), that one just accepted is unknown to
  epoll and in nobody's hands (`Fresh`), that an unowned number is too (`Free`),
  and what each label says of the worker's task (`Labels`).
  On top of it `HandlersFound`, `PipeNeverEmpty`, `ReadsFindData`,
  `FaultsStayAtHome`, with every fault. An event is handled long after it was
  reported, so each of these needs what stays true meanwhile: `Attached` (a
  descriptor that has or may have an event has its handlers), `Owners` (no
  connection is behind two descriptors), `Pending` (bytes, a result or a
  connection that was reported is still there). With `Lock` and NoOrphan (what
  is off without a task is in `deaf`) they make `Events`. For DeafByOwnFault
  `Contained` adds why each way into `deaf` is the client's own: a handler is
  missing only for Type 0, which is reported of a reset connection (`Resets`); a
  short read after a reported event is a cut request, which leaves its client in
  `torn`; a rejected request is one its client sent (`Origins`); and a task is
  refused only if the queue has fewer places than there are descriptors, as no
  two tasks are for one (`NoRefusal`, by the pigeonhole theorem). A deaf
  descriptor keeps its connection (`DeafStays`), as nothing but a handler closes.
  On top of that `NoCallLost` and `ServerImplementsService`. Both suppose
  `Patient`: connections are not reset, send() does not return EAGAIN, and
  clients close after their last answer. Without it they are false (a popped
  result is lost at EAGAIN, an abandoned pipe serves the next owner of the
  number: the run `stale_results`). `Books` says that what a client got, its
  results on the way and its calls not yet served are, in this order, the calls
  it made, unless its connection went deaf; `Off`, `CallsOnly`, `Hangup` say who
  may touch these queues. What a connection asked is filtered by the recursive
  function `CallsIn`; its lemmas are inductions, carried out on the set of
  counterexamples, which has no least element (`LeastNatural`).
* `GuidProofs`: `GuidsPartitioned`, `GuidImplementsAlloc`, `PercolateDownEnds`,
  `PercolateUpEnds`. `IdsInv` says that the heap repeats nothing and that heap
  and callers share out the ids from 1 to the bound. The loops keep it because
  each round swaps two elements or does nothing (`Rearranges`); the order of the
  heap is not needed, which is as well, for the loop of GetGuid does not restore
  it. That `while (1)` ends at all follows from a rank: every round that swaps
  at least doubles the node it goes on from, every round of RecycleGuid halves
  it.
* `WireProofs`: `RequestsArrive`, `ResultsArrive`. Recursive functions are first
  shown to satisfy their equations (`VarintDef`, `ReadVarintDef`,
  `ParseFieldsDef`), by one lemma on recursion along a measure
  (`RecursionSolved`). Then: no encoding contains a zero byte (`VarintClean`),
  parsing an encoding gives the message back (`Parsed`), also out of a larger
  buffer (`PackedParsed`), and a frame is cut out of the stream as it was put in
  (`FrameFirst`). `WireInv` says that the stream to the server is the frames of
  the requests not yet handled (`RequestsInv`), and that results are numbered
  as their requests and hold what the services answered (`AnswersInv`,
  `ResultsInv`), whether or not the server has aborted.
* `RpcClientProofs`: `ClientTyped`, `ResultsFindTheirCallback`,
  `WriteEventArmed`, `NoIdLeaks`, `CalledBackOnce`. `Route` follows an id: every
  carrier of an id (thread, queued request, request, result, network thread) is
  the only one (`Distinct`, `Apart`), Guid has it as handed out (`Allocated`),
  and from Register to Exec its slot holds the carrier's call (`Slots`). `Books`
  adds that ids handed out are exactly the carried ones and those of requests
  send() refused; `Once` that a call which can still be executed has not been.
* `NameServiceProofs`: `NameServiceTyped`, `ClientsReachTheirCallee`,
  `CalmServersRegistered`. However stale a dictionary is, it never lists a
  service its server does not register (`Truthful`); a server listens after it
  has registered all (`Progress`). `Calm` says of a system without faults and
  elections that there is one dictionary and how old each entry may be. It needs
  `Prompt`, that the inactivity limit spans a heartbeat period: 30 seconds
  (`MAX_INACTIVITY_TIME`) against `sleep(5)`.
* `RaftNodeProofs`: `RaftTyped`, `LeadersIndexTheirLog`, `LogsKeepTheirFirst`,
  `TermsOnlyGrow`, `LeadersKeepTheirLog`. The types are not inductive alone: an
  append entries message must leave room for an entry after the one it names
  (`Sockets`), a log must have its first entry (`Logs`), a candidate fewer votes
  than it needs (`Counted`). `CommittableIsLeast` shows that the loop of
  raft.py:434-441 yields the lowest match_index.
* `KVSystemProofs`: `SystemTyped`, `OneWorkerPerMap`, `InsertedByOne`,
  `ReadsRegular`. The types need `Busy`, what a worker has
  between taking a call and answering it. MapsExclusive follows from `Held`: who
  is inside a map has its lock, which is inductive because map and lock are
  chosen by the same key and no worker is None. The last two need `Served`, that a worker's request is the
  first call of a connection it has to itself. `Inserts` is about results and
  workers on their way to one: a key without a value has neither, and a key has
  one of both. `Reads` says that what a get under way would report now, what a
  worker is about to answer it, and what was answered is in `seen`.

TLC finds each inductive invariant true on the bounds of its run as well.
Assumptions beyond types and sentinels: the descriptors of the server are
finitely many; requests fit into 480 bytes, which nothing in the code checks
(the guard of `CallRPCAsync` in `Wire`); terms begin at 1, so MaxTerm
is positive; names are not codes (`Values` has neither "code 1" nor "code 2":
in `KVService.proto` one is a string, the other a number); other clients'
connections are not this process's; the names of `Wire` are bytes other than
zero and what is left over in a buffer is bytes.

Only model-checked: every liveness property (AcceptedJobsRun, CallsAnswered,
RequestsCalledBack, ForgottenServersExit, DeadServersForgotten, ClientEnds: the
provers have no fairness). Every invariant, every action property and every
refinement that a passing run checks is proved as well.

## Not modelled

* HTTP, curl and JSON, of which the outcome is kept; logging, command lines,
  reading `/proc`; `Timer`, which nothing constructs.
* Name service: a node that is asked while it follows (it forwards a dictionary
  it has changed in its own log), the endpoints `/request` and `/status`, which
  nothing in the repository calls, and `run_cluster.py`, which starts processes.
  Two endpoints in the middle of each other: what that can add is an exception,
  and an answer other than 200 is an answer other than 200.
* Client: a `recv` that returns part of a result.
* A `send` that takes a request or a result only in part: neither
  `ClientTransport::Send` (ClientTransport.cc:121-126) nor `HandleWriteEvent`
  (RpcEventHandler.cc:114-122) looks at anything but -1. The rest is lost and the
  receiver takes what follows for it. `RpcServer` has the loss
  (`SendWouldBlock`), not the framing that goes wrong after it.
* Negative ids: `getAllottedBucket` then indexes in front of the arrays; no
  caller in the repository makes one.
* The getter and the setter may be sent to different servers, whose stores have
  nothing to do with each other; `KVSystem` has one server.
* Raft: restarts (the state called persistent in `raft.py` is not written
  anywhere), pause/un_pause (no caller), `log_hash`.

## Plan

1. Which commits of `RaftNode` are safe: one that follows a late acknowledgement
   is not.
2. Raft with three nodes, and commitment on a majority (`raft.py:351`) against
   the loop at 434-441, which waits for every node.
3. A receive buffer in the client, for results that arrive in pieces.
