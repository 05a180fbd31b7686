------------------------------ MODULE KVSystem ------------------------------
(***************************************************************************)
(* The sample application end to end: a client process (apps/Client.cc)    *)
(* from MakeRpcClient to the destructors of its two RpcClients, other      *)
(* clients that write, a server that keeps the promise of RpcService, and  *)
(* its workers in the key-value store.                                     *)
(*                                                                         *)
(* The process has two stubs, "getter" and "setter", each with its own     *)
(* connection, application thread and network thread (RpcClient::Main).    *)
(* ids, callbacks and the request queue in detail are RpcClient's: here a  *)
(* call waits in pending until the network thread sends it, and its result *)
(* ends it when the network thread receives it.                            *)
(***************************************************************************)
EXTENDS KVStore, Sequences, FiniteSets

CONSTANTS
  Peers,     \* connections of other processes, which only set
  MaxCalls   \* bound: calls over each connection

Stubs == {"getter", "setter"}
Conns == Stubs \cup Peers

ASSUME CallsAssumption == Peers \cap Stubs = {} /\ MaxCalls \in [Conns -> Nat]

Nths == UNION {1..MaxCalls[c] : c \in Conns}
Calls == [conn : Conns, nth : Nths, key : Keys,
          val : Values \cup {None}]
Results == [call : Calls, rsp : Replies]

VARIABLES
  inbox, outbox, got,  \* RpcService
  serving,   \* the connection whose call each worker serves
  made,      \* calls made over each connection
  main,      \* the main thread
  stub,      \* the shared_ptr that MakeRpcClient returned
  app,       \* crazy_read and crazy_write
  net,       \* the detached threads
  m_stop,
  pending,   \* PendingRequests
  seen       \* values a key has had since the n-th get was made (history)

netVars == <<inbox, outbox, got, serving>>
procVars == <<main, stub, app, net, m_stop, pending>>
vars == <<storeVars, netVars, made, procVars, seen>>

CallOf(r) == r.call

Service == INSTANCE RpcService

TypeOK ==
  /\ StoreTypeOK
  /\ inbox \in [Conns -> Seq(Calls)]
  /\ outbox \in [Conns -> Seq(Results)]
  /\ got \in [Conns -> Seq(Results)]
  /\ serving \in [Workers -> Conns \cup {None}]
  /\ made \in [Conns -> Nths \cup {0}]
  /\ main \in {"make", "wait", "stop", "drop", "exit"}
  /\ stub \in [Stubs -> {"none", "null", "live", "dead"}]
  /\ app \in [Stubs -> {"off", "run", "get", "hung", "done"}]
  /\ net \in [Stubs -> {"none", "new", "loop", "over"}]
  /\ m_stop \in [Stubs -> BOOLEAN]
  /\ pending \in [Stubs -> Seq(Calls)]
  /\ seen \in [1..MaxCalls["getter"] -> SUBSET Replies]

Init ==
  /\ StoreInit
  /\ Service!SvcInit
  /\ serving = [w \in Workers |-> None]
  /\ made = [c \in Conns |-> 0]
  /\ main = "make"
  /\ stub = [s \in Stubs |-> "none"]
  /\ app = [s \in Stubs |-> "off"]
  /\ net = [s \in Stubs |-> "none"]
  /\ m_stop = [s \in Stubs |-> FALSE]
  /\ pending = [s \in Stubs |-> <<>>]
  /\ seen = [n \in 1..MaxCalls["getter"] |-> {}]

-----------------------------------------------------------------------------
(* The main thread: apps/Client.cc main.                                   *)

(* getter is made before setter.                                           *)
Due(s) ==
  /\ main = "make"
  /\ stub[s] = "none"
  /\ s = "setter" => stub["getter"] # "none"

(* MakeRpcClient returns a client whose thread has been created, or null   *)
(* if no server is found.                                                  *)
Make(s) ==
  /\ Due(s)
  /\ \/ /\ stub' = [stub EXCEPT ![s] = "live"]
        /\ net' = [net EXCEPT ![s] = "new"]
     \/ stub' = [stub EXCEPT ![s] = "null"] /\ UNCHANGED net
  /\ UNCHANGED <<storeVars, netVars, made, main, app, m_stop, pending, seen>>

(* A server is found but does not accept: Connect calls exit(1).           *)
MakeFails(s) ==
  /\ Due(s)
  /\ main' = "exit"
  /\ UNCHANGED <<storeVars, netVars, made, stub, app, net, m_stop, pending, seen>>

(* std::async twice, then wait() for both.                                 *)
Launch ==
  /\ main = "make"
  /\ \A s \in Stubs : stub[s] # "none"
  /\ app' = [s \in Stubs |-> "run"]
  /\ main' = "wait"
  /\ UNCHANGED <<storeVars, netVars, made, stub, net, m_stop, pending, seen>>

Joined ==
  /\ main = "wait"
  /\ \A s \in Stubs : app[s] = "done"
  /\ main' = "stop"
  /\ UNCHANGED <<storeVars, netVars, made, stub, app, net, m_stop, pending, seen>>

(* main returns: setter goes before getter.                                *)
Last == IF stub["setter"] = "live" THEN "setter" ELSE "getter"

(* ~RpcClient: m_stop,                                                     *)
Stop ==
  /\ main = "stop"
  /\ stub[Last] = "live"
  /\ m_stop' = [m_stop EXCEPT ![Last] = TRUE]
  /\ main' = "drop"
  /\ UNCHANGED <<storeVars, netVars, made, stub, app, net, pending, seen>>

(* then the mutex m, which Main holds, and the members.                    *)
Drop ==
  /\ main = "drop"
  /\ net[Last] # "loop"
  /\ stub' = [stub EXCEPT ![Last] = "dead"]
  /\ main' = "stop"
  /\ UNCHANGED <<storeVars, netVars, made, app, net, m_stop, pending, seen>>

Exit ==
  /\ main = "stop"
  /\ \A s \in Stubs : stub[s] # "live"
  /\ main' = "exit"
  /\ UNCHANGED <<storeVars, netVars, made, stub, app, net, m_stop, pending, seen>>

-----------------------------------------------------------------------------
(* The application threads.                                                *)

Value(k) == dicts[getAllottedBucket(k)][k]

Wanted(s) == IF s = "getter" THEN {None} ELSE Values

Call(c, k, v) == [conn |-> c, nth |-> made[c] + 1, key |-> k, val |-> v]

(* GetValue and SetValue through a live client: the request is queued, and *)
(* SetValue waits for its future.                                          *)
MakeCall(s, k, v) ==
  /\ main # "exit"
  /\ app[s] = "run" /\ stub[s] = "live"
  /\ made[s] < MaxCalls[s] /\ v \in Wanted(s)
  /\ made' = [made EXCEPT ![s] = @ + 1]
  /\ pending' = [pending EXCEPT ![s] = Append(@, Call(s, k, v))]
  /\ app' = [app EXCEPT ![s] = IF s = "setter" THEN "get" ELSE "run"]
  /\ seen' = IF s = "setter" THEN seen
             ELSE [seen EXCEPT ![made'[s]] =
                     {IF Value(k) = None THEN "not found" ELSE Value(k)}]
  /\ UNCHANGED <<storeVars, netVars, main, stub, net, m_stop>>

(* Through a null client nothing is sent (AsyncInvoke): GetValue returns,  *)
(* SetValue waits for ever.                                                *)
NullCall(s) ==
  /\ main # "exit"
  /\ app[s] = "run" /\ stub[s] = "null"
  /\ app' = [app EXCEPT ![s] = IF s = "setter" THEN "hung" ELSE "done"]
  /\ UNCHANGED <<storeVars, netVars, made, main, stub, net, m_stop, pending, seen>>

(* f.get() returns.                                                        *)
Answered(s) ==
  /\ main # "exit"
  /\ app[s] = "get"
  /\ Len(got[s]) = made[s]
  /\ app' = [app EXCEPT ![s] = "run"]
  /\ UNCHANGED <<storeVars, netVars, made, main, stub, net, m_stop, pending, seen>>

(* The loop over ids ends; it runs at least once.                          *)
Finish(s) ==
  /\ main # "exit"
  /\ app[s] = "run" /\ made[s] > 0
  /\ app' = [app EXCEPT ![s] = "done"]
  /\ UNCHANGED <<storeVars, netVars, made, main, stub, net, m_stop, pending, seen>>

AppStep(s) == Finish(s) \/ NullCall(s) \/ Answered(s)
                \/ \E k \in Keys, v \in Values \cup {None} : MakeCall(s, k, v)

-----------------------------------------------------------------------------
(* The network threads: RpcClient::Main.                                   *)

(* It takes m.  The thread has the client through a reference to a         *)
(* shared_ptr that the main thread destroys: nothing makes it enter Main   *)
(* before that.                                                            *)
Enter(s) ==
  /\ main # "exit"
  /\ net[s] = "new"
  /\ net' = [net EXCEPT ![s] = "loop"]
  /\ UNCHANGED <<storeVars, netVars, made, main, stub, app, m_stop, pending, seen>>

(* In the loop, with a client.  What Main does without one is undefined,   *)
(* and the model has no step for it.                                       *)
Looping(s) == main # "exit" /\ net[s] = "loop" /\ stub[s] = "live"

SendPending(s) ==
  /\ Looping(s)
  /\ pending[s] # <<>>
  /\ Service!Post(s, Head(pending[s]))
  /\ pending' = [pending EXCEPT ![s] = Tail(@)]
  /\ UNCHANGED <<storeVars, serving, made, main, stub, app, net, m_stop, seen>>

Receive(s) ==
  /\ Looping(s)
  /\ Service!Deliver(s)
  /\ UNCHANGED <<storeVars, serving, made, procVars, seen>>

(* Variant: Dispatch waits for an event without a timeout.                 *)
ReturnOnEvent(s) ==
  /\ Looping(s) /\ m_stop[s]
  /\ pending[s] # <<>> \/ outbox[s] # <<>>
  /\ net' = [net EXCEPT ![s] = "over"]
  /\ UNCHANGED <<storeVars, netVars, made, main, stub, app, m_stop, pending, seen>>

(* Dispatch times out after 100 ms at the latest and m_stop is tested.     *)
Return(s) ==
  /\ Looping(s) /\ m_stop[s]
  /\ net' = [net EXCEPT ![s] = "over"]
  /\ UNCHANGED <<storeVars, netVars, made, main, stub, app, m_stop, pending, seen>>

NetStep(s) == Enter(s) \/ SendPending(s) \/ Receive(s) \/ Return(s)

-----------------------------------------------------------------------------
(* Other processes, and the server.                                        *)

PeerCalls(c, k, v) ==
  /\ made[c] < MaxCalls[c]
  /\ made' = [made EXCEPT ![c] = @ + 1]
  /\ Service!Post(c, Call(c, k, v))
  /\ UNCHANGED <<storeVars, serving, procVars, seen>>

PeerReceives(c) ==
  /\ Service!Deliver(c)
  /\ UNCHANGED <<storeVars, serving, made, procVars, seen>>

(* A worker serves the first call of a connection no other worker is at.   *)
Accept(w, c) ==
  /\ inbox[c] # <<>>
  /\ \A v \in Workers : serving[v] # c
  /\ Begin(w, [key |-> Head(inbox[c]).key, val |-> Head(inbox[c]).val])
  /\ serving' = [serving EXCEPT ![w] = c]
  /\ UNCHANGED <<inbox, outbox, got, made, procVars, seen>>

Work(w) ==
  /\ Lock(w) \/ Find(w) \/ Unlock(w)
  /\ UNCHANGED <<netVars, made, procVars, seen>>

(* A value is stored; gets that are under way may see it.                  *)
WorkStore(w) ==
  /\ Store(w)
  /\ LET Sees(m) == m.conn = "getter" /\ m.key = req[w].key
         waiting == {m \in Calls : Sees(m) /\
           \/ \E i \in 1..Len(pending["getter"]) : pending["getter"][i] = m
           \/ \E i \in 1..Len(inbox["getter"]) : inbox["getter"][i] = m}
     IN  seen' = [n \in DOMAIN seen |->
                    IF \E m \in waiting : m.nth = n
                    THEN seen[n] \cup {req[w].val} ELSE seen[n]]
  /\ UNCHANGED <<netVars, made, procVars>>

Answer(w) ==
  /\ End(w)
  /\ LET c == serving[w]
     IN  Service!Serve(c, [call |-> Head(inbox[c]), rsp |-> rsp[w]])
  /\ serving' = [serving EXCEPT ![w] = None]
  /\ UNCHANGED <<made, procVars, seen>>

WorkerStep(w) ==
  (\E c \in Conns : Accept(w, c)) \/ Work(w) \/ WorkStore(w) \/ Answer(w)

-----------------------------------------------------------------------------

MainStep ==
  \/ \E s \in Stubs : Make(s) \/ MakeFails(s)
  \/ Launch \/ Joined \/ Stop \/ Drop \/ Exit

Next ==
  \/ MainStep
  \/ \E s \in Stubs : AppStep(s) \/ NetStep(s)
  \/ \E c \in Peers : PeerReceives(c)
                        \/ \E k \in Keys, v \in Values : PeerCalls(c, k, v)
  \/ \E w \in Workers : WorkerStep(w)

Spec == Init /\ [][Next]_vars

(* Threads run.  That the server's do, and lose no call, is what RpcServer *)
(* shows while connections stay; peers need do nothing.                    *)
FairSpec ==
  /\ Spec
  /\ WF_vars(MainStep)
  /\ \A s \in Stubs : WF_vars(AppStep(s)) /\ WF_vars(NetStep(s))
  /\ \A w \in Workers : WF_vars(WorkerStep(w))

-----------------------------------------------------------------------------
(* Properties.                                                             *)

ResultsOf(c) == {got[c][i] : i \in 1..Len(got[c])}
                  \cup {outbox[c][i] : i \in 1..Len(outbox[c])}

(* GetValue reports a value that its key had at some time between the call *)
(* and its result, whichever workers, locks and connections were involved: *)
(* what a SetValue that had returned before stored is never missed.        *)
ReadsAreRegular ==
  \A r \in ResultsOf("getter") : r.rsp \in seen[r.call.nth]

(* SetValue answers code 2 (inserted) to one caller per key and code 1     *)
(* (replaced) to all others, although several connections may set a new    *)
(* key at once.                                                            *)
InsertedOnce ==
  \A k \in Keys :
    Cardinality({r \in UNION {ResultsOf(c) : c \in Conns} :
                   r.call.key = k /\ r.rsp = "code 2"}) <= 1

(* RpcClient.cc:40 "we cannot start destructor procedure before main()     *)
(* returns": whoever is inside Main has a client.                          *)
MainOnLiveClient == \A s \in Stubs : net[s] = "loop" => stub[s] = "live"

(* If the setter's server was found, the process comes to its end: every   *)
(* SetValue returns, the destructors get the mutexes whatever the network  *)
(* threads are at.  Of a thread that entered Main when its client was gone *)
(* nothing is claimed: it may take the process anywhere.                   *)
ClientEnds ==
  main = "wait" /\ stub["setter"] = "live"
    ~> \/ main = "exit"
       \/ \E s \in Stubs : net[s] = "loop" /\ stub[s] = "dead"

=============================================================================
