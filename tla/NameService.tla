---------------------------- MODULE NameService -----------------------------
(***************************************************************************)
(* The registry of servers: run_node.py on the node that servers and       *)
(* clients are told to ask, the servers that register with it and send it  *)
(* heartbeats (RpcServer, ServiceReporter, apps/Server.cc), and a client   *)
(* that looks for a service (RpcClientFactory, ServiceDiscoverer).         *)
(*                                                                         *)
(* check_committed_entry returns the dictionary object in the log entry    *)
(* committed last, and the endpoints change it in place before they submit *)
(* the same object again: the registry is not copied, but there may be     *)
(* several dictionaries, since a new leader submits an empty one.          *)
(*                                                                         *)
(* Endpoints are one step each.  Two of them, or one and monitor_clients,  *)
(* may interleave in the Python process, but all that makes of it is an    *)
(* exception instead of an error answer; both are the same to the caller.  *)
(***************************************************************************)
EXTENDS Naturals, Sequences, FiniteSets

CONSTANTS
  Servers,       \* ip:port of the servers
  Services,      \* the services each of them registers, in order
  Inactivity,    \* MAX_INACTIVITY_TIME, in heartbeat periods
  Offline,       \* MAX_OFFLINE_TIME, likewise
  MaxStarts,     \* bound: starts of servers
  MaxElections,  \* bound: changes of leadership
  MaxFaults,     \* bound: crashes, failed requests, late heartbeats
  None

Named(s) == {Services[s][i] : i \in 1..Len(Services[s])}
Names == UNION {Named(s) : s \in Servers}
Oldest == Inactivity + Offline + 1
Entries == [services : SUBSET Names, age : 0..Oldest,
            status : {"ONLINE", "OFFLINE"}]

ASSUME NameAssumption ==
  /\ Services \in [Servers -> Seq(STRING) \ {<<>>}]
  /\ Inactivity \in Nat /\ Offline \in Nat
  /\ MaxStarts \in Nat /\ MaxElections \in Nat /\ MaxFaults \in Nat
  /\ None \notin Servers \cup Names \cup Entries

(* Each dictionary is named by the election that brought it.               *)
Dicts == 0..MaxElections

VARIABLES
  reg,       \* reg[d][s]: what dictionary d has under s
  cur,       \* the dictionary committed last
  upcoming,  \* those submitted after it, as far as they differ
  elections, \* changes of leadership so far
  main,      \* where each server's main thread is
  done,      \* how many services it has registered
  heart,     \* its heartbeat thread
  starts,    \* how many have been started
  proxies,   \* RpcRequestHandler::_dictionary
  client,    \* a client in MakeRpcClient
  faults     \* what has gone wrong so far

regVars == <<reg, cur, upcoming, elections>>
serverVars == <<main, done, heart, starts, proxies>>
vars == <<regVars, serverVars, client, faults>>

NoClient(p) == [phase |-> p, callee |-> None, addr |-> None]

TypeOK ==
  /\ reg \in [Dicts -> [Servers -> Entries \cup {None}]]
  /\ cur \in 0..elections
  /\ upcoming \in Seq(1..elections \cup {0})
  /\ elections \in Dicts
  /\ main \in [Servers -> {"down", "register", "main", "listen", "run"}]
  /\ done \in [Servers -> Nat]
  /\ \A s \in Servers : done[s] <= Len(Services[s])
  /\ heart \in [Servers -> {"off", "beat", "sleep"}]
  /\ starts \in 0..MaxStarts
  /\ proxies \in [Servers -> SUBSET Names]
  /\ client \in [phase : {"idle", "found", "connected", "gone"},
                 callee : Names \cup {None}, addr : Servers \cup {None}]
  /\ faults \in 0..MaxFaults

Init ==
  /\ reg = [d \in Dicts |-> [s \in Servers |-> None]]
  /\ cur = 0 /\ upcoming = <<>> /\ elections = 0
  /\ main = [s \in Servers |-> "down"]
  /\ done = [s \in Servers |-> 0]
  /\ heart = [s \in Servers |-> "off"]
  /\ starts = 0
  /\ proxies = [s \in Servers |-> {}]
  /\ client = NoClient("idle")
  /\ faults = 0

(* One more thing goes wrong.                                              *)
Fault == faults < MaxFaults /\ faults' = faults + 1

-----------------------------------------------------------------------------
(* The name service.                                                       *)

Known(d, s) == reg[d][s] # None

(* client_request: the dictionary that was read is submitted.  Submitting  *)
(* it again right after itself changes nothing anyone sees.                *)
Submit ==
  LET all == <<cur>> \o upcoming
  IN  upcoming' = IF all[Len(all)] = cur THEN upcoming ELSE Append(upcoming, cur)

Store(s, e) == reg' = [reg EXCEPT ![cur][s] = e] /\ Submit

(* Variant: a new entry is neither online nor offline.                     *)
RegisteredWithoutStatus(s, v) ==
  Store(s, [services |-> {v}, age |-> 0, status |-> "NEW"])

(* register_endpoint.  A service already there is an error, and the entry  *)
(* is left as it is.                                                       *)
Registered(s, v) ==
  IF Known(cur, s) /\ v \in reg[cur][s].services
  THEN UNCHANGED <<reg, upcoming>>
  ELSE Store(s, [services |-> {v} \cup IF Known(cur, s) THEN reg[cur][s].services
                                       ELSE {},
                 age |-> 0, status |-> "ONLINE"])

(* Variant: the timestamp is not set.                                      *)
BeatWithoutTimestamp(s) == Store(s, [reg[cur][s] EXCEPT !.status = "ONLINE"])

(* heartbeat_endpoint, for a server it knows.                              *)
Beat(s) == Store(s, [reg[cur][s] EXCEPT !.age = 0, !.status = "ONLINE"])

(* Variant: servers that are offline are never removed.                    *)
MonitoredMarkingOnly(e) ==
  IF e = None THEN None
  ELSE IF e.status = "ONLINE" /\ e.age > Inactivity
       THEN [e EXCEPT !.status = "OFFLINE"] ELSE e

(* One pass of monitor_clients over an entry.                              *)
Monitored(e) ==
  CASE e = None -> None
    [] e # None /\ e.status = "ONLINE" ->
         IF e.age > Inactivity THEN [e EXCEPT !.status = "OFFLINE"] ELSE e
    [] e # None /\ e.status = "OFFLINE" ->
         IF e.age > Inactivity + Offline THEN None ELSE e

Monitor ==
  /\ reg' = [reg EXCEPT ![cur] = [s \in Servers |-> Monitored(@[s])]]
  /\ Submit
  /\ UNCHANGED <<cur, elections, serverVars, client, faults>>

(* Raft commits the next entry.                                            *)
Commit ==
  /\ upcoming # <<>>
  /\ cur' = Head(upcoming)
  /\ upcoming' = Tail(upcoming)
  /\ UNCHANGED <<reg, elections, serverVars, client, faults>>

(* The node becomes leader again: an empty dictionary goes to the end of   *)
(* the log, before what is still in the queue of requests.                 *)
Elected ==
  /\ elections < MaxElections
  /\ elections' = elections + 1
  /\ \E k \in 0..Len(upcoming) :
       upcoming' = SubSeq(upcoming, 1, k) \o <<elections + 1>>
                     \o SubSeq(upcoming, k + 1, Len(upcoming))
  /\ UNCHANGED <<reg, cur, serverVars, client, faults>>

-----------------------------------------------------------------------------
(* Servers.                                                                *)

Start(s) ==
  /\ main[s] = "down"
  /\ starts < MaxStarts
  /\ starts' = starts + 1
  /\ main' = [main EXCEPT ![s] = "register"]
  /\ UNCHANGED <<regVars, done, heart, proxies, client, faults>>

(* RegisterMyself: the request is answered, with success or with an error, *)
(* or fails.                                                               *)
RegisterMyself(s, v) ==
  \/ Registered(s, v) /\ UNCHANGED faults
  \/ Fault /\ UNCHANGED <<reg, upcoming>>

(* RpcServer::RegisterService does not look at what it returns.            *)
RegisterService(s) ==
  /\ main[s] = "register"
  /\ LET v == Services[s][done[s] + 1] IN
       /\ proxies' = [proxies EXCEPT ![s] = @ \cup {v}]
       /\ RegisterMyself(s, v)
  /\ done' = [done EXCEPT ![s] = @ + 1]
  /\ main' = [main EXCEPT ![s] = IF done'[s] = Len(Services[s]) THEN "main" ELSE @]
  /\ UNCHANGED <<cur, elections, heart, starts, client>>

(* Variant: Main listens although services are still to be registered.     *)
StartHeartEarly(s) ==
  /\ main[s] \in {"register", "main"} /\ done[s] > 0
  /\ heart' = [heart EXCEPT ![s] = "beat"]
  /\ main' = [main EXCEPT ![s] = "listen"]
  /\ UNCHANGED <<regVars, done, starts, proxies, client, faults>>

(* RpcServer::Main: the heartbeat thread,                                  *)
StartHeart(s) ==
  /\ main[s] = "main"
  /\ heart' = [heart EXCEPT ![s] = "beat"]
  /\ main' = [main EXCEPT ![s] = "listen"]
  /\ UNCHANGED <<regVars, done, starts, proxies, client, faults>>

(* then Listen and the reactor.                                            *)
Listen(s) ==
  /\ main[s] = "listen"
  /\ main' = [main EXCEPT ![s] = "run"]
  /\ UNCHANGED <<regVars, done, heart, starts, proxies, client, faults>>

(* The process ends; so does a client connected to it (HandleCloseEvent).  *)
Exit(s) ==
  /\ main' = [main EXCEPT ![s] = "down"]
  /\ done' = [done EXCEPT ![s] = 0]
  /\ heart' = [heart EXCEPT ![s] = "off"]
  /\ proxies' = [proxies EXCEPT ![s] = {}]
  /\ client' = IF client.phase = "connected" /\ client.addr = s
               THEN NoClient("gone") ELSE client
  /\ UNCHANGED starts

(* Variant: the result of SendHeartbeat is ignored.                        *)
HeartbeatIgnored(s) ==
  /\ heart[s] = "beat"
  /\ heart' = [heart EXCEPT ![s] = "sleep"]
  /\ IF Known(cur, s) THEN Beat(s) ELSE UNCHANGED <<reg, upcoming>>
  /\ UNCHANGED <<cur, elections, main, done, starts, proxies, client, faults>>

(* SendHeartbeat: accepted, and the thread sleeps;                         *)
Heartbeat(s) ==
  /\ heart[s] = "beat"
  /\ Known(cur, s)
  /\ Beat(s)
  /\ heart' = [heart EXCEPT ![s] = "sleep"]
  /\ UNCHANGED <<cur, elections, main, done, starts, proxies, client, faults>>

(* or "not-registered", or the request or its answer is lost: exit(1).     *)
HeartbeatFails(s) ==
  /\ heart[s] = "beat"
  /\ \/ ~Known(cur, s) /\ UNCHANGED <<reg, upcoming, faults>>
     \/ Fault /\ UNCHANGED <<reg, upcoming>>
     \/ Fault /\ Known(cur, s) /\ Beat(s)
  /\ Exit(s)
  /\ UNCHANGED <<cur, elections>>

(* The process ends for another reason: create_listenfd asserts that the   *)
(* address is free, and handlers assert and exit(1).                       *)
Crash(s) ==
  /\ main[s] # "down"
  /\ Fault
  /\ Exit(s)
  /\ UNCHANGED regVars

(* One heartbeat period passes.  Unless something goes wrong, servers have *)
(* sent the heartbeat that is due, and do not take that long to register.  *)
Tick ==
  /\ \/ /\ \A s \in Servers : heart[s] # "beat" /\ main[s] \notin {"register", "main"}
        /\ UNCHANGED faults
     \/ Fault
  /\ reg' = [d \in Dicts |-> [s \in Servers |->
       IF Known(d, s) /\ reg[d][s].age < Oldest
       THEN [reg[d][s] EXCEPT !.age = @ + 1] ELSE reg[d][s]]]
  /\ heart' = [s \in Servers |-> IF heart[s] = "sleep" THEN "beat" ELSE heart[s]]
  /\ UNCHANGED <<cur, upcoming, elections, main, done, starts, proxies, client>>

-----------------------------------------------------------------------------
(* A client in RpcClientFactory::MakeRpcClient.                            *)

(* discover_endpoint: the least loaded server under whose entry the callee *)
(* is, offline or not; loads are arbitrary, so any of them.                *)
Offering(v) == {s \in Servers : Known(cur, s) /\ v \in reg[cur][s].services}

(* RequestServiceList and DiscoverServer: the first of the list;           *)
Discover(v) ==
  /\ client.phase = "idle"
  /\ \E s \in Offering(v) :
       client' = [phase |-> "found", callee |-> v, addr |-> s]
  /\ UNCHANGED <<regVars, serverVars, faults>>

(* no server, or any failure, is an empty list and a null client.          *)
DiscoverNone(v) ==
  /\ client.phase = "idle"
  /\ (Offering(v) = {} /\ UNCHANGED faults) \/ Fault
  /\ client' = NoClient("gone")
  /\ UNCHANGED <<regVars, serverVars>>

(* RpcClient::Initialize: nobody listening there ends the process.         *)
Connect ==
  /\ client.phase = "found"
  /\ client' = IF main[client.addr] = "run"
               THEN [client EXCEPT !.phase = "connected"] ELSE NoClient("gone")
  /\ UNCHANGED <<regVars, serverVars, faults>>

(* Another client comes.                                                   *)
Leave ==
  /\ client.phase \in {"connected", "gone"}
  /\ client' = NoClient("idle")
  /\ UNCHANGED <<regVars, serverVars, faults>>

-----------------------------------------------------------------------------

ServerStep(s) ==
  \/ RegisterService(s) \/ StartHeart(s) \/ Listen(s)
  \/ Heartbeat(s) \/ HeartbeatFails(s)

Next ==
  \/ \E s \in Servers : Start(s) \/ ServerStep(s) \/ Crash(s)
  \/ Monitor \/ Commit \/ Elected \/ Tick
  \/ (\E v \in Names : Discover(v) \/ DiscoverNone(v)) \/ Connect \/ Leave

Spec == Init /\ [][Next]_vars

(* Time passes, threads of the servers and of the name service run, and    *)
(* what is submitted is committed.                                         *)
FairSpec ==
  /\ Spec
  /\ WF_vars(Tick) /\ WF_vars(Monitor) /\ WF_vars(Commit)
  /\ \A s \in Servers : WF_vars(ServerStep(s))

-----------------------------------------------------------------------------
(* Properties.                                                             *)

(* As long as nothing fails and no leader is elected, no server leaves,    *)
(* and one that sends heartbeats is registered with all its services and   *)
(* online: the pace of heartbeats (sleep(5)) keeps ahead of the limits of  *)
(* monitor_clients, through every order of registrations and passes.       *)
CalmServersStay ==
  faults = 0 /\ elections = 0 =>
    /\ Cardinality({s \in Servers : main[s] # "down"}) = starts
    /\ \A s \in Servers :
         heart[s] # "off" =>
           /\ Known(cur, s)
           /\ reg[cur][s].services = Named(s)
           /\ reg[cur][s].status = "ONLINE"

(* A client that is connected reaches a server that knows its callee,      *)
(* whatever stale entries led it there: its requests are not among those   *)
(* that RpcRequestHandler drops.                                           *)
ConnectedToCallee ==
  client.phase = "connected" => client.callee \in proxies[client.addr]

(* A server the registry has forgotten (removed for silence, or wiped by a *)
(* new leader's empty dictionary) does not run on unknown: its next        *)
(* heartbeat ends it, unless it is known again by then.                    *)
ForgottenServersExit ==
  \A s \in Servers :
    heart[s] # "off" /\ ~Known(cur, s) ~> main[s] = "down" \/ Known(cur, s)

(* Once a server is down for good and the log has settled on one           *)
(* dictionary, clients are eventually no longer sent to it.                *)
DeadServersForgotten ==
  \A s \in Servers :
    <>[](main[s] = "down") /\ <>[](upcoming = <<>>) => <>[]~Known(cur, s)

=============================================================================
