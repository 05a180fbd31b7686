------------------------- MODULE NameServiceProofs --------------------------
(***************************************************************************)
(* A client is connected only to a server of its callee, and servers stay  *)
(* registered as long as nothing fails; for any number of servers and      *)
(* services, any limits, and any number of failures and elections.         *)
(***************************************************************************)
EXTENDS NameService, FiniteSetTheorems, SequenceTheorems, TLAPS

-----------------------------------------------------------------------------
(* The inductive invariant.                                                *)

(* The first n services of a server.                                       *)
First(s, n) == {Services[s][i] : i \in 1..n}

(* How far a server's main thread is, and what it has registered.          *)
Progress ==
  \A s \in Servers :
    /\ main[s] = "down" => done[s] = 0
    /\ main[s] = "register" => done[s] < Len(Services[s])
    /\ main[s] \in {"main", "listen", "run"} => done[s] = Len(Services[s])
    /\ heart[s] # "off" <=> main[s] \in {"listen", "run"}
    /\ First(s, done[s]) \subseteq proxies[s]

(* No dictionary, however stale, lists a service its server does not have. *)
Truthful ==
  \A d \in Dicts, s \in Servers :
    Known(d, s) => reg[d][s].services \subseteq Named(s)

(* Where a client has been sent.                                           *)
Sent ==
  /\ client.phase \in {"found", "connected"} =>
       client.addr \in Servers /\ client.callee \in Named(client.addr)
  /\ client.phase = "connected" => main[client.addr] = "run"

IInv == TypeOK /\ Progress /\ Truthful /\ Sent

(* What the constants are.                                                 *)
LEMMA Constants ==
  /\ MaxElections \in Nat /\ MaxStarts \in Nat /\ MaxFaults \in Nat
  /\ Inactivity \in Nat /\ Offline \in Nat /\ Oldest \in Nat
  /\ 0 \in Dicts /\ Dicts \subseteq Nat
  /\ \A s \in Servers :
       /\ Len(Services[s]) \in Nat /\ Len(Services[s]) > 0
       /\ Named(s) = First(s, Len(Services[s])) /\ Named(s) \subseteq Names
       /\ \A i \in 1..Len(Services[s]) : Services[s][i] \in Named(s)
<1>1. \A s \in Servers : Services[s] \in Seq(STRING) /\ Services[s] # <<>>
  BY NameAssumption
<1>2. \A s \in Servers : Len(Services[s]) \in Nat /\ Len(Services[s]) > 0
  BY <1>1
<1>3. \A s \in Servers : Named(s) \subseteq Names
  BY DEF Names
<1> QED BY <1>2, <1>3, NameAssumption DEF Oldest, Dicts, Named, First

(* A server that has just one more service registered.                     *)
LEMMA FirstGrows ==
  ASSUME NEW s, NEW n \in Nat
  PROVE  First(s, n + 1) = First(s, n) \cup {Services[s][n + 1]}
<1>1. \A i : i \in 1..(n + 1) <=> i \in 1..n \/ i = n + 1
  OBVIOUS
<1> QED BY <1>1 DEF First

(* Nothing is registered at first.                                         *)
LEMMA InitTyped == Init => IInv
<1> SUFFICES ASSUME Init PROVE IInv
  OBVIOUS
<1> USE Constants DEF Init, NoClient
<1>1. TypeOK
  BY DEF TypeOK
<1>2. Progress
  BY DEF Progress, First
<1>3. Truthful /\ Sent
  BY DEF Truthful, Sent, Known
<1> QED BY <1>1, <1>2, <1>3 DEF IInv

(* A dictionary is submitted behind the others.                            *)
LEMMA SubmittedTyped ==
  ASSUME NEW D, NEW q \in Seq(D), NEW d \in D, NEW r, r = q \/ r = Append(q, d)
  PROVE  r \in Seq(D)
OBVIOUS

(* The endpoints change one entry of the dictionary that is committed, and *)
(* submit that dictionary.                                                 *)
LEMMA StoreKeeps ==
  ASSUME IInv, NEW s \in Servers, NEW e \in Entries \cup {None}, Store(s, e),
         e # None => e.services \subseteq Named(s),
         elections' = elections
  PROVE  /\ reg' \in [Dicts -> [Servers -> Entries \cup {None}]]
         /\ upcoming' \in Seq(1..elections \cup {0})
         /\ Truthful'
<1>0. /\ reg \in [Dicts -> [Servers -> Entries \cup {None}]]
      /\ cur \in 0..elections /\ elections \in Dicts
      /\ upcoming \in Seq(1..elections \cup {0}) /\ Truthful
      /\ cur \in Dicts /\ cur \in 1..elections \cup {0}
  BY Constants DEF IInv, TypeOK, Dicts
<1>1. reg' = [reg EXCEPT ![cur][s] = e]
  BY DEF Store
<1>2. reg' \in [Dicts -> [Servers -> Entries \cup {None}]]
  BY <1>0, <1>1
<1>3. upcoming' \in Seq(1..elections \cup {0})
  <2>1. upcoming' = upcoming \/ upcoming' = Append(upcoming, cur)
    BY DEF Store, Submit
  <2> QED BY <1>0, <2>1, SubmittedTyped
<1>4. ASSUME NEW d \in Dicts, NEW t \in Servers, Known(d, t)'
      PROVE  reg'[d][t].services \subseteq Named(t)
  <2>1. reg'[d][t] = IF d = cur /\ t = s THEN e ELSE reg[d][t]
    BY <1>0, <1>1
  <2> QED BY <1>0, <1>4, <2>1 DEF Truthful, Known
<1> QED BY <1>2, <1>3, <1>4 DEF Truthful

(* A pass of monitor_clients over an entry marks it or removes it.         *)
LEMMA MonitoredEntry ==
  ASSUME NEW e \in Entries \cup {None}
  PROVE  /\ Monitored(e) \in Entries \cup {None}
         /\ Monitored(e) # None => e # None /\ Monitored(e).services = e.services
<1>1. CASE e = None
  BY <1>1 DEF Monitored
<1>2. CASE e # None /\ e.status = "ONLINE"
  BY <1>2, NameAssumption DEF Monitored, Entries
<1>3. CASE e # None /\ e.status = "OFFLINE"
  BY <1>3, NameAssumption DEF Monitored, Entries
<1> QED BY <1>1, <1>2, <1>3 DEF Entries

(* The name service's own steps.                                           *)
LEMMA RegistryStep ==
  ASSUME IInv, Monitor \/ Commit \/ Elected
  PROVE  IInv'
<1>0. /\ reg \in [Dicts -> [Servers -> Entries \cup {None}]]
      /\ cur \in 0..elections /\ elections \in Dicts /\ elections \in Nat
      /\ upcoming \in Seq(1..elections \cup {0}) /\ Truthful
      /\ cur \in Dicts /\ cur \in 1..elections \cup {0}
  BY Constants DEF IInv, TypeOK, Dicts
<1>1. Progress' /\ Sent'
  BY DEF Monitor, Commit, Elected, serverVars, IInv, Progress, Sent
<1>2. CASE Monitor
  <2>1. reg' = [reg EXCEPT ![cur] = [s \in Servers |-> Monitored(reg[cur][s])]]
    BY <1>2 DEF Monitor
  <2>2. ASSUME NEW d \in Dicts, NEW s \in Servers
        PROVE  reg'[d][s] = IF d = cur THEN Monitored(reg[d][s]) ELSE reg[d][s]
    BY <1>0, <2>1
  <2>3. reg' \in [Dicts -> [Servers -> Entries \cup {None}]]
    <3>1. \A s \in Servers : Monitored(reg[cur][s]) \in Entries \cup {None}
      BY <1>0, MonitoredEntry
    <3> QED BY <1>0, <2>1, <3>1
  <2>4. upcoming' \in Seq(1..elections \cup {0})
    <3>1. upcoming' = upcoming \/ upcoming' = Append(upcoming, cur)
      BY <1>2 DEF Monitor, Submit
    <3> QED BY <1>0, <3>1, SubmittedTyped
  <2>5. TypeOK'
    BY <1>2, <2>3, <2>4 DEF Monitor, IInv, TypeOK, serverVars
  <2>6. ASSUME NEW d \in Dicts, NEW s \in Servers, Known(d, s)'
        PROVE  reg'[d][s].services \subseteq Named(s)
    <3>1. reg[d][s] \in Entries \cup {None}
      BY <1>0
    <3>2. reg[d][s] # None /\ reg'[d][s].services = reg[d][s].services
      BY <2>2, <2>6, <3>1, MonitoredEntry DEF Known
    <3> QED BY <1>0, <3>2 DEF Truthful, Known
  <2> QED BY <1>1, <2>5, <2>6 DEF IInv, Truthful
<1>3. CASE Commit
  <2>1. /\ cur' \in 1..elections \cup {0}
        /\ upcoming' \in Seq(1..elections \cup {0})
    BY <1>0, <1>3 DEF Commit
  <2>2. cur' \in 0..elections
    BY <1>0, <2>1
  <2>3. TypeOK' /\ Truthful'
    BY <1>3, <2>1, <2>2 DEF Commit, IInv, TypeOK, serverVars, Truthful, Known
  <2> QED BY <1>1, <2>3 DEF IInv
<1>4. CASE Elected
  <2> DEFINE S == 1..elections' \cup {0}
  <2>1. /\ elections' = elections + 1 /\ elections' \in Dicts
        /\ UNCHANGED <<reg, cur, serverVars, client, faults>>
    BY <1>0, <1>4, Constants DEF Elected, Dicts
  <2>2. PICK k \in 0..Len(upcoming) :
          upcoming' = SubSeq(upcoming, 1, k) \o <<elections + 1>>
                        \o SubSeq(upcoming, k + 1, Len(upcoming))
    BY <1>4 DEF Elected
  <2>3. elections + 1 \in S /\ 1..elections \cup {0} \subseteq S
    BY <1>0, <2>1
  <2> HIDE DEF S
  <2>4. upcoming \in Seq(S)
    BY <1>0, <2>3
  <2>5. SubSeq(upcoming, 1, k) \in Seq(S)
    BY <2>4
  <2>6. SubSeq(upcoming, k + 1, Len(upcoming)) \in Seq(S)
    BY <2>4
  <2>7. <<elections + 1>> \in Seq(S)
    BY <2>3
  <2>8. SubSeq(upcoming, 1, k) \o <<elections + 1>> \in Seq(S)
    BY <2>5, <2>7, ConcatProperties
  <2>9. upcoming' \in Seq(S)
    BY <2>2, <2>6, <2>8, ConcatProperties
  <2>10. cur' \in 0..elections'
    BY <1>0, <2>1
  <2>11. TypeOK' /\ Truthful'
    BY <2>1, <2>9, <2>10 DEF S, IInv, TypeOK, serverVars, Truthful, Known
  <2> QED BY <1>1, <2>11 DEF IInv
<1> QED BY <1>2, <1>3, <1>4

(* One period of time.                                                     *)
LEMMA TickStep ==
  ASSUME IInv, Tick
  PROVE  IInv'
<1>0. /\ reg \in [Dicts -> [Servers -> Entries \cup {None}]] /\ Truthful
      /\ heart \in [Servers -> {"off", "beat", "sleep"}] /\ faults \in 0..MaxFaults
  BY DEF IInv, TypeOK
<1>1. ASSUME NEW d \in Dicts, NEW s \in Servers
      PROVE  /\ reg'[d][s] \in Entries \cup {None}
             /\ reg'[d][s] # None =>
                  reg[d][s] # None /\ reg'[d][s].services = reg[d][s].services
  <2>1. reg[d][s] \in Entries \cup {None}
    BY <1>0
  <2>2. reg'[d][s] = IF Known(d, s) /\ reg[d][s].age < Oldest
                     THEN [reg[d][s] EXCEPT !.age = @ + 1] ELSE reg[d][s]
    BY DEF Tick
  <2>3. CASE Known(d, s) /\ reg[d][s].age < Oldest
    <3>1. reg[d][s] \in Entries /\ reg[d][s].age + 1 \in 0..Oldest
      BY <2>1, <2>3, Constants DEF Known, Entries
    <3>2. reg'[d][s] = [reg[d][s] EXCEPT !.age = reg[d][s].age + 1]
      BY <2>2, <2>3
    <3> QED BY <2>3, <3>1, <3>2 DEF Entries, Known
  <2> QED BY <2>1, <2>2, <2>3 DEF Known
<1>2. reg' \in [Dicts -> [Servers -> Entries \cup {None}]]
  <2>1. reg' = [d \in Dicts |-> [s \in Servers |-> reg'[d][s]]]
    BY DEF Tick
  <2> QED BY <1>1, <2>1
<1>3. Truthful'
  BY <1>0, <1>1 DEF Truthful, Known
<1>4. /\ heart' \in [Servers -> {"off", "beat", "sleep"}]
      /\ \A s \in Servers : heart'[s] # "off" <=> heart[s] # "off"
  BY <1>0 DEF Tick
<1>5. faults' \in 0..MaxFaults
  BY <1>0, Constants DEF Tick, Fault
<1>6. UNCHANGED <<cur, upcoming, elections, main, done, starts, proxies, client>>
  BY DEF Tick
<1>7. TypeOK'
  BY <1>2, <1>4, <1>5, <1>6 DEF IInv, TypeOK
<1>8. Progress' /\ Sent'
  BY <1>4, <1>6 DEF IInv, Progress, Sent
<1> QED BY <1>3, <1>7, <1>8 DEF IInv

(* A client.                                                               *)
LEMMA ClientStep ==
  ASSUME IInv,
         (\E v \in Names : Discover(v) \/ DiscoverNone(v)) \/ Connect \/ Leave
  PROVE  IInv'
<1>0. /\ UNCHANGED <<regVars, serverVars>> /\ faults' \in 0..MaxFaults
      /\ cur \in Dicts /\ Truthful
      /\ client \in [phase : {"idle", "found", "connected", "gone"},
                     callee : Names \cup {None}, addr : Servers \cup {None}]
  BY Constants DEF Discover, DiscoverNone, Connect, Leave, Fault, IInv, TypeOK, Dicts
<1>1. ASSUME /\ client' \in [phase : {"idle", "found", "connected", "gone"},
                             callee : Names \cup {None}, addr : Servers \cup {None}]
             /\ Sent'
      PROVE  IInv'
  <2>1. TypeOK' /\ Progress' /\ Truthful'
    BY <1>0, <1>1 DEF IInv, TypeOK, Progress, Truthful, Known, regVars, serverVars
  <2> QED BY <1>1, <2>1 DEF IInv
<1>2. ASSUME NEW v \in Names, Discover(v) PROVE IInv'
  <2>1. PICK s \in Offering(v) : client' = [phase |-> "found", callee |-> v, addr |-> s]
    BY <1>2 DEF Discover
  <2>2. s \in Servers /\ v \in Named(s)
    BY <1>0, <2>1 DEF Offering, Truthful
  <2> QED BY <1>1, <2>1, <2>2 DEF Sent
<1>3. CASE client' = NoClient("gone") \/ client' = NoClient("idle")
  BY <1>1, <1>3 DEF NoClient, Sent
<1>4. CASE Connect /\ main[client.addr] = "run"
  <2>1. client' = [client EXCEPT !.phase = "connected"] /\ client.phase = "found"
    BY <1>4 DEF Connect
  <2>2. /\ client'.phase = "connected" /\ client'.addr = client.addr
        /\ client'.callee = client.callee
    BY <1>0, <2>1
  <2>3. Sent'
    BY <1>0, <1>4, <2>1, <2>2 DEF IInv, Sent, serverVars
  <2> QED BY <1>0, <1>1, <2>1, <2>3
<1> QED BY <1>2, <1>3, <1>4 DEF DiscoverNone, Connect, Leave

(* What a heartbeat or a registration puts into the dictionary.            *)
LEMMA BeatKeeps ==
  ASSUME IInv, NEW s \in Servers, Known(cur, s), Beat(s), elections' = elections
  PROVE  /\ reg' \in [Dicts -> [Servers -> Entries \cup {None}]]
         /\ upcoming' \in Seq(1..elections \cup {0})
         /\ Truthful'
<1> DEFINE e == [reg[cur][s] EXCEPT !.age = 0, !.status = "ONLINE"]
<1>0. reg[cur][s] \in Entries /\ Truthful /\ cur \in Dicts
  BY Constants DEF IInv, TypeOK, Dicts, Known
<1>1. e \in Entries /\ e.services = reg[cur][s].services
  <2>1. PICK r \in Entries : r = reg[cur][s]
    BY <1>0
  <2>2. [r EXCEPT !.age = 0] = [services |-> r.services, age |-> 0, status |-> r.status]
    BY DEF Entries
  <2>3. e = [services |-> r.services, age |-> 0, status |-> "ONLINE"]
    <3>1. e = [[r EXCEPT !.age = 0] EXCEPT !.status = "ONLINE"]
      BY <2>1
    <3>2. [[services |-> r.services, age |-> 0, status |-> r.status]
             EXCEPT !.status = "ONLINE"]
            = [services |-> r.services, age |-> 0, status |-> "ONLINE"]
      OBVIOUS
    <3> QED BY <2>2, <3>1, <3>2
  <2>4. r.services \in SUBSET Names /\ 0 \in 0..Oldest
    BY Constants DEF Entries
  <2> QED BY <2>1, <2>3, <2>4 DEF Entries
<1>2. e.services \subseteq Named(s)
  BY <1>0, <1>1 DEF Truthful
<1> HIDE DEF e
<1>3. Store(s, e)
  BY DEF Beat, e
<1> QED BY <1>1, <1>2, <1>3, StoreKeeps

LEMMA RegisteredKeeps ==
  ASSUME IInv, NEW s \in Servers, NEW v \in Named(s), Registered(s, v),
         elections' = elections
  PROVE  /\ reg' \in [Dicts -> [Servers -> Entries \cup {None}]]
         /\ upcoming' \in Seq(1..elections \cup {0})
         /\ Truthful'
<1>0. reg[cur][s] \in Entries \cup {None} /\ Truthful /\ cur \in Dicts
  BY Constants DEF IInv, TypeOK, Dicts
<1>1. CASE UNCHANGED <<reg, upcoming>>
  BY <1>1 DEF IInv, TypeOK, Truthful, Known
<1>2. CASE ~(Known(cur, s) /\ v \in reg[cur][s].services)
  <2> DEFINE old == IF Known(cur, s) THEN reg[cur][s].services ELSE {}
  <2> DEFINE e == [services |-> {v} \cup old, age |-> 0, status |-> "ONLINE"]
  <2>1. old \subseteq Named(s)
    BY <1>0 DEF Truthful
  <2>2. e \in Entries /\ e.services \subseteq Named(s)
    <3> HIDE DEF old
    <3>1. {v} \cup old \in SUBSET Names /\ 0 \in 0..Oldest
      BY <2>1, Constants
    <3> QED BY <2>1, <3>1 DEF Entries
  <2>3. Store(s, e)
    BY <1>2 DEF Registered
  <2> HIDE DEF e
  <2> QED BY <2>2, <2>3, StoreKeeps
<1> QED BY <1>1, <1>2 DEF Registered

(* RegisterService on the way to Main.                                     *)
LEMMA RegisterStep ==
  ASSUME IInv, NEW s \in Servers, RegisterService(s)
  PROVE  IInv'
<1>0. /\ done \in [Servers -> Nat] /\ main \in [Servers -> {"down", "register", "main", "listen", "run"}]
      /\ proxies \in [Servers -> SUBSET Names] /\ faults \in 0..MaxFaults
      /\ Progress
  BY DEF IInv, TypeOK
<1> DEFINE n == done[s]
<1> DEFINE v == Services[s][n + 1]
<1>1. main[s] = "register" /\ n \in Nat /\ n < Len(Services[s]) /\ v \in Named(s)
  <2>1. main[s] = "register" /\ n \in Nat /\ n < Len(Services[s])
    BY <1>0 DEF RegisterService, Progress
  <2>2. n + 1 \in 1..Len(Services[s])
    BY <2>1, Constants
  <2> QED BY <2>1, <2>2, Constants
<1>2. /\ proxies' = [proxies EXCEPT ![s] = @ \cup {v}]
      /\ RegisterMyself(s, v)
      /\ done' = [done EXCEPT ![s] = n + 1]
      /\ main' = [main EXCEPT ![s] = IF done'[s] = Len(Services[s]) THEN "main" ELSE @]
      /\ UNCHANGED <<cur, elections, heart, starts, client>>
  BY DEF RegisterService
<1> HIDE DEF v
<1>3. /\ reg' \in [Dicts -> [Servers -> Entries \cup {None}]]
      /\ upcoming' \in Seq(1..elections \cup {0})
      /\ Truthful' /\ faults' \in 0..MaxFaults
  <2>1. CASE Registered(s, v) /\ UNCHANGED faults
    BY <1>0, <1>1, <1>2, <2>1, RegisteredKeeps
  <2>2. CASE Fault /\ UNCHANGED <<reg, upcoming>>
    BY <1>0, <2>2, Constants DEF Fault, IInv, TypeOK, Truthful, Known
  <2> QED BY <1>2, <2>1, <2>2 DEF RegisterMyself
<1>4. /\ done'[s] = n + 1 /\ done' \in [Servers -> Nat]
      /\ main'[s] = IF n + 1 = Len(Services[s]) THEN "main" ELSE "register"
      /\ main' \in [Servers -> {"down", "register", "main", "listen", "run"}]
      /\ \A t \in Servers : t # s =>
           done'[t] = done[t] /\ main'[t] = main[t] /\ proxies'[t] = proxies[t]
      /\ proxies'[s] = proxies[s] \cup {v} /\ v \in Names
      /\ proxies' \in [Servers -> SUBSET Names]
  <2>1. v \in Names
    BY <1>1, Constants
  <2> QED BY <1>0, <1>1, <1>2, <2>1
<1>5. \A t \in Servers : done'[t] <= Len(Services[t])
  <2>1. \A t \in Servers : done[t] <= Len(Services[t])
    BY DEF IInv, TypeOK
  <2>2. n + 1 <= Len(Services[s])
    BY <1>1, Constants
  <2> QED BY <1>4, <2>1, <2>2
<1>6. TypeOK'
  BY <1>2, <1>3, <1>4, <1>5 DEF IInv, TypeOK
<1>7. Progress'
  <2>1. First(s, n + 1) \subseteq proxies'[s]
    BY <1>0, <1>1, <1>4, FirstGrows DEF Progress, v
  <2>2. ASSUME NEW t \in Servers
        PROVE  /\ main'[t] = "down" => done'[t] = 0
               /\ main'[t] = "register" => done'[t] < Len(Services[t])
               /\ main'[t] \in {"main", "listen", "run"} => done'[t] = Len(Services[t])
               /\ heart'[t] # "off" <=> main'[t] \in {"listen", "run"}
               /\ First(t, done'[t]) \subseteq proxies'[t]
    <3>1. CASE t = s
      BY <1>0, <1>1, <1>2, <1>4, <2>1, <3>1, Constants DEF Progress
    <3>2. CASE t # s
      BY <1>0, <1>2, <1>4, <3>2 DEF Progress
    <3> QED BY <3>1, <3>2
  <2> QED BY <2>2 DEF Progress, First
<1>8. Sent'
  BY <1>1, <1>2, <1>4 DEF IInv, Sent
<1> QED BY <1>3, <1>6, <1>7, <1>8 DEF IInv

(* The other steps of a server's main thread.                              *)
LEMMA MainStep ==
  ASSUME IInv, NEW s \in Servers, Start(s) \/ StartHeart(s) \/ Listen(s)
  PROVE  IInv'
<1>0. /\ done \in [Servers -> Nat] /\ main \in [Servers -> {"down", "register", "main", "listen", "run"}]
      /\ heart \in [Servers -> {"off", "beat", "sleep"}] /\ starts \in 0..MaxStarts
      /\ Progress
  BY DEF IInv, TypeOK
<1>1. /\ UNCHANGED <<regVars, done, proxies, client, faults>>
      /\ starts' \in 0..MaxStarts
  BY <1>0, Constants DEF Start, StartHeart, Listen
<1>2. /\ main' \in [Servers -> {"down", "register", "main", "listen", "run"}]
      /\ heart' \in [Servers -> {"off", "beat", "sleep"}]
      /\ \A t \in Servers : t # s => main'[t] = main[t] /\ heart'[t] = heart[t]
      /\ main[s] # "run"
      /\ \/ main[s] = "down" /\ main'[s] = "register" /\ heart' = heart
         \/ main[s] = "main" /\ main'[s] = "listen" /\ heart'[s] = "beat"
         \/ main[s] = "listen" /\ main'[s] = "run" /\ heart' = heart
  BY <1>0 DEF Start, StartHeart, Listen
<1>3. TypeOK' /\ Truthful'
  BY <1>1, <1>2 DEF IInv, TypeOK, Truthful, Known, regVars
<1>4. Progress'
  BY <1>0, <1>1, <1>2, Constants DEF Progress, First
<1>5. Sent'
  BY <1>1, <1>2 DEF IInv, Sent
<1> QED BY <1>3, <1>4, <1>5 DEF IInv

(* Heartbeats, and the end of a server.                                    *)
LEMMA HeartStep ==
  ASSUME IInv, NEW s \in Servers, Heartbeat(s) \/ HeartbeatFails(s) \/ Crash(s)
  PROVE  IInv'
<1>0. /\ done \in [Servers -> Nat] /\ main \in [Servers -> {"down", "register", "main", "listen", "run"}]
      /\ heart \in [Servers -> {"off", "beat", "sleep"}] /\ starts \in 0..MaxStarts
      /\ proxies \in [Servers -> SUBSET Names] /\ faults \in 0..MaxFaults
      /\ Progress /\ Sent
      /\ client \in [phase : {"idle", "found", "connected", "gone"},
                     callee : Names \cup {None}, addr : Servers \cup {None}]
  BY DEF IInv, TypeOK
<1>1. /\ UNCHANGED <<cur, elections, starts>> /\ faults' \in 0..MaxFaults
  BY <1>0, Constants DEF Heartbeat, HeartbeatFails, Crash, Fault, Exit, regVars
<1>2. /\ reg' \in [Dicts -> [Servers -> Entries \cup {None}]]
      /\ upcoming' \in Seq(1..elections \cup {0})
      /\ Truthful'
  <2>1. CASE UNCHANGED <<reg, upcoming>>
    BY <2>1 DEF IInv, TypeOK, Truthful, Known
  <2>2. CASE Known(cur, s) /\ Beat(s)
    BY <1>1, <2>2, BeatKeeps
  <2> QED BY <2>1, <2>2 DEF Heartbeat, HeartbeatFails, Crash, regVars
<1>3. CASE Heartbeat(s)
  <2>1. heart[s] = "beat" /\ heart' = [heart EXCEPT ![s] = "sleep"]
        /\ UNCHANGED <<main, done, proxies, client>>
    BY <1>3 DEF Heartbeat
  <2>2. /\ heart' \in [Servers -> {"off", "beat", "sleep"}]
        /\ \A t \in Servers : heart'[t] # "off" <=> heart[t] # "off"
    BY <1>0, <2>1
  <2>3. TypeOK'
    BY <1>1, <1>2, <2>1, <2>2 DEF IInv, TypeOK
  <2>4. Progress' /\ Sent'
    BY <1>0, <2>1, <2>2 DEF Progress, Sent, First
  <2> QED BY <1>2, <2>3, <2>4 DEF IInv
<1>4. CASE Exit(s)
  <2>1. /\ main' \in [Servers -> {"down", "register", "main", "listen", "run"}]
        /\ done' \in [Servers -> Nat]
        /\ heart' \in [Servers -> {"off", "beat", "sleep"}]
        /\ proxies' \in [Servers -> SUBSET Names]
        /\ main'[s] = "down" /\ done'[s] = 0 /\ heart'[s] = "off"
        /\ \A t \in Servers : t # s =>
             /\ main'[t] = main[t] /\ done'[t] = done[t] /\ heart'[t] = heart[t]
             /\ proxies'[t] = proxies[t]
    BY <1>0, <1>4 DEF Exit
  <2>2. client' = IF client.phase = "connected" /\ client.addr = s
                  THEN NoClient("gone") ELSE client
    BY <1>4 DEF Exit
  <2>3. client' \in [phase : {"idle", "found", "connected", "gone"},
                     callee : Names \cup {None}, addr : Servers \cup {None}]
    BY <1>0, <2>2 DEF NoClient
  <2>4. \A t \in Servers : done'[t] <= Len(Services[t])
    <3>1. \A t \in Servers : done[t] <= Len(Services[t]) /\ 0 <= Len(Services[t])
      BY Constants DEF IInv, TypeOK
    <3> QED BY <2>1, <3>1
  <2>5. TypeOK'
    BY <1>1, <1>2, <2>1, <2>3, <2>4 DEF IInv, TypeOK
  <2>6. Progress'
    <3>1. First(s, 0) = {}
      BY DEF First
    <3>2. ASSUME NEW t \in Servers
          PROVE  /\ main'[t] = "down" => done'[t] = 0
                 /\ main'[t] = "register" => done'[t] < Len(Services[t])
                 /\ main'[t] \in {"main", "listen", "run"} => done'[t] = Len(Services[t])
                 /\ heart'[t] # "off" <=> main'[t] \in {"listen", "run"}
                 /\ First(t, done'[t]) \subseteq proxies'[t]
      <4>1. CASE t = s
        BY <2>1, <3>1, <4>1
      <4>2. CASE t # s
        BY <1>0, <2>1, <4>2 DEF Progress
      <4> QED BY <4>1, <4>2
    <3> QED BY <3>2 DEF Progress, First
  <2>7. Sent'
    <3>1. CASE client.phase = "connected" /\ client.addr = s
      BY <2>2, <3>1 DEF Sent, NoClient
    <3>2. CASE ~(client.phase = "connected" /\ client.addr = s)
      BY <1>0, <2>1, <2>2, <3>2 DEF Sent
    <3> QED BY <3>1, <3>2
  <2> QED BY <1>2, <2>5, <2>6, <2>7 DEF IInv
<1> QED BY <1>3, <1>4 DEF HeartbeatFails, Crash

(* The invariant holds for ever.                                           *)
LEMMA NameInvariant == Spec => []IInv
<1>1. Init => IInv
  BY InitTyped
<1>2. IInv /\ [Next]_vars => IInv'
  <2> SUFFICES ASSUME IInv, [Next]_vars PROVE IInv'
    OBVIOUS
  <2>1. CASE UNCHANGED vars
    BY <2>1 DEF vars, regVars, serverVars, IInv, TypeOK, Progress, Truthful,
                Known, Sent, First
  <2>2. ASSUME NEW s \in Servers, Start(s) \/ ServerStep(s) \/ Crash(s) PROVE IInv'
    BY <2>2, RegisterStep, MainStep, HeartStep DEF ServerStep
  <2>3. CASE Monitor \/ Commit \/ Elected
    BY <2>3, RegistryStep
  <2>4. CASE Tick
    BY <2>4, TickStep
  <2>5. CASE (\E v \in Names : Discover(v) \/ DiscoverNone(v)) \/ Connect \/ Leave
    BY <2>5, ClientStep
  <2> QED BY <2>1, <2>2, <2>3, <2>4, <2>5 DEF Next
<1> QED BY <1>1, <1>2, PTL DEF Spec

-----------------------------------------------------------------------------

(* The registry, the servers and the client keep their types: done never   *)
(* runs past the services of a server, and what is committed exists.       *)
THEOREM NameServiceTyped == Spec => []TypeOK
<1>1. IInv => TypeOK
  BY DEF IInv
<1> QED BY <1>1, NameInvariant, PTL

(* A client is connected to a server that knows its callee, however stale  *)
(* the dictionary it was sent by: entries only ever name what their server *)
(* registers, and a server listens only after it has registered it all.    *)
THEOREM ClientsReachTheirCallee == Spec => []ConnectedToCallee
<1>1. IInv => ConnectedToCallee
  <2> SUFFICES ASSUME IInv, client.phase = "connected"
               PROVE  client.callee \in proxies[client.addr]
    BY DEF ConnectedToCallee
  <2>1. PICK s \in Servers : s = client.addr
    BY DEF IInv, Sent
  <2>2. client.callee \in Named(s) /\ main[s] = "run"
    BY <2>1 DEF IInv, Sent
  <2>3. First(s, Len(Services[s])) \subseteq proxies[s]
    BY <2>2 DEF IInv, Progress
  <2> QED BY <2>1, <2>2, <2>3, Constants
<1> QED BY <1>1, NameInvariant, PTL

-----------------------------------------------------------------------------
(* While nothing fails.                                                    *)

Up == {s \in Servers : main[s] # "down"}

(* What the one dictionary there is has under s: all that s has registered *)
(* so far, and from no longer ago than the heartbeat that is due.          *)
Fresh(s) ==
  IF done[s] = 0 THEN ~Known(0, s)
  ELSE /\ Known(0, s)
       /\ reg[0][s].services = First(s, done[s])
       /\ reg[0][s].status = "ONLINE"
       /\ reg[0][s].age <= IF heart[s] = "beat" THEN 1 ELSE 0

Calm ==
  faults = 0 /\ elections = 0 =>
    /\ cur = 0 /\ upcoming = <<>>
    /\ IsFiniteSet(Up) /\ Cardinality(Up) = starts
    /\ \A s \in Servers : Fresh(s)

(* A server is not forgotten between two heartbeats: they come every 5     *)
(* seconds, and MAX_INACTIVITY_TIME is 30.                                 *)
Prompt == Inactivity >= 1

LEMMA InitCalm == Init => Calm
<1> SUFFICES ASSUME Init PROVE Calm
  OBVIOUS
<1>1. Up = {}
  BY DEF Init, Up
<1>2. IsFiniteSet(Up) /\ Cardinality(Up) = 0
  BY <1>1, FS_EmptySet
<1>3. \A s \in Servers : Fresh(s)
  BY Constants DEF Init, Fresh, Known
<1> QED BY <1>2, <1>3 DEF Init, Calm

(* An entry depends on its own server only.                                *)
LEMMA FreshFrame ==
  ASSUME NEW s, done'[s] = done[s], reg'[0][s] = reg[0][s], heart'[s] = heart[s],
         Fresh(s)
  PROVE  Fresh(s)'
BY DEF Fresh, Known, First

(* A registration adds one service to the entry.                           *)
LEMMA CalmRegister ==
  ASSUME IInv, cur = 0, \A t \in Servers : Fresh(t), NEW s \in Servers,
         RegisterService(s), Registered(s, Services[s][done[s] + 1])
  PROVE  \A t \in Servers : Fresh(t)'
<1> DEFINE n == done[s]
<1> DEFINE v == Services[s][n + 1]
<1>0. /\ reg \in [Dicts -> [Servers -> Entries \cup {None}]] /\ 0 \in Dicts
      /\ done \in [Servers -> Nat] /\ n \in Nat /\ None \notin Entries
      /\ main[s] = "register" /\ heart[s] # "beat"
      /\ UNCHANGED heart /\ done' = [done EXCEPT ![s] = n + 1]
  BY Constants, NameAssumption DEF IInv, TypeOK, Progress, RegisterService
<1>1. First(s, n + 1) = First(s, n) \cup {v} /\ First(s, 0) = {}
  <2>1. First(s, n + 1) = First(s, n) \cup {v}
    BY <1>0, FirstGrows
  <2>2. First(s, 0) = {}
    BY DEF First
  <2> QED BY <2>1, <2>2
<1>2. Fresh(s)
  OBVIOUS
<1>3. done'[s] = n + 1 /\ n + 1 # 0 /\ heart'[s] # "beat"
  BY <1>0
<1>4. CASE Known(0, s) /\ v \in reg[0][s].services
  <2>1. reg' = reg
    BY <1>4 DEF Registered
  <2>2. n # 0 /\ reg[0][s].services = First(s, n)
    BY <1>2, <1>4 DEF Fresh
  <2>3. First(s, n + 1) = First(s, n)
    BY <1>1, <1>4, <2>2
  <2>4. Fresh(s)'
    BY <1>0, <1>2, <1>3, <2>1, <2>2, <2>3 DEF Fresh, Known, First
  <2>5. ASSUME NEW t \in Servers, t # s PROVE Fresh(t)'
    BY <1>0, <2>1, <2>5, FreshFrame
  <2> QED BY <2>4, <2>5
<1>5. CASE ~(Known(0, s) /\ v \in reg[0][s].services)
  <2> DEFINE old == IF Known(0, s) THEN reg[0][s].services ELSE {}
  <2> DEFINE e == [services |-> {v} \cup old, age |-> 0, status |-> "ONLINE"]
  <2>1. old = First(s, n)
    BY <1>1, <1>2 DEF Fresh
  <2>2. reg' = [reg EXCEPT ![0][s] = e]
    BY <1>5 DEF Registered, Store
  <2> HIDE DEF old
  <2>3. reg'[0][s] = e /\ \A t \in Servers : t # s => reg'[0][t] = reg[0][t]
    BY <1>0, <2>2
  <2>4. /\ e.services = First(s, n + 1) /\ e.age = 0 /\ e.status = "ONLINE"
    BY <1>1, <2>1
  <2>5. e # None
    <3>1. v \in Names /\ First(s, n) \subseteq Names
      <4>1. n < Len(Services[s])
        BY <1>0 DEF IInv, Progress
      <4>2. \A i \in 1..(n + 1) : Services[s][i] \in Names
        BY <1>0, <4>1, Constants
      <4> QED BY <1>0, <4>2 DEF First
    <3>2. e \in Entries
      BY <2>1, <3>1, Constants DEF Entries
    <3> QED BY <1>0, <3>2
  <2> HIDE DEF e
  <2>6. Fresh(s)'
    BY <1>3, <2>3, <2>4, <2>5 DEF Fresh, Known, First
  <2>7. ASSUME NEW t \in Servers, t # s PROVE Fresh(t)'
    BY <1>0, <2>3, <2>7, FreshFrame
  <2> QED BY <2>6, <2>7
<1> QED BY <1>4, <1>5

(* A heartbeat makes its entry new again.                                  *)
LEMMA CalmBeat ==
  ASSUME IInv, cur = 0, \A t \in Servers : Fresh(t), NEW s \in Servers, Heartbeat(s)
  PROVE  \A t \in Servers : Fresh(t)'
<1>0. /\ reg \in [Dicts -> [Servers -> Entries \cup {None}]] /\ 0 \in Dicts
      /\ heart \in [Servers -> {"off", "beat", "sleep"}] /\ None \notin Entries
      /\ UNCHANGED done /\ heart' = [heart EXCEPT ![s] = "sleep"]
      /\ Known(0, s) /\ Fresh(s)
      /\ reg' = [reg EXCEPT ![0][s] = [reg[0][s] EXCEPT !.age = 0, !.status = "ONLINE"]]
  BY Constants, NameAssumption DEF IInv, TypeOK, Heartbeat, Beat, Store
<1>1. PICK r \in Entries : r = reg[0][s]
  BY <1>0 DEF Known
<1> DEFINE e == [[r EXCEPT !.age = 0] EXCEPT !.status = "ONLINE"]
<1>2. reg'[0][s] = e /\ \A t \in Servers : t # s => reg'[0][t] = reg[0][t]
  BY <1>0, <1>1
<1>3. e.services = r.services /\ e.age = 0 /\ e.status = "ONLINE" /\ e \in Entries
  <2>1. [r EXCEPT !.age = 0] \in Entries /\ [r EXCEPT !.age = 0].services = r.services
        /\ [r EXCEPT !.age = 0].age = 0
    BY Constants DEF Entries
  <2>2. PICK q \in Entries : q = [r EXCEPT !.age = 0]
    BY <2>1
  <2>3. e = [q EXCEPT !.status = "ONLINE"] /\ q.services = r.services /\ q.age = 0
    BY <2>1, <2>2
  <2> HIDE DEF e
  <2> QED BY <2>3 DEF Entries
<1> HIDE DEF e
<1>4. Fresh(s)'
  BY <1>0, <1>1, <1>2, <1>3 DEF Fresh, Known, First
<1>5. ASSUME NEW t \in Servers, t # s PROVE Fresh(t)'
  BY <1>0, <1>2, <1>5, FreshFrame
<1> QED BY <1>4, <1>5

(* monitor_clients finds nothing to do.                                    *)
LEMMA CalmMonitor ==
  ASSUME Prompt, IInv, cur = 0, \A t \in Servers : Fresh(t), Monitor
  PROVE  \A t \in Servers : Fresh(t)'
<1> SUFFICES ASSUME NEW s \in Servers PROVE Fresh(s)'
  OBVIOUS
<1>0. /\ reg \in [Dicts -> [Servers -> Entries \cup {None}]] /\ 0 \in Dicts
      /\ reg[0][s] \in Entries \cup {None}
      /\ UNCHANGED <<done, heart>> /\ Fresh(s) /\ Inactivity \in Nat
  BY Constants DEF IInv, TypeOK, Monitor, serverVars
<1>1. reg'[0][s] = Monitored(reg[0][s])
  BY <1>0 DEF Monitor
<1>2. Monitored(reg[0][s]) = reg[0][s]
  <2>1. CASE reg[0][s] = None
    BY <2>1 DEF Monitored
  <2>2. CASE reg[0][s] # None
    <3>1. PICK e \in Entries : e = reg[0][s] /\ e # None
      BY <1>0, <2>2
    <3>2. e.status = "ONLINE" /\ e.age \in Nat /\ e.age <= 1
      BY <1>0, <2>2, <3>1, Constants DEF Fresh, Known, Entries
    <3>3. ~(e.age > Inactivity)
      BY <1>0, <3>2 DEF Prompt
    <3> QED BY <3>1, <3>2, <3>3 DEF Monitored
  <2> QED BY <2>1, <2>2
<1> QED BY <1>0, <1>1, <1>2, FreshFrame

(* Time passes only when every heartbeat that was due has come.            *)
LEMMA CalmTick ==
  ASSUME IInv, \A t \in Servers : Fresh(t), Tick,
         \A s \in Servers : heart[s] # "beat" /\ main[s] \notin {"register", "main"}
  PROVE  \A t \in Servers : Fresh(t)'
<1> SUFFICES ASSUME NEW s \in Servers PROVE Fresh(s)'
  OBVIOUS
<1>0. /\ reg \in [Dicts -> [Servers -> Entries \cup {None}]] /\ 0 \in Dicts
      /\ heart \in [Servers -> {"off", "beat", "sleep"}]
      /\ main \in [Servers -> {"down", "register", "main", "listen", "run"}]
      /\ UNCHANGED done /\ Fresh(s) /\ Progress
      /\ heart'[s] = IF heart[s] = "sleep" THEN "beat" ELSE heart[s]
      /\ reg'[0][s] = IF Known(0, s) /\ reg[0][s].age < Oldest
                      THEN [reg[0][s] EXCEPT !.age = @ + 1] ELSE reg[0][s]
  BY Constants DEF IInv, TypeOK, Tick
<1>1. CASE done[s] = 0
  BY <1>0, <1>1 DEF Fresh, Known
<1>2. CASE done[s] # 0
  <2>1. heart[s] = "sleep" /\ heart'[s] = "beat"
    BY <1>0, <1>2 DEF Progress
  <2>2. PICK e \in Entries : e = reg[0][s]
    BY <1>0, <1>2 DEF Fresh, Known
  <2>3. e.age \in Nat /\ e.age <= 0 /\ e.status = "ONLINE" /\ e # None
        /\ e.services = First(s, done[s])
    BY <1>0, <1>2, <2>1, <2>2, Constants DEF Fresh, Known, Entries
  <2>4. CASE e.age < Oldest
    <3>1. reg'[0][s] = [e EXCEPT !.age = e.age + 1] /\ e.age + 1 \in 0..Oldest
      BY <1>0, <2>2, <2>3, <2>4, Constants DEF Known
    <3>2. /\ reg'[0][s] \in Entries /\ reg'[0][s].services = e.services
          /\ reg'[0][s].status = e.status /\ reg'[0][s].age = e.age + 1
      BY <3>1 DEF Entries
    <3>3. reg'[0][s] # None /\ reg'[0][s].age <= 1
      BY <2>3, <3>2, NameAssumption
    <3> QED BY <1>0, <1>2, <2>1, <2>3, <3>2, <3>3 DEF Fresh, Known, First
  <2>5. CASE ~(e.age < Oldest)
    <3>1. reg'[0][s] = e /\ e.age <= 1
      BY <1>0, <2>2, <2>3, <2>5
    <3> QED BY <1>0, <1>2, <2>1, <2>3, <3>1 DEF Fresh, Known, First
  <2> QED BY <2>4, <2>5
<1> QED BY <1>1, <1>2

(* Nothing that fails and no election: all that keeps a registry calm.     *)
LEMMA CalmStep ==
  ASSUME Prompt, IInv, Calm, [Next]_vars
  PROVE  Calm'
<1> SUFFICES ASSUME faults' = 0, elections' = 0
             PROVE  /\ cur' = 0 /\ upcoming' = <<>>
                    /\ IsFiniteSet(Up') /\ Cardinality(Up') = starts'
                    /\ \A s \in Servers : Fresh(s)'
  BY DEF Calm, Up
<1>0. /\ main \in [Servers -> {"down", "register", "main", "listen", "run"}]
      /\ heart \in [Servers -> {"off", "beat", "sleep"}]
      /\ elections \in Nat /\ faults \in Nat /\ starts \in Nat /\ Progress
  BY Constants DEF IInv, TypeOK
<1>1. ~Fault /\ ~Elected
  <2>1. faults' # faults + 1 /\ elections' # elections + 1
    BY <1>0
  <2> QED BY <2>1 DEF Fault, Elected
<1>2. elections = 0 /\ faults = 0
  BY <1>1 DEF Next, vars, regVars, serverVars, ServerStep, Start, RegisterService,
      RegisterMyself, StartHeart, Listen, Heartbeat, HeartbeatFails, Crash, Monitor,
      Commit, Tick, Discover, DiscoverNone, Connect, Leave
<1>3. /\ cur = 0 /\ upcoming = <<>>
      /\ IsFiniteSet(Up) /\ Cardinality(Up) = starts
      /\ \A s \in Servers : Fresh(s)
  BY <1>2 DEF Calm
<1>4. Submit => upcoming' = <<>>
  <2>1. (<<0>> \o <<>>)[Len(<<0>> \o <<>>)] = 0
    OBVIOUS
  <2> QED BY <1>3, <2>1 DEF Submit
<1>5. ASSUME UNCHANGED <<cur, upcoming, main, starts>>
      PROVE  /\ cur' = 0 /\ upcoming' = <<>>
             /\ IsFiniteSet(Up') /\ Cardinality(Up') = starts'
  BY <1>3, <1>5 DEF Up
<1>6. ASSUME UNCHANGED <<reg, done, heart>>
      PROVE  \A s \in Servers : Fresh(s)'
  BY <1>3, <1>6, FreshFrame
<1>7. CASE UNCHANGED <<regVars, serverVars>>
  BY <1>5, <1>6, <1>7 DEF regVars, serverVars
<1>8. ASSUME NEW s \in Servers, Start(s)
      PROVE  /\ cur' = 0 /\ upcoming' = <<>>
             /\ IsFiniteSet(Up') /\ Cardinality(Up') = starts'
             /\ \A t \in Servers : Fresh(t)'
  <2>1. /\ main[s] = "down" /\ starts' = starts + 1
        /\ main' = [main EXCEPT ![s] = "register"]
        /\ UNCHANGED <<cur, upcoming, reg, done, heart>>
    BY <1>8 DEF Start, regVars
  <2>2. s \notin Up /\ Up' = Up \cup {s}
    BY <1>0, <2>1 DEF Up
  <2>3. IsFiniteSet(Up') /\ Cardinality(Up') = starts'
    BY <1>3, <2>1, <2>2, FS_AddElement
  <2> QED BY <1>3, <1>6, <2>1, <2>3
<1>9. ASSUME NEW s \in Servers, RegisterService(s)
      PROVE  /\ cur' = 0 /\ upcoming' = <<>>
             /\ IsFiniteSet(Up') /\ Cardinality(Up') = starts'
             /\ \A t \in Servers : Fresh(t)'
  <2>1. Registered(s, Services[s][done[s] + 1])
    BY <1>1, <1>9 DEF RegisterService, RegisterMyself
  <2>2. \A t \in Servers : Fresh(t)'
    BY <1>3, <1>9, <2>1, CalmRegister
  <2>3. upcoming' = <<>> /\ cur' = 0 /\ starts' = starts
    BY <1>3, <1>4, <1>9, <2>1 DEF Registered, Store, RegisterService
  <2>4. Up' = Up
    BY <1>0, <1>9 DEF RegisterService, Up
  <2> QED BY <1>3, <2>2, <2>3, <2>4
<1>10. ASSUME NEW s \in Servers, StartHeart(s) \/ Listen(s)
       PROVE  /\ cur' = 0 /\ upcoming' = <<>>
              /\ IsFiniteSet(Up') /\ Cardinality(Up') = starts'
              /\ \A t \in Servers : Fresh(t)'
  <2>1. /\ UNCHANGED <<cur, upcoming, reg, done, starts>>
        /\ \A t \in Servers : heart'[t] = heart[t] \/ (heart[t] = "off" /\ heart'[t] = "beat")
    BY <1>0, <1>10 DEF StartHeart, Listen, regVars, Progress
  <2>2. Up' = Up
    BY <1>0, <1>10 DEF StartHeart, Listen, Up
  <2>3. ASSUME NEW t \in Servers PROVE Fresh(t)'
    <3>1. CASE heart'[t] = heart[t]
      BY <1>3, <2>1, <3>1, FreshFrame
    <3>2. CASE heart[t] = "off" /\ heart'[t] = "beat"
      <4>1. Known(0, t) /\ done[t] # 0 => reg[0][t].age \in Nat
        BY Constants DEF IInv, TypeOK, Known, Entries
      <4> QED BY <1>3, <2>1, <3>2, <4>1 DEF Fresh, Known, First
    <3> QED BY <2>1, <3>1, <3>2
  <2> QED BY <1>3, <2>1, <2>2, <2>3
<1>11. ASSUME NEW s \in Servers, Heartbeat(s)
       PROVE  /\ cur' = 0 /\ upcoming' = <<>>
              /\ IsFiniteSet(Up') /\ Cardinality(Up') = starts'
              /\ \A t \in Servers : Fresh(t)'
  <2>1. \A t \in Servers : Fresh(t)'
    BY <1>3, <1>11, CalmBeat
  <2>2. upcoming' = <<>> /\ UNCHANGED <<cur, main, starts>>
    BY <1>4, <1>11 DEF Heartbeat, Beat, Store
  <2> QED BY <1>3, <1>5, <2>1, <2>2
<1>12. ASSUME NEW s \in Servers PROVE ~HeartbeatFails(s) /\ ~Crash(s)
  <2>1. heart[s] = "beat" => Known(cur, s)
    <3>1. heart[s] = "beat" => done[s] # 0
      BY <1>0, Constants DEF Progress
    <3> QED BY <1>3, <3>1 DEF Fresh
  <2> QED BY <1>1, <2>1 DEF HeartbeatFails, Crash
<1>13. CASE Monitor
  <2>1. \A t \in Servers : Fresh(t)'
    BY <1>3, <1>13, CalmMonitor
  <2>2. upcoming' = <<>> /\ UNCHANGED <<cur, main, starts>>
    BY <1>4, <1>13 DEF Monitor, serverVars
  <2> QED BY <1>3, <1>5, <2>1, <2>2
<1>14. CASE Tick
  <2>1. \A s \in Servers : heart[s] # "beat" /\ main[s] \notin {"register", "main"}
    BY <1>1, <1>14 DEF Tick
  <2>2. \A t \in Servers : Fresh(t)'
    BY <1>3, <1>14, <2>1, CalmTick
  <2>3. UNCHANGED <<cur, upcoming, main, starts>>
    BY <1>14 DEF Tick
  <2> QED BY <1>5, <2>2, <2>3
<1>15. ~Commit
  BY <1>3 DEF Commit
<1>16. (\E v \in Names : Discover(v) \/ DiscoverNone(v)) \/ Connect \/ Leave
         \/ UNCHANGED vars => UNCHANGED <<regVars, serverVars>>
  BY DEF Discover, DiscoverNone, Connect, Leave, vars
<1> QED BY <1>1, <1>7, <1>8, <1>9, <1>10, <1>11, <1>12, <1>13, <1>14, <1>15, <1>16
        DEF Next, ServerStep

(* As long as nothing fails and no leader is elected, every server that    *)
(* was started is there, and one that sends heartbeats is listed online    *)
(* with all its services; the inactivity limit must span a heartbeat       *)
(* period for it, which 30 seconds against sleep(5) do.                    *)
THEOREM CalmServersRegistered ==
  ASSUME Prompt
  PROVE  Spec => []CalmServersStay
<1>1. Init => Calm
  BY InitCalm
<1>2. IInv /\ Calm /\ [Next]_vars => Calm'
  BY CalmStep
<1>3. IInv /\ Calm => CalmServersStay
  <2> SUFFICES ASSUME IInv, Calm, faults = 0, elections = 0
               PROVE  /\ Cardinality({s \in Servers : main[s] # "down"}) = starts
                      /\ \A s \in Servers :
                           heart[s] # "off" =>
                             /\ Known(cur, s)
                             /\ reg[cur][s].services = Named(s)
                             /\ reg[cur][s].status = "ONLINE"
    BY DEF CalmServersStay
  <2>1. Cardinality({s \in Servers : main[s] # "down"}) = starts
    BY DEF Calm, Up
  <2>2. ASSUME NEW s \in Servers, heart[s] # "off"
        PROVE  /\ Known(cur, s)
               /\ reg[cur][s].services = Named(s)
               /\ reg[cur][s].status = "ONLINE"
    <3>1. done[s] = Len(Services[s])
      BY <2>2 DEF IInv, Progress
    <3>2. cur = 0 /\ Fresh(s)
      BY DEF Calm
    <3> QED BY <3>1, <3>2, Constants DEF Fresh
  <2> QED BY <2>1, <2>2
<1> QED BY <1>1, <1>2, <1>3, NameInvariant, PTL DEF Spec

=============================================================================
