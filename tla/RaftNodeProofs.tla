--------------------------- MODULE RaftNodeProofs ---------------------------
(***************************************************************************)
(* What the roles of RaftNode rely on when they index the log: for any     *)
(* number of nodes and values, any bounds, and messages that are late,     *)
(* repeated by a resend or lost.                                           *)
(***************************************************************************)
EXTENDS RaftNode, FiniteSetTheorems, SequenceTheorems, WellFoundedInduction, TLAPS

-----------------------------------------------------------------------------
(* The inductive invariant.                                                *)

(* An append entries message leaves room for the entry after the one it    *)
(* names as its predecessor.                                               *)
Sound == {m \in Messages : m.type = "AppendEntries" => m.prev_log_index < MaxLog}

Sockets == net \in [Nodes -> [Nodes -> Seq(Sound)]]

(* Every log begins with the entry it was created with.                    *)
Logs ==
  \A n \in Nodes : Len(log[n]) \in 1..(MaxLog + 1) /\ log[n][1].term = 1

(* A candidate has not yet been given enough votes.                        *)
Counted ==
  \A n \in Nodes : current_role[n] = "candidate" => votes[n] <= Majority

IInv == TypeOK /\ Sockets /\ Logs /\ Counted /\ NextInLog

(* The constants.                                                          *)
LEMMA Constants ==
  /\ Cardinality(Nodes) \in Nat /\ Cardinality(Nodes) >= 1
  /\ Majority \in Nat /\ Majority + 1 <= Cardinality(Nodes)
  /\ Majority >= 0 /\ MaxTerm \in Nat /\ MaxLog \in Nat
  /\ 1 \in Terms /\ Terms \subseteq Nat /\ 0 \in Indices /\ Indices \subseteq Nat
  /\ None \notin Indices /\ None \notin Nodes
<1>1. Cardinality(Nodes) \in Nat /\ Cardinality(Nodes) # 0
  BY RaftAssumption, FS_CardinalityType, FS_EmptySet
<1>2. Majority \in Nat /\ Majority + 1 <= Cardinality(Nodes)
  BY <1>1 DEF Majority
<1> QED BY <1>1, <1>2, RaftAssumption DEF Terms, Indices

(* Every log is as it was made.                                            *)
LEMMA InitOK == Init => IInv
<1> SUFFICES ASSUME Init PROVE IInv
  OBVIOUS
<1>1. [term |-> 1, entry |-> Empty] \in Entries
  BY Constants DEF Entries
<1>2. Sockets
  BY DEF Init, Sockets
<1>3. TypeOK
  BY <1>1, Constants DEF Init, TypeOK
<1>4. Logs /\ Counted /\ NextInLog
  BY Constants DEF Init, Logs, Counted, NextInLog
<1> QED BY <1>2, <1>3, <1>4 DEF IInv

-----------------------------------------------------------------------------
(* Sockets.                                                                *)

(* What a node sends in one step: a sequence for each receiver.            *)
Outputs == [Nodes -> Seq(Sound)]

LEMMA OutputsBuilt ==
  /\ Nothing \in Outputs
  /\ \A m \in Sound : ToAll(m) \in Outputs
  /\ \A m \in Sound, q \in Nodes : To(q, m) \in Outputs
  /\ \A a, b \in Outputs : Then(a, b) \in Outputs
<1>1. \A m \in Sound : <<m>> \in Seq(Sound)
  OBVIOUS
<1>2. <<>> \in Seq(Sound)
  OBVIOUS
<1>3. \A a, b \in Outputs : Then(a, b) \in Outputs
  <2> SUFFICES ASSUME NEW a \in Outputs, NEW b \in Outputs, NEW r \in Nodes
               PROVE  a[r] \o b[r] \in Seq(Sound)
    BY DEF Then, Outputs
  <2>1. a[r] \in Seq(Sound)
    BY DEF Outputs
  <2>2. b[r] \in Seq(Sound)
    BY DEF Outputs
  <2> QED BY <2>1, <2>2, ConcatProperties
<1> QED BY <1>1, <1>2, <1>3 DEF Nothing, ToAll, To, Outputs

LEMMA MessageSound ==
  ASSUME Sockets, NEW n \in Nodes, NEW s \in Nodes, Incoming(n, s)
  PROVE  Message(n, s) \in Sound /\ Message(n, s) \in Messages
<1>1. net[s][n] \in Seq(Sound) /\ net[s][n] # <<>>
  BY DEF Sockets, Incoming
<1> QED BY <1>1 DEF Message, Sound

LEMMA SocketsTyped ==
  ASSUME Sockets'
  PROVE  net' \in [Nodes -> [Nodes -> Seq(Messages)]]
<1>1. \A q \in Seq(Sound) : q \in Seq(Messages)
  BY DEF Sound
<1> QED BY <1>1 DEF Sockets

LEMMA SocketsSend ==
  ASSUME Sockets, NEW n \in Nodes, NEW out \in Outputs, Send(n, out)
  PROVE  Sockets'
<1>1. net[n] \in Outputs
  BY DEF Sockets, Outputs
<1>2. Then(net[n], out) \in Outputs
  BY <1>1, OutputsBuilt
<1>3. net' = [net EXCEPT ![n] = Then(net[n], out)]
  BY DEF Send
<1> QED BY <1>2, <1>3 DEF Sockets, Outputs

LEMMA SocketsTake ==
  ASSUME Sockets, NEW n \in Nodes, NEW s \in Nodes, Incoming(n, s)
  PROVE  [net EXCEPT ![s][n] = Tail(@)] \in [Nodes -> Outputs]
<1>1. net[s][n] \in Seq(Sound) /\ net[s][n] # <<>>
  BY DEF Sockets, Incoming
<1>2. Tail(net[s][n]) \in Seq(Sound)
  BY <1>1
<1> QED BY <1>2 DEF Sockets, Outputs

LEMMA SocketsReply ==
  ASSUME Sockets, NEW n \in Nodes, NEW s \in Nodes, Incoming(n, s),
         NEW out \in Outputs, Reply(n, s, out)
  PROVE  Sockets'
<1> DEFINE rest == [net EXCEPT ![s][n] = Tail(@)]
<1>1. rest \in [Nodes -> Outputs]
  BY SocketsTake
<1>2. net' = [rest EXCEPT ![n] = Then(rest[n], out)]
  BY DEF Reply
<1> HIDE DEF rest
<1>3. Then(rest[n], out) \in Outputs
  BY <1>1, OutputsBuilt
<1>4. net' \in [Nodes -> Outputs]
  BY <1>1, <1>2, <1>3
<1> QED BY <1>4 DEF Sockets, Outputs

(* The messages the handlers make.                                         *)
LEMMA SmallMessages ==
  /\ \A t \in Terms, g \in BOOLEAN : Vote(t, g) \in Sound
  /\ \A b \in BOOLEAN : Acknowledge(b) \in Sound
  /\ \A i \in Indices, t \in Terms : Committal(i, t) \in Sound
  /\ \A e \in Entries : Forwarded(e) \in Sound
BY DEF Sound, Messages, Vote, Acknowledge, Committal, Forwarded

LEMMA NodeMessages ==
  ASSUME TypeOK, NEW n \in Nodes
  PROVE  /\ Heartbeat(n) \in Sound
         /\ \A t \in Terms : RequestVotes(n, t) \in Sound
<1>1. current_term[n] \in Terms /\ commit_index[n] \in Indices
      /\ last_applied_term[n] \in Terms
  BY DEF TypeOK
<1> QED BY <1>1 DEF Sound, Messages, Heartbeat, RequestVotes

LEMMA AppendSound ==
  ASSUME TypeOK, NEW n \in Nodes, NEW l \in Seq(Entries),
         NEW p \in Nat, p < MaxLog, p + 1 < Len(l)
  PROVE  AppendEntries(n, p, l) \in Sound
<1>1. current_term[n] \in Terms /\ commit_index[n] \in Indices /\ p \in Indices
  BY Constants DEF TypeOK, Indices
<1>2. p + 1 \in 1..Len(l) /\ p + 1 + 1 \in 1..Len(l)
  OBVIOUS
<1>3. Entry(l, p) \in Entries /\ Entry(l, p + 1) \in Entries
  BY <1>2 DEF Entry
<1>4. Entry(l, p).term \in Terms
  BY <1>3 DEF Entries
<1> QED BY <1>1, <1>3, <1>4 DEF AppendEntries, Sound, Messages

(* Steps that leave logs and leaders alone.                                *)
LEMMA RolesFrame ==
  ASSUME IInv, Sockets', UNCHANGED <<logVars, leaderVars>>,
         current_role' \in [Nodes -> {"follower", "candidate", "leader"}],
         current_term' \in [Nodes -> Terms],
         voted_for' \in [Nodes -> Nodes \cup {None}],
         votes' \in [Nodes -> 0..Cardinality(Nodes)],
         client_queue' \in [Nodes -> Seq(Entries)],
         ballots' \subseteq [by : Nodes, for : Nodes, term : Terms],
         \A n \in Nodes : current_role'[n] = "leader" => current_role[n] = "leader",
         Counted'
  PROVE  IInv'
<1>1. net' \in [Nodes -> [Nodes -> Seq(Messages)]]
  BY SocketsTyped
<1>2. TypeOK'
  BY <1>1 DEF IInv, TypeOK, logVars, leaderVars
<1>3. Logs' /\ NextInLog'
  BY DEF IInv, Logs, NextInLog, logVars, leaderVars, MaxIndex
<1> QED BY <1>2, <1>3 DEF IInv

(* A vote is on the ballot.                                                *)
LEMMA BallotTyped ==
  ASSUME TypeOK, NEW n \in Nodes, NEW s \in Nodes, NEW t \in Terms,
         NEW g \in BOOLEAN, Ballot(n, s, t, g)
  PROVE  ballots' \subseteq [by : Nodes, for : Nodes, term : Terms]
BY DEF TypeOK, Ballot

LEMMA VotesStep ==
  ASSUME IInv, NEW n \in Nodes, NEW s \in Nodes, FollowerVotes(n, s)
  PROVE  IInv'
<1> DEFINE m == Message(n, s)
           newer == m.term > current_term[n]
           t == IF newer THEN m.term ELSE current_term[n]
           granted == /\ newer \/ voted_for[n] = None
                      /\ m.last_log_index >= commit_index[n]
                      /\ m.last_log_term >= last_applied_term[n]
<1>0. TypeOK /\ Sockets /\ Counted /\ Incoming(n, s)
  BY DEF IInv, FollowerVotes, Receives
<1>1. m \in Messages /\ m.type = "RequestVotes"
  BY <1>0, MessageSound DEF FollowerVotes, Receives
<1>2. m.term \in Terms
  BY <1>1 DEF Messages
<1>3. t \in Terms
  BY <1>0, <1>2 DEF TypeOK
<1>4. granted \in BOOLEAN
  OBVIOUS
<1>5. /\ IncrementTerm(n, s, t)
      /\ Reply(n, s, To(s, Vote(t, granted)))
      /\ Ballot(n, s, t, granted)
      /\ UNCHANGED <<current_role, votes, logVars, leaderVars, client_queue>>
  BY DEF FollowerVotes
<1> HIDE DEF t, granted
<1>6. Sockets'
  <2>1. To(s, Vote(t, granted)) \in Outputs
    BY <1>3, <1>4, SmallMessages, OutputsBuilt
  <2> QED BY <1>0, <1>5, <2>1, SocketsReply
<1>7. ballots' \subseteq [by : Nodes, for : Nodes, term : Terms]
  BY <1>0, <1>3, <1>4, <1>5, BallotTyped
<1>8. /\ current_term' \in [Nodes -> Terms]
      /\ voted_for' \in [Nodes -> Nodes \cup {None}]
  BY <1>0, <1>3, <1>5 DEF TypeOK, IncrementTerm
<1>9. Counted'
  BY <1>0, <1>5 DEF Counted
<1> QED BY <1>0, <1>5, <1>6, <1>7, <1>8, <1>9, RolesFrame DEF TypeOK

LEMMA HeartbeatStep ==
  ASSUME IInv, NEW n \in Nodes, NEW s \in Nodes, FollowerHeartbeat(n, s)
  PROVE  IInv'
<1> DEFINE m == Message(n, s)
<1>0. TypeOK /\ Sockets /\ Counted /\ Incoming(n, s)
  BY DEF IInv, FollowerHeartbeat, Receives
<1>1. m \in Messages /\ m.type = "Heartbeat"
  BY <1>0, MessageSound DEF FollowerHeartbeat, Receives
<1>2. m.term \in Terms
  BY <1>1 DEF Messages
<1>3. /\ current_term' \in [Nodes -> Terms]
      /\ voted_for' \in [Nodes -> Nodes \cup {None}]
  BY <1>0, <1>2 DEF TypeOK, IncrementTerm, FollowerHeartbeat
<1>4. UNCHANGED <<current_role, votes, logVars, leaderVars, ballots>>
  BY DEF FollowerHeartbeat
<1>5. Sockets' /\ client_queue' \in [Nodes -> Seq(Entries)]
  <2>1. CASE client_queue[n] = <<>>
    BY <1>0, <2>1, OutputsBuilt, SocketsReply DEF TypeOK, FollowerHeartbeat
  <2>2. CASE client_queue[n] # <<>>
    <3>1. client_queue[n] \in Seq(Entries)
      BY <1>0 DEF TypeOK
    <3>2. Head(client_queue[n]) \in Entries /\ Tail(client_queue[n]) \in Seq(Entries)
      BY <2>2, <3>1
    <3>3. To(s, Forwarded(Head(client_queue[n]))) \in Outputs
      BY <3>2, SmallMessages, OutputsBuilt
    <3>4. /\ Reply(n, s, To(s, Forwarded(Head(client_queue[n]))))
          /\ client_queue' = [client_queue EXCEPT ![n] = Tail(@)]
      BY <2>2 DEF FollowerHeartbeat
    <3>5. Sockets'
      BY <1>0, <3>3, <3>4, SocketsReply
    <3> QED BY <1>0, <3>2, <3>4, <3>5 DEF TypeOK
  <2> QED BY <2>1, <2>2
<1>6. Counted'
  BY <1>0, <1>4 DEF Counted
<1> QED BY <1>0, <1>3, <1>4, <1>5, <1>6, RolesFrame DEF TypeOK

LEMMA ElectionStep ==
  ASSUME IInv, NEW n \in Nodes, StartElection(n)
  PROVE  IInv'
<1> DEFINE t == current_term[n] + 1
<1>0. TypeOK /\ Sockets /\ Counted
  BY DEF IInv
<1>1. t \in Terms
  BY <1>0, Constants DEF TypeOK, Terms, StartElection
<1>2. /\ SetRole(n, "candidate")
      /\ IncrementTerm(n, n, t)
      /\ votes' = [votes EXCEPT ![n] = 0]
      /\ Send(n, Then(ToAll(RequestVotes(n, t)), To(n, Vote(t, TRUE))))
      /\ Ballot(n, n, t, TRUE)
      /\ UNCHANGED <<logVars, leaderVars, client_queue>>
  BY DEF StartElection
<1> HIDE DEF t
<1>3. Sockets'
  <2>1. To(n, Vote(t, TRUE)) \in Outputs
    BY <1>1, SmallMessages, OutputsBuilt
  <2>2. ToAll(RequestVotes(n, t)) \in Outputs
    BY <1>0, <1>1, NodeMessages, OutputsBuilt
  <2>3. Then(ToAll(RequestVotes(n, t)), To(n, Vote(t, TRUE))) \in Outputs
    BY <2>1, <2>2, OutputsBuilt
  <2> QED BY <1>0, <1>2, <2>3, SocketsSend
<1>4. ballots' \subseteq [by : Nodes, for : Nodes, term : Terms]
  BY <1>0, <1>1, <1>2, BallotTyped
<1>5. /\ current_role' \in [Nodes -> {"follower", "candidate", "leader"}]
      /\ current_term' \in [Nodes -> Terms]
      /\ voted_for' \in [Nodes -> Nodes \cup {None}]
      /\ votes' \in [Nodes -> 0..Cardinality(Nodes)]
  BY <1>0, <1>1, <1>2, Constants DEF TypeOK, IncrementTerm, SetRole
<1>6. /\ \A r \in Nodes : current_role'[r] = "leader" => current_role[r] = "leader"
      /\ Counted'
  BY <1>0, <1>2, Constants DEF TypeOK, Counted, SetRole, Majority
<1> QED BY <1>0, <1>2, <1>3, <1>4, <1>5, <1>6, RolesFrame DEF TypeOK

LEMMA StepDownStep ==
  ASSUME IInv, NEW n \in Nodes, NEW s \in Nodes,
         CandidateStepsDown(n, s) \/ LeaderStepsDown(n, s)
  PROVE  IInv'
<1> DEFINE t == Message(n, s).term
<1>0. TypeOK /\ Sockets /\ Counted /\ Incoming(n, s) /\ StepDown(n, s)
  BY DEF IInv, CandidateStepsDown, LeaderStepsDown, Receives
<1>1. Message(n, s) \in Messages /\ Message(n, s).type = "RequestVotes"
  BY <1>0, MessageSound DEF CandidateStepsDown, LeaderStepsDown, Receives
<1>2. t \in Terms
  BY <1>1 DEF Messages
<1>3. UNCHANGED <<votes, logVars, leaderVars, client_queue>>
  BY <1>0 DEF StepDown
<1>4. CASE t > current_term[n]
  <2>1. /\ IncrementTerm(n, s, t) /\ SetRole(n, "follower")
        /\ Reply(n, s, To(s, Vote(t, TRUE))) /\ Ballot(n, s, t, TRUE)
    BY <1>0, <1>4 DEF StepDown
  <2> HIDE DEF t
  <2>2. To(s, Vote(t, TRUE)) \in Outputs
    BY <1>2, SmallMessages, OutputsBuilt
  <2>3. Sockets'
    BY <1>0, <2>1, <2>2, SocketsReply
  <2>4. ballots' \subseteq [by : Nodes, for : Nodes, term : Terms]
    BY <1>0, <1>2, <2>1, BallotTyped
  <2>5. /\ current_role' \in [Nodes -> {"follower", "candidate", "leader"}]
        /\ current_term' \in [Nodes -> Terms]
        /\ voted_for' \in [Nodes -> Nodes \cup {None}]
    BY <1>0, <1>2, <2>1 DEF TypeOK, IncrementTerm, SetRole
  <2>6. /\ \A r \in Nodes : current_role'[r] = "leader" => current_role[r] = "leader"
        /\ Counted'
    BY <1>0, <1>3, <2>1 DEF TypeOK, Counted, SetRole
  <2> QED BY <1>0, <1>3, <2>3, <2>4, <2>5, <2>6, RolesFrame DEF TypeOK
<1>5. CASE ~(t > current_term[n])
  <2>1. Reply(n, s, Nothing) /\ UNCHANGED <<current_role, current_term, voted_for, ballots>>
    BY <1>0, <1>5 DEF StepDown
  <2>2. Sockets'
    BY <1>0, <2>1, OutputsBuilt, SocketsReply
  <2> QED BY <1>0, <1>3, <2>1, <2>2, RolesFrame DEF TypeOK, Counted
<1> QED BY <1>4, <1>5

LEMMA YieldStep ==
  ASSUME IInv, NEW n \in Nodes, NEW s \in Nodes, CandidateYields(n, s)
  PROVE  IInv'
<1> DEFINE t == Message(n, s).term
<1>0. TypeOK /\ Sockets /\ Counted /\ Incoming(n, s)
  BY DEF IInv, CandidateYields, Receives
<1>1. Message(n, s) \in Messages /\ Message(n, s).type = "Heartbeat"
  BY <1>0, MessageSound DEF CandidateYields, Receives
<1>2. t \in Terms
  BY <1>1 DEF Messages
<1>3. /\ UNCHANGED <<votes, logVars, leaderVars, client_queue, ballots>>
      /\ Reply(n, s, Nothing)
  BY DEF CandidateYields
<1>4. Sockets'
  BY <1>0, <1>3, OutputsBuilt, SocketsReply
<1>5. /\ current_role' \in [Nodes -> {"follower", "candidate", "leader"}]
      /\ current_term' \in [Nodes -> Terms]
      /\ voted_for' \in [Nodes -> Nodes \cup {None}]
      /\ \A r \in Nodes : current_role'[r] = current_role[r] \/ current_role'[r] = "follower"
  BY <1>0, <1>2 DEF TypeOK, IncrementTerm, SetRole, CandidateYields
<1>6. Counted'
  BY <1>0, <1>3, <1>5 DEF Counted
<1> QED BY <1>0, <1>3, <1>4, <1>5, <1>6, RolesFrame DEF TypeOK

(* Steps that only touch the sockets or the queue of requests.             *)
LEMMA QuietStep ==
  ASSUME IInv, NEW n \in Nodes, NEW s \in Nodes,
         \/ SendHeartbeat(n) \/ Resend(n, s) \/ Ignore(n, s) \/ Lose(n, s)
         \/ \E v \in Values : ClientRequest(n, v)
  PROVE  IInv'
<1>0. /\ TypeOK /\ Sockets /\ Counted /\ Logs /\ NextInLog
      /\ UNCHANGED <<nodeVars, logVars, leaderVars, ballots>>
  BY DEF IInv, SendHeartbeat, Resend, Ignore, Lose, ClientRequest
<1>1. ASSUME Sockets', client_queue' \in [Nodes -> Seq(Entries)] PROVE IInv'
  BY <1>0, <1>1, RolesFrame DEF TypeOK, Counted, nodeVars
<1>2. CASE SendHeartbeat(n)
  <2>1. ToAll(Heartbeat(n)) \in Outputs
    BY <1>0, NodeMessages, OutputsBuilt
  <2> QED BY <1>0, <1>1, <1>2, <2>1, SocketsSend DEF SendHeartbeat, TypeOK
<1>3. CASE Resend(n, s)
  <2> DEFINE i == next_index[n][s]
  <2>1. i \in 1..MaxIndex(log[n]) /\ log[n] \in Seq(Entries)
        /\ Len(log[n]) \in 1..(MaxLog + 1)
    BY <1>0, <1>3 DEF Resend, NextInLog, TypeOK, Logs
  <2>2. i - 1 \in Nat /\ i - 1 < MaxLog /\ (i - 1) + 1 < Len(log[n])
    <3>1. i \in Nat /\ 1 <= i /\ i <= Len(log[n]) - 1 /\ Len(log[n]) <= MaxLog + 1
      BY <2>1 DEF MaxIndex
    <3>2. MaxLog \in Nat /\ Len(log[n]) \in Nat
      BY <2>1, Constants
    <3> HIDE DEF i
    <3> QED BY <3>1, <3>2
  <2> HIDE DEF i
  <2>3. AppendEntries(n, i - 1, log[n]) \in Sound
    BY <1>0, <2>1, <2>2, AppendSound
  <2>4. To(s, AppendEntries(n, i - 1, log[n])) \in Outputs
    BY <2>3, OutputsBuilt
  <2>5. Send(n, To(s, AppendEntries(n, i - 1, log[n]))) /\ UNCHANGED client_queue
    BY <1>3 DEF Resend, i
  <2>6. Sockets'
    BY <1>0, <2>4, <2>5, SocketsSend
  <2> QED BY <1>0, <1>1, <2>5, <2>6 DEF TypeOK
<1>4. CASE Ignore(n, s)
  BY <1>0, <1>1, <1>4, OutputsBuilt, SocketsReply DEF Ignore, TypeOK
<1>5. CASE Lose(n, s)
  <2>1. Sockets'
    BY <1>0, <1>5, SocketsTake DEF Lose, Sockets, Outputs
  <2> QED BY <1>0, <1>1, <1>5, <2>1 DEF Lose, TypeOK
<1>6. ASSUME NEW v \in Values, ClientRequest(n, v) PROVE IInv'
  <2>1. [term |-> current_term[n], entry |-> v] \in Entries
    BY <1>0 DEF TypeOK, Entries
  <2>2. client_queue' \in [Nodes -> Seq(Entries)] /\ net' = net
    BY <1>0, <1>6, <2>1 DEF TypeOK, ClientRequest
  <2>3. Sockets'
    BY <1>0, <2>2 DEF Sockets
  <2> QED BY <1>1, <2>2, <2>3
<1> QED BY <1>2, <1>3, <1>4, <1>5, <1>6

-----------------------------------------------------------------------------
(* Logs.                                                                   *)

(* An entry is appended, and sent to the nodes that have all the others.   *)
LEMMA BroadcastMade ==
  ASSUME IInv, NEW n \in Nodes, NEW e \in Entries, LogHasRoom(n),
         NEW nx \in [Nodes -> Indices \cup {None}],
         \A r \in Nodes : nx[r] # None => nx[r] \in 1..MaxIndex(log[n]),
         NEW mt \in [Nodes -> Indices]
  PROVE  LET b == Broadcast(n, e, nx, mt)
         IN  /\ b.log = Append(log[n], e) /\ b.log \in Seq(Entries)
             /\ Len(b.log) = Len(log[n]) + 1 /\ Len(b.log) \in 1..(MaxLog + 1)
             /\ b.log[1] = log[n][1]
             /\ b.next \in [Nodes -> Indices \cup {None}]
             /\ b.match \in [Nodes -> Indices]
             /\ \A r \in Nodes : b.next[r] # None => b.next[r] \in 1..MaxIndex(b.log)
             /\ b.next[n] = None /\ b.match[n] = MaxIndex(b.log)
             /\ b.out \in Outputs
<1> DEFINE l == Append(log[n], e)
           max == MaxIndex(l)
           b == Broadcast(n, e, nx, mt)
<1>0. /\ log[n] \in Seq(Entries) /\ Len(log[n]) \in 1..(MaxLog + 1)
      /\ Len(log[n]) <= MaxLog /\ MaxLog \in Nat /\ TypeOK
  BY Constants DEF IInv, TypeOK, Logs, LogHasRoom
<1>1. /\ l \in Seq(Entries) /\ Len(l) = Len(log[n]) + 1 /\ l[1] = log[n][1]
  BY <1>0
<1>2. max = Len(log[n]) /\ max \in 1..MaxLog /\ max \in Indices /\ Len(l) = max + 1
      /\ Len(l) \in 1..(MaxLog + 1) /\ MaxIndex(log[n]) = max - 1
  BY <1>0, <1>1 DEF MaxIndex, Indices
<1>3. AppendEntries(n, max - 1, l) \in Sound
  <2>1. max - 1 \in Nat /\ max - 1 < MaxLog /\ (max - 1) + 1 < Len(l)
    BY <1>0, <1>2
  <2> HIDE DEF l, max
  <2> QED BY <1>0, <1>1, <2>1, AppendSound
<1>4. /\ b.log = l
      /\ b.next = [r \in Nodes |-> IF r = n THEN None
                                   ELSE IF nx[r] = None THEN max ELSE nx[r]]
      /\ b.match = [mt EXCEPT ![n] = max]
      /\ b.out = [r \in Nodes |-> IF nx[r] = None
                                  THEN <<AppendEntries(n, max - 1, l)>>
                                  ELSE <<>>]
  BY DEF Broadcast
<1> HIDE DEF l, b
<1>5. b.out \in Outputs
  <2>1. <<AppendEntries(n, max - 1, l)>> \in Seq(Sound) /\ <<>> \in Seq(Sound)
    BY <1>3
  <2> QED BY <1>4, <2>1 DEF Outputs
<1> HIDE DEF max
<1>6. b.next \in [Nodes -> Indices \cup {None}] /\ b.match \in [Nodes -> Indices]
  BY <1>2, <1>4
<1>7. b.next[n] = None /\ b.match[n] = max
  BY <1>4
<1>8. \A r \in Nodes : b.next[r] # None => b.next[r] \in 1..max
  BY <1>2, <1>4
<1>9. MaxIndex(b.log) = max
  BY <1>2, <1>4 DEF MaxIndex
<1>10. b.log = Append(log[n], e)
  BY <1>4 DEF l
<1> QED BY <1>1, <1>2, <1>4, <1>5, <1>6, <1>7, <1>8, <1>9, <1>10 DEF b

(* What a broadcast leaves behind in its node.                             *)
LEMMA BroadcastKeeps ==
  ASSUME IInv, NEW n \in Nodes, NEW e \in Entries, LogHasRoom(n),
         NEW nx \in [Nodes -> Indices \cup {None}],
         \A r \in Nodes : nx[r] # None => nx[r] \in 1..MaxIndex(log[n]),
         NEW mt \in [Nodes -> Indices],
         Broadcasts(n, Broadcast(n, e, nx, mt)),
         \A r \in Nodes : r # n /\ current_role'[r] = "leader" =>
                            current_role[r] = "leader"
  PROVE  /\ log' \in [Nodes -> Seq(Entries)]
         /\ next_index' \in [Nodes -> [Nodes -> Indices \cup {None}]]
         /\ match_index' \in [Nodes -> [Nodes -> Indices]]
         /\ Logs' /\ NextInLog'
<1> DEFINE b == Broadcast(n, e, nx, mt)
<1>0. /\ log \in [Nodes -> Seq(Entries)] /\ Logs /\ NextInLog
      /\ next_index \in [Nodes -> [Nodes -> Indices \cup {None}]]
      /\ match_index \in [Nodes -> [Nodes -> Indices]]
  BY DEF IInv, TypeOK
<1>1. /\ b.log \in Seq(Entries) /\ Len(b.log) \in 1..(MaxLog + 1)
      /\ b.log[1] = log[n][1]
      /\ b.next \in [Nodes -> Indices \cup {None}]
      /\ b.match \in [Nodes -> Indices]
      /\ \A r \in Nodes : b.next[r] # None => b.next[r] \in 1..MaxIndex(b.log)
      /\ b.next[n] = None /\ b.match[n] = MaxIndex(b.log)
  BY BroadcastMade
<1>2. /\ log' = [log EXCEPT ![n] = b.log]
      /\ next_index' = [next_index EXCEPT ![n] = b.next]
      /\ match_index' = [match_index EXCEPT ![n] = b.match]
  BY DEF Broadcasts
<1> HIDE DEF b
<1>3. /\ log' \in [Nodes -> Seq(Entries)]
      /\ next_index' \in [Nodes -> [Nodes -> Indices \cup {None}]]
      /\ match_index' \in [Nodes -> [Nodes -> Indices]]
  BY <1>0, <1>1, <1>2
<1>4. /\ log'[n] = b.log /\ next_index'[n] = b.next /\ match_index'[n] = b.match
      /\ \A r \in Nodes : r # n => /\ log'[r] = log[r]
                                   /\ next_index'[r] = next_index[r]
                                   /\ match_index'[r] = match_index[r]
  BY <1>0, <1>2
<1>5. Logs'
  <2>1. ASSUME NEW q \in Nodes
        PROVE  Len(log'[q]) \in 1..(MaxLog + 1) /\ log'[q][1].term = 1
    <3>1. CASE q = n
      <4>1. log[n][1].term = 1
        BY <1>0 DEF Logs
      <4> QED BY <1>1, <1>4, <3>1, <4>1
    <3>2. CASE q # n
      BY <1>0, <1>4, <3>2 DEF Logs
    <3> QED BY <3>1, <3>2
  <2> QED BY <2>1 DEF Logs
<1>6. ASSUME NEW q \in Nodes, current_role'[q] = "leader"
      PROVE  /\ \A r \in Nodes : next_index'[q][r] # None =>
                                   next_index'[q][r] \in 1..MaxIndex(log'[q])
             /\ next_index'[q][q] = None
             /\ match_index'[q][q] = MaxIndex(log'[q])
  <2>1. CASE q = n
    BY <1>1, <1>4, <2>1
  <2>2. CASE q # n
    BY <1>0, <1>4, <1>6, <2>2 DEF NextInLog
  <2> QED BY <2>1, <2>2
<1>7. NextInLog'
  BY <1>6 DEF NextInLog, MaxIndex
<1> QED BY <1>3, <1>5, <1>7

(* A candidate counts a vote, and perhaps becomes leader.                  *)
LEMMA CountsStep ==
  ASSUME IInv, NEW n \in Nodes, NEW s \in Nodes, CandidateCounts(n, s)
  PROVE  IInv'
<1> DEFINE count == votes[n] + (IF Message(n, s).granted THEN 1 ELSE 0)
           e == [term |-> current_term[n], entry |-> Empty]
           nx == [r \in Nodes |-> None]
           mt == [r \in Nodes |-> commit_index[n]]
           b == Broadcast(n, e, nx, mt)
<1>0. /\ TypeOK /\ Sockets /\ Counted /\ Incoming(n, s)
      /\ current_role[n] = "candidate"
      /\ UNCHANGED <<current_term, voted_for, commit_index, last_applied_term,
                     client_queue, ballots>>
  BY DEF IInv, CandidateCounts, Receives
<1>1. /\ votes[n] \in Nat /\ count \in Nat
      /\ count <= Majority + 1 /\ votes' = [votes EXCEPT ![n] = count]
  <2>1. votes[n] \in Nat /\ votes[n] <= Majority
    BY <1>0 DEF TypeOK, Counted
  <2> QED BY <2>1, Constants DEF CandidateCounts
<1>2. votes' \in [Nodes -> 0..Cardinality(Nodes)]
  <2> HIDE DEF count
  <2>1. count \in 0..Cardinality(Nodes)
    BY <1>1, Constants
  <2> QED BY <1>0, <1>1, <2>1 DEF TypeOK
<1>3. CASE count > Majority \/ Cardinality(Nodes) = 1
  <2>1. /\ LogHasRoom(n) /\ SetRole(n, "leader") /\ Broadcasts(n, b)
        /\ Reply(n, s, Then(ToAll(Heartbeat(n)), b.out))
    BY <1>3 DEF CandidateCounts
  <2>2. e \in Entries /\ mt \in [Nodes -> Indices] /\ nx \in [Nodes -> Indices \cup {None}]
        /\ \A r \in Nodes : nx[r] # None => nx[r] \in 1..MaxIndex(log[n])
    BY <1>0 DEF TypeOK, Entries
  <2> HIDE DEF e, nx, mt
  <2>3. b.out \in Outputs
    BY <2>1, <2>2, BroadcastMade
  <2>4. Then(ToAll(Heartbeat(n)), b.out) \in Outputs
    BY <1>0, <2>3, NodeMessages, OutputsBuilt
  <2>5. Sockets'
    BY <1>0, <2>1, <2>4, SocketsReply
  <2>6. /\ current_role' \in [Nodes -> {"follower", "candidate", "leader"}]
        /\ current_role'[n] = "leader"
        /\ \A r \in Nodes : r # n => current_role'[r] = current_role[r]
    BY <1>0, <2>1 DEF TypeOK, SetRole
  <2>7. /\ log' \in [Nodes -> Seq(Entries)]
        /\ next_index' \in [Nodes -> [Nodes -> Indices \cup {None}]]
        /\ match_index' \in [Nodes -> [Nodes -> Indices]]
        /\ Logs' /\ NextInLog'
    BY <2>1, <2>2, <2>6, BroadcastKeeps
  <2>8. Counted'
    <3>1. \A r \in Nodes : r # n => votes'[r] = votes[r]
      BY <1>0, <1>1 DEF TypeOK
    <3> QED BY <1>0, <2>6, <3>1 DEF Counted, Majority
  <2>9. net' \in [Nodes -> [Nodes -> Seq(Messages)]]
    BY <2>5, SocketsTyped
  <2>10. TypeOK'
    BY <1>0, <1>2, <2>6, <2>7, <2>9 DEF TypeOK
  <2> QED BY <2>5, <2>7, <2>8, <2>10 DEF IInv
<1>4. CASE ~(count > Majority \/ Cardinality(Nodes) = 1)
  <2>1. Reply(n, s, Nothing) /\ UNCHANGED <<current_role, log, leaderVars>>
    BY <1>4 DEF CandidateCounts
  <2>2. Sockets'
    BY <1>0, <2>1, OutputsBuilt, SocketsReply
  <2>3. Counted'
    <3>1. votes'[n] = count /\ \A r \in Nodes : r # n => votes'[r] = votes[r]
      BY <1>0, <1>1 DEF TypeOK
    <3>2. count <= Majority
      BY <1>1, <1>4, Constants
    <3> QED BY <1>0, <2>1, <3>1, <3>2 DEF Counted, Majority
  <2> QED BY <1>0, <1>2, <2>1, <2>2, <2>3, RolesFrame DEF TypeOK, logVars
<1> QED BY <1>3, <1>4

(* A leader appends a request.                                             *)
LEMMA RequestStep ==
  ASSUME IInv, NEW n \in Nodes, NEW s \in Nodes,
         LeaderTakes(n) \/ LeaderAppends(n, s)
  PROVE  IInv'
<1>0. /\ TypeOK /\ Sockets /\ Counted /\ NextInLog
      /\ current_role[n] = "leader" /\ LogHasRoom(n)
      /\ UNCHANGED <<nodeVars, commit_index, last_applied_term, ballots>>
  BY DEF IInv, LeaderTakes, LeaderAppends, Receives
<1> DEFINE nx == next_index[n]
           mt == match_index[n]
<1>1. /\ nx \in [Nodes -> Indices \cup {None}] /\ mt \in [Nodes -> Indices]
      /\ \A r \in Nodes : nx[r] # None => nx[r] \in 1..MaxIndex(log[n])
  BY <1>0 DEF TypeOK, NextInLog
<1> HIDE DEF nx, mt
<1>2. ASSUME NEW e \in Entries, Broadcasts(n, Broadcast(n, e, nx, mt)), Sockets',
             client_queue' \in [Nodes -> Seq(Entries)]
      PROVE  IInv'
  <2>1. /\ log' \in [Nodes -> Seq(Entries)]
        /\ next_index' \in [Nodes -> [Nodes -> Indices \cup {None}]]
        /\ match_index' \in [Nodes -> [Nodes -> Indices]]
        /\ Logs' /\ NextInLog'
    <3>1. current_role' = current_role
      BY <1>0 DEF nodeVars
    <3> QED BY <1>0, <1>1, <1>2, <3>1, BroadcastKeeps
  <2>2. net' \in [Nodes -> [Nodes -> Seq(Messages)]]
    BY <1>2, SocketsTyped
  <2>3. TypeOK'
    BY <1>0, <1>2, <2>1, <2>2 DEF TypeOK, nodeVars
  <2>4. Counted'
    BY <1>0 DEF Counted, nodeVars
  <2> QED BY <1>2, <2>1, <2>3, <2>4 DEF IInv
<1>3. CASE LeaderTakes(n)
  <2>1. client_queue[n] \in Seq(Entries) /\ client_queue[n] # <<>>
    BY <1>0, <1>3 DEF TypeOK, LeaderTakes
  <2>2. Head(client_queue[n]) \in Entries /\ Tail(client_queue[n]) \in Seq(Entries)
    BY <2>1
  <2>3. PICK e \in Entries : e = Head(client_queue[n])
    BY <2>2
  <2>4. Broadcasts(n, Broadcast(n, e, nx, mt)) /\ Send(n, Broadcast(n, e, nx, mt).out)
    BY <1>3, <2>3 DEF LeaderTakes, nx, mt
  <2>5. client_queue' \in [Nodes -> Seq(Entries)]
    BY <1>0, <1>3, <2>2 DEF TypeOK, LeaderTakes
  <2>6. Broadcast(n, e, nx, mt).out \in Outputs
    BY <1>0, <1>1, BroadcastMade
  <2>7. Sockets'
    BY <1>0, <2>4, <2>6, SocketsSend
  <2> QED BY <1>2, <2>4, <2>5, <2>7
<1>4. CASE LeaderAppends(n, s)
  <2>1. Incoming(n, s) /\ Message(n, s).type = "ClientRequest"
    BY <1>4 DEF LeaderAppends, Receives
  <2>2. Message(n, s) \in Messages
    BY <1>0, <2>1, MessageSound
  <2>3. PICK e \in Entries : e = Message(n, s).entries
    BY <2>1, <2>2 DEF Messages
  <2>4. Broadcasts(n, Broadcast(n, e, nx, mt)) /\ Reply(n, s, Broadcast(n, e, nx, mt).out)
    BY <1>4, <2>3 DEF LeaderAppends, nx, mt
  <2>5. client_queue' \in [Nodes -> Seq(Entries)]
    BY <1>0, <1>4 DEF TypeOK, LeaderAppends
  <2>6. Broadcast(n, e, nx, mt).out \in Outputs
    BY <1>0, <1>1, BroadcastMade
  <2>7. Sockets'
    BY <1>0, <2>1, <2>4, <2>6, SocketsReply
  <2> QED BY <1>2, <2>4, <2>5, <2>7
<1> QED BY <1>3, <1>4

(* A follower appends.  What the message names as predecessor it has.      *)
LEMMA AppendsStep ==
  ASSUME IInv, NEW n \in Nodes, NEW s \in Nodes, FollowerAppends(n, s)
  PROVE  IInv'
<1> DEFINE m == Message(n, s)
           ok == m.term >= current_term[n] /\ Verified(n, m)
           commits == ok /\ m.leader_commit > commit_index[n]
<1>0. /\ TypeOK /\ Sockets /\ Counted /\ Logs /\ NextInLog /\ Incoming(n, s)
      /\ current_role[n] = "follower"
      /\ UNCHANGED <<nodeVars, leaderVars, client_queue, ballots>>
  BY DEF IInv, FollowerAppends, Receives
<1>1. m \in Sound /\ m \in Messages /\ m.type = "AppendEntries"
  BY <1>0, MessageSound DEF FollowerAppends, Receives
<1>2. /\ m.prev_log_index \in Indices /\ m.prev_log_index < MaxLog
      /\ m.entries \in Entries
  BY <1>1 DEF Sound, Messages
<1>3. m.entries.term \in Terms
  BY <1>2 DEF Entries
<1>4. /\ log' = IF ok THEN [log EXCEPT ![n] =
                   Append(SubSeq(@, 1, m.prev_log_index + 1), m.entries)]
                ELSE log
      /\ IF commits THEN CommitEntry(n, m.prev_log_index, m.entries.term)
         ELSE UNCHANGED <<commit_index, last_applied_term>>
      /\ Reply(n, s, To(s, Acknowledge(ok)))
  BY DEF FollowerAppends
<1>5. ok \in BOOLEAN
  OBVIOUS
<1>6. ok => Len(log[n]) > m.prev_log_index
  BY DEF Verified
<1> HIDE DEF ok
<1>7. Sockets'
  <2>1. To(s, Acknowledge(ok)) \in Outputs
    BY <1>5, SmallMessages, OutputsBuilt
  <2> QED BY <1>0, <1>4, <2>1, SocketsReply
<1>8. /\ commit_index' \in [Nodes -> Indices]
      /\ last_applied_term' \in [Nodes -> Terms]
  <2> HIDE DEF commits
  <2> QED BY <1>0, <1>2, <1>3, <1>4 DEF TypeOK, CommitEntry
<1>9. /\ log' \in [Nodes -> Seq(Entries)] /\ Logs'
      /\ \A q \in Nodes : q # n => log'[q] = log[q]
  <2>1. CASE ~ok
    BY <1>0, <1>4, <2>1 DEF TypeOK, Logs
  <2>2. CASE ok
    <3> DEFINE p == m.prev_log_index
               l == SubSeq(log[n], 1, p + 1)
               k == Append(l, m.entries)
    <3>1. log[n] \in Seq(Entries) /\ p \in Nat /\ p < MaxLog /\ p < Len(log[n])
          /\ MaxLog \in Nat /\ Len(log[n]) \in Nat
      <4>1. log[n] \in Seq(Entries)
        BY <1>0 DEF TypeOK
      <4>2. Len(log[n]) \in Nat
        BY <4>1
      <4>3. p \in Nat /\ MaxLog \in Nat /\ p < MaxLog
        BY <1>2, Constants
      <4>4. p < Len(log[n])
        BY <1>6, <2>2, <4>2, <4>3
      <4> QED BY <4>1, <4>2, <4>3, <4>4
    <3>2. l \in Seq(Entries) /\ Len(l) = p + 1 /\ l[1] = log[n][1]
      <4> HIDE DEF p
      <4> QED BY <3>1, SubSeqProperties
    <3>3. log' = [log EXCEPT ![n] = k]
      BY <1>4, <2>2
    <3> HIDE DEF l, p
    <3>4. k \in Seq(Entries) /\ Len(k) = p + 2 /\ k[1] = log[n][1]
      BY <1>2, <3>1, <3>2
    <3> HIDE DEF k
    <3>5. log'[n] = k /\ \A q \in Nodes : q # n => log'[q] = log[q]
      BY <1>0, <3>3 DEF TypeOK
    <3>6. log' \in [Nodes -> Seq(Entries)]
      BY <1>0, <3>3, <3>4 DEF TypeOK
    <3>7. ASSUME NEW q \in Nodes
          PROVE  Len(log'[q]) \in 1..(MaxLog + 1) /\ log'[q][1].term = 1
      <4>1. CASE q = n
        <5>1. log[n][1].term = 1
          BY <1>0 DEF Logs
        <5>2. p + 2 \in 1..(MaxLog + 1)
          BY <3>1
        <5> QED BY <3>4, <3>5, <4>1, <5>1, <5>2
      <4>2. CASE q # n
        BY <1>0, <3>5, <4>2 DEF Logs
      <4> QED BY <4>1, <4>2
    <3> QED BY <3>5, <3>6, <3>7 DEF Logs
  <2> QED BY <2>1, <2>2
<1>10. net' \in [Nodes -> [Nodes -> Seq(Messages)]]
  BY <1>7, SocketsTyped
<1>11. TypeOK'
  BY <1>0, <1>8, <1>9, <1>10 DEF TypeOK, nodeVars, leaderVars
<1>12. NextInLog' /\ Counted'
  <2>1. current_role' = current_role /\ votes' = votes /\ next_index' = next_index
        /\ match_index' = match_index
    BY <1>0 DEF nodeVars, leaderVars
  <2>2. ASSUME NEW q \in Nodes, current_role'[q] = "leader"
        PROVE  /\ \A r \in Nodes : next_index'[q][r] # None =>
                                     next_index'[q][r] \in 1..MaxIndex(log'[q])
               /\ next_index'[q][q] = None
               /\ match_index'[q][q] = MaxIndex(log'[q])
    <3>1. q # n
      BY <1>0, <2>1, <2>2
    <3>2. log'[q] = log[q]
      BY <1>9, <3>1
    <3> QED BY <1>0, <2>1, <2>2, <3>2 DEF NextInLog
  <2>3. NextInLog'
    BY <2>2 DEF NextInLog, MaxIndex
  <2> QED BY <1>0, <2>1, <2>3 DEF Counted, Majority
<1> QED BY <1>7, <1>9, <1>11, <1>12 DEF IInv

LEMMA CommitsStep ==
  ASSUME IInv, NEW n \in Nodes, NEW s \in Nodes, FollowerCommits(n, s)
  PROVE  IInv'
<1> DEFINE m == Message(n, s)
<1>0. /\ TypeOK /\ Sockets /\ Counted /\ Logs /\ NextInLog /\ Incoming(n, s)
      /\ UNCHANGED <<nodeVars, log, leaderVars, client_queue, ballots>>
      /\ CommitEntry(n, m.index, m.term) /\ Reply(n, s, Nothing)
  BY DEF IInv, FollowerCommits, Receives
<1>1. m \in Messages /\ m.type = "Committal"
  BY <1>0, MessageSound DEF FollowerCommits, Receives
<1>2. m.index \in Indices /\ m.term \in Terms
  BY <1>1 DEF Messages
<1>3. Sockets'
  BY <1>0, OutputsBuilt, SocketsReply
<1>4. net' \in [Nodes -> [Nodes -> Seq(Messages)]]
  BY <1>3, SocketsTyped
<1>5. TypeOK'
  BY <1>0, <1>2, <1>4 DEF TypeOK, CommitEntry, nodeVars, leaderVars
<1>6. Logs' /\ NextInLog' /\ Counted'
  BY <1>0 DEF Logs, NextInLog, MaxIndex, Counted, Majority, nodeVars, leaderVars
<1> QED BY <1>3, <1>5, <1>6 DEF IInv

-----------------------------------------------------------------------------
(* Acknowledgements.                                                       *)

LEMMA LeastOf ==
  ASSUME NEW S \in SUBSET Nat, S # {}
  PROVE  \E n \in S : \A m \in S : n <= m
<1>1. PICK n \in S : \A m \in S : <<m, n>> \notin OpToRel(<, Nat)
  BY WFMin, NatLessThanWellFounded
<1>2. \A m \in S : ~(m < n)
  BY <1>1 DEF OpToRel
<1> QED BY <1>2

(* The index that the loop over log_lengths ends with is one that every    *)
(* node has: the lowest of match_index always passes the test.             *)
LEMMA CommittableIsLeast ==
  ASSUME NEW match \in [Nodes -> Indices]
  PROVE  /\ MaxCommittable(match) \in Indices
         /\ \A r \in Nodes : MaxCommittable(match) <= match[r]
<1> DEFINE lengths == {match[r] : r \in Nodes}
           enough == {i \in lengths :
                        Cardinality({r \in Nodes : i <= match[r]}) >= Majority + 1}
           c == CHOOSE i \in enough : \A k \in enough : i <= k
<1>1. lengths \in SUBSET Nat /\ lengths \subseteq Indices /\ lengths # {}
  <2>1. PICK q : q \in Nodes
    BY RaftAssumption
  <2>2. match[q] \in lengths
    BY <2>1
  <2>3. lengths \subseteq Indices
    OBVIOUS
  <2> HIDE DEF lengths
  <2> QED BY <2>2, <2>3, Constants
<1>2. PICK i \in lengths : \A k \in lengths : i <= k
  BY <1>1, LeastOf
<1>3. {r \in Nodes : i <= match[r]} = Nodes
  BY <1>2
<1>4. i \in enough
  BY <1>2, <1>3, Constants
<1>5. \A k \in enough : i <= k
  BY <1>2
<1>6. c \in enough /\ \A k \in enough : c <= k
  BY <1>4, <1>5
<1>7. c = MaxCommittable(match)
  BY DEF MaxCommittable
<1>8. c \in lengths /\ c <= i
  BY <1>4, <1>6
<1>9. \A r \in Nodes : match[r] \in lengths
  OBVIOUS
<1> HIDE DEF c, lengths, enough
<1>10. c \in Nat /\ i \in Nat /\ \A r \in Nodes : match[r] \in Nat /\ i <= match[r]
  BY <1>1, <1>2, <1>8, <1>9
<1>11. \A r \in Nodes : c <= match[r]
  BY <1>8, <1>10
<1> QED BY <1>1, <1>7, <1>8, <1>11

LEMMA AckedStep ==
  ASSUME IInv, NEW n \in Nodes, NEW s \in Nodes, LeaderAcked(n, s)
  PROVE  IInv'
<1>0. /\ TypeOK /\ Sockets /\ Counted /\ Logs /\ NextInLog /\ Incoming(n, s)
      /\ current_role[n] = "leader"
      /\ UNCHANGED <<nodeVars, client_queue, ballots>>
  BY DEF IInv, LeaderAcked, Receives
<1> DEFINE success == Message(n, s).success
           i == next_index[n][s]
           moved == IF success THEN i + 1 ELSE IF i # 1 THEN i - 1 ELSE i
           behind == moved <= MaxIndex(log[n])
           match == IF success THEN [match_index[n] EXCEPT ![s] = i]
                    ELSE match_index[n]
           commit == MaxCommittable(match)
           commits == commit > commit_index[n]
           t == Entry(log[n], commit).term
           first == IF behind THEN To(s, AppendEntries(n, moved - 1, log[n]))
                    ELSE Nothing
           second == IF commits THEN ToAll(Committal(commit, t)) ELSE Nothing
<1>1. CASE i = None
  <2>1. Reply(n, s, Nothing) /\ UNCHANGED <<logVars, leaderVars>>
    BY <1>1 DEF LeaderAcked
  <2>2. Sockets'
    BY <1>0, <2>1, OutputsBuilt, SocketsReply
  <2>3. Counted'
    BY <1>0 DEF Counted, Majority, nodeVars
  <2> QED BY <1>0, <2>1, <2>2, <2>3, RolesFrame DEF TypeOK, nodeVars
<1>2. CASE i # None
  <2>1. /\ next_index' = [next_index EXCEPT ![n][s] = IF behind THEN moved ELSE None]
        /\ match_index' = [match_index EXCEPT ![n] = match]
        /\ IF commits THEN CommitEntry(n, commit, t)
           ELSE UNCHANGED <<commit_index, last_applied_term>>
        /\ Reply(n, s, Then(first, second))
        /\ UNCHANGED log
    BY <1>2 DEF LeaderAcked
  <2>2. /\ s # n /\ i \in 1..MaxIndex(log[n])
        /\ match_index[n] \in [Nodes -> Indices]
        /\ match_index[n][n] = MaxIndex(log[n])
    BY <1>0, <1>2 DEF NextInLog, TypeOK
  <2>3. /\ log[n] \in Seq(Entries) /\ Len(log[n]) \in 1..(MaxLog + 1)
        /\ MaxIndex(log[n]) = Len(log[n]) - 1 /\ MaxLog \in Nat
    BY <1>0, Constants DEF TypeOK, Logs, MaxIndex
  <2>4. i \in Nat /\ i >= 1 /\ i \in Indices
    BY <2>2, <2>3 DEF Indices
  <2>5. match \in [Nodes -> Indices] /\ match[n] = MaxIndex(log[n])
    BY <2>2, <2>4
  <2>6. moved \in Nat /\ moved >= 1
    BY <2>4
  <2>7. behind => moved \in 1..MaxIndex(log[n]) /\ moved \in Indices
    <3> HIDE DEF moved
    <3> QED BY <2>3, <2>6 DEF Indices
  <2> HIDE DEF i, match, moved
  <2>8. commit \in Indices /\ commit <= MaxIndex(log[n])
    BY <2>5, CommittableIsLeast
  <2> HIDE DEF commit
  <2>9. t \in Terms
    <3>1. commit + 1 \in 1..Len(log[n])
      BY <2>3, <2>8, Constants
    <3>2. Entry(log[n], commit) \in Entries
      BY <2>3, <3>1 DEF Entry
    <3> QED BY <3>2 DEF Entries
  <2> HIDE DEF t
  <2>10. first \in Outputs
    <3>1. CASE behind
      <4>1. moved - 1 \in Nat /\ moved - 1 < MaxLog /\ (moved - 1) + 1 < Len(log[n])
        BY <2>3, <2>6, <2>7, <3>1
      <4>2. AppendEntries(n, moved - 1, log[n]) \in Sound
        BY <1>0, <2>3, <4>1, AppendSound
      <4>3. To(s, AppendEntries(n, moved - 1, log[n])) \in Outputs
        BY <4>2, OutputsBuilt
      <4> QED BY <3>1, <4>3
    <3>2. CASE ~behind
      BY <3>2, OutputsBuilt
    <3> QED BY <3>1, <3>2
  <2>11. second \in Outputs
    <3>1. ToAll(Committal(commit, t)) \in Outputs
      BY <2>8, <2>9, SmallMessages, OutputsBuilt
    <3> QED BY <3>1, OutputsBuilt
  <2> HIDE DEF first, second
  <2>12. Then(first, second) \in Outputs
    BY <2>10, <2>11, OutputsBuilt
  <2>13. Sockets'
    BY <1>0, <2>1, <2>12, SocketsReply
  <2>14. net' \in [Nodes -> [Nodes -> Seq(Messages)]]
    BY <2>13, SocketsTyped
  <2>15. /\ commit_index' \in [Nodes -> Indices]
         /\ last_applied_term' \in [Nodes -> Terms]
    <3> HIDE DEF commits
    <3>1. commit_index' \in [Nodes -> Indices]
      BY <1>0, <2>1, <2>8, <2>9 DEF TypeOK, CommitEntry
    <3>2. last_applied_term' \in [Nodes -> Terms]
      BY <1>0, <2>1, <2>8, <2>9 DEF TypeOK, CommitEntry
    <3> QED BY <3>1, <3>2
  <2> DEFINE x == IF behind THEN moved ELSE None
  <2>16. x \in Indices \cup {None} /\ (x # None => x \in 1..MaxIndex(log[n]))
    BY <2>7
  <2>17. next_index' = [next_index EXCEPT ![n][s] = x]
    BY <2>1
  <2> HIDE DEF x, behind
  <2>18. /\ next_index \in [Nodes -> [Nodes -> Indices \cup {None}]]
        /\ match_index \in [Nodes -> [Nodes -> Indices]]
    BY <1>0 DEF TypeOK
  <2>19. match_index' = [match_index EXCEPT ![n] = match]
    BY <2>1
  <2>20. /\ next_index' \in [Nodes -> [Nodes -> Indices \cup {None}]]
         /\ match_index' \in [Nodes -> [Nodes -> Indices]]
    BY <2>5, <2>16, <2>17, <2>18, <2>19
  <2>21. TypeOK'
    BY <1>0, <2>1, <2>14, <2>15, <2>20 DEF TypeOK, nodeVars
  <2>22. /\ \A q, r \in Nodes : next_index'[q][r] =
              IF q = n /\ r = s THEN x ELSE next_index[q][r]
         /\ \A q \in Nodes : match_index'[q] = IF q = n THEN match ELSE match_index[q]
    BY <2>17, <2>18, <2>19
  <2>23. ASSUME NEW q \in Nodes, current_role'[q] = "leader"
         PROVE  /\ \A r \in Nodes : next_index'[q][r] # None =>
                                      next_index'[q][r] \in 1..MaxIndex(log'[q])
                /\ next_index'[q][q] = None
                /\ match_index'[q][q] = MaxIndex(log'[q])
    <3>1. current_role[q] = "leader" /\ log' = log
      BY <1>0, <2>1, <2>23 DEF nodeVars
    <3>2. /\ \A r \in Nodes : next_index[q][r] # None =>
                                next_index[q][r] \in 1..MaxIndex(log[q])
          /\ next_index[q][q] = None
          /\ match_index[q][q] = MaxIndex(log[q])
      BY <1>0, <3>1 DEF NextInLog
    <3>3. CASE q = n
      BY <2>2, <2>5, <2>16, <2>22, <3>1, <3>2, <3>3
    <3>4. CASE q # n
      BY <2>22, <3>1, <3>2, <3>4
    <3> QED BY <3>3, <3>4
  <2>24. NextInLog'
    BY <2>23 DEF NextInLog, MaxIndex
  <2>25. Logs' /\ Counted'
    BY <1>0, <2>1 DEF Logs, Counted, Majority, nodeVars
  <2> QED BY <2>13, <2>21, <2>24, <2>25 DEF IInv
<1> QED BY <1>1, <1>2

-----------------------------------------------------------------------------

LEMMA RaftInvariant == Spec => []IInv
<1>1. Init => IInv
  BY InitOK
<1>2. IInv /\ [Next]_vars => IInv'
  <2> SUFFICES ASSUME IInv, [Next]_vars PROVE IInv'
    OBVIOUS
  <2>1. CASE UNCHANGED vars
    <3>1. UNCHANGED <<current_role, current_term, voted_for, votes, log, commit_index,
                      last_applied_term, next_index, match_index, client_queue, net,
                      ballots>>
      BY <2>1 DEF vars, nodeVars, logVars, leaderVars
    <3> QED BY <3>1 DEF IInv, TypeOK, Sockets, Logs, Counted, Majority, NextInLog, MaxIndex
  <2>2. ASSUME NEW n \in Nodes,
               \/ StartElection(n) \/ SendHeartbeat(n) \/ LeaderTakes(n)
               \/ \E v \in Values : ClientRequest(n, v)
        PROVE  IInv'
    BY <2>2, ElectionStep, QuietStep, RequestStep
  <2>3. ASSUME NEW n \in Nodes, NEW s \in Nodes, Resend(n, s) \/ Lose(n, s)
        PROVE  IInv'
    BY <2>3, QuietStep
  <2>4. ASSUME NEW n \in Nodes, NEW s \in Nodes, Handle(n, s)
        PROVE  IInv'
    BY <2>4, VotesStep, HeartbeatStep, AppendsStep, CommitsStep, CountsStep, YieldStep,
       StepDownStep, AckedStep, RequestStep, QuietStep DEF Handle
  <2> QED BY <2>1, <2>2, <2>3, <2>4 DEF Next
<1> QED BY <1>1, <1>2, PTL DEF Spec

(* The variables keep their types: no message raises votes_for_me above    *)
(* the number of nodes, and what _leader reads at the index it commits is  *)
(* an entry of its log.                                                    *)
THEOREM RaftTyped == Spec => []TypeOK
<1>1. IInv => TypeOK
  BY DEF IInv
<1> QED BY <1>1, RaftInvariant, PTL

(* _leader indexes its log within bounds, whichever entry an               *)
(* acknowledgement was for: next_index of another node stays between 1 and *)
(* the last index, a node that is up to date has none, and a leader itself *)
(* is.                                                                     *)
THEOREM LeadersIndexTheirLog == Spec => []NextInLog
<1>1. IInv => NextInLog
  BY DEF IInv
<1> QED BY <1>1, RaftInvariant, PTL

(* No append cuts off the entry that a log was created with, so            *)
(* self.log[-1] and self.log[0] exist in every role.                       *)
THEOREM LogsKeepTheirFirst == Spec => []FirstEntryKept
<1>1. IInv => FirstEntryKept
  <2> SUFFICES ASSUME IInv, NEW n \in Nodes PROVE log[n] # <<>> /\ log[n][1].term = 1
    BY DEF FirstEntryKept
  <2>1. log[n] \in Seq(Entries) /\ Len(log[n]) \in 1..(MaxLog + 1) /\ log[n][1].term = 1
    BY DEF IInv, TypeOK, Logs
  <2> QED BY <2>1
<1> QED BY <1>1, RaftInvariant, PTL

-----------------------------------------------------------------------------
(* Steps.                                                                  *)

(* A node changes its term only to a later one.                            *)
LEMMA TermStep ==
  ASSUME IInv, NEW n \in Nodes, NEW s \in Nodes,
         \/ StartElection(n) \/ SendHeartbeat(n) \/ LeaderTakes(n)
         \/ Resend(n, s) \/ Handle(n, s) \/ Lose(n, s)
         \/ \E v \in Values : ClientRequest(n, v)
  PROVE  \A q \in Nodes : current_term'[q] >= current_term[q]
<1>0. /\ current_term \in [Nodes -> Terms] /\ Sockets
      /\ \A t \in Terms : t \in Nat
      /\ \A q \in Nodes : current_term[q] \in Terms /\ current_term[q] \in Nat
  BY Constants DEF IInv, TypeOK
<1>1. CASE UNCHANGED current_term
  BY <1>0, <1>1
<1>2. ASSUME NEW t \in Terms, t >= current_term[n],
             current_term' = [current_term EXCEPT ![n] = t]
      PROVE  \A q \in Nodes : current_term'[q] >= current_term[q]
  <2>1. t \in Nat
    BY <1>0
  <2>2. \A q \in Nodes : current_term'[q] = IF q = n THEN t ELSE current_term[q]
    BY <1>0, <1>2
  <2> QED BY <1>0, <1>2, <2>1, <2>2
<1>3. ASSUME Incoming(n, s), Message(n, s).type \in {"RequestVotes", "Heartbeat"}
      PROVE  Message(n, s).term \in Terms
  <2>1. Message(n, s) \in Messages
    BY <1>0, <1>3, MessageSound
  <2> QED BY <1>3, <2>1 DEF Messages
<1>4. CASE FollowerVotes(n, s)
  <2> DEFINE m == Message(n, s)
             t == IF m.term > current_term[n] THEN m.term ELSE current_term[n]
  <2>1. m.term \in Terms
    BY <1>3, <1>4 DEF FollowerVotes, Receives
  <2>2. t \in Terms /\ t >= current_term[n]
    BY <1>0, <2>1
  <2>3. current_term' = [current_term EXCEPT ![n] = t]
    BY <1>4 DEF FollowerVotes, IncrementTerm
  <2> HIDE DEF t
  <2> QED BY <1>2, <2>2, <2>3
<1>5. CASE FollowerHeartbeat(n, s)
  <2> DEFINE t == Message(n, s).term
  <2>1. t \in Terms
    BY <1>3, <1>5 DEF FollowerHeartbeat, Receives
  <2>2. \/ t > current_term[n] /\ current_term' = [current_term EXCEPT ![n] = t]
        \/ UNCHANGED current_term
    BY <1>5 DEF FollowerHeartbeat, IncrementTerm
  <2> HIDE DEF t
  <2>3. t > current_term[n] => t >= current_term[n]
    BY <1>0, <2>1
  <2> QED BY <1>1, <1>2, <2>1, <2>2, <2>3
<1>6. CASE CandidateStepsDown(n, s) \/ LeaderStepsDown(n, s)
  <2> DEFINE t == Message(n, s).term
  <2>1. t \in Terms
    BY <1>3, <1>6 DEF CandidateStepsDown, LeaderStepsDown, Receives
  <2>2. \/ t > current_term[n] /\ current_term' = [current_term EXCEPT ![n] = t]
        \/ UNCHANGED current_term
    BY <1>6 DEF CandidateStepsDown, LeaderStepsDown, StepDown, IncrementTerm
  <2> HIDE DEF t
  <2>3. t > current_term[n] => t >= current_term[n]
    BY <1>0, <2>1
  <2> QED BY <1>1, <1>2, <2>1, <2>2, <2>3
<1>7. CASE CandidateYields(n, s)
  <2> DEFINE t == Message(n, s).term
  <2>1. t \in Terms
    BY <1>3, <1>7 DEF CandidateYields, Receives
  <2>2. \/ t >= current_term[n] /\ current_term' = [current_term EXCEPT ![n] = t]
        \/ UNCHANGED current_term
    BY <1>7 DEF CandidateYields, IncrementTerm
  <2> HIDE DEF t
  <2>3. t > current_term[n] => t >= current_term[n]
    BY <1>0, <2>1
  <2> QED BY <1>1, <1>2, <2>1, <2>2, <2>3
<1>8. CASE StartElection(n)
  <2>1. current_term[n] + 1 \in Terms
    BY <1>0, <1>8, Constants DEF StartElection, Terms
  <2>2. current_term[n] + 1 >= current_term[n]
    BY <1>0
  <2>3. current_term' = [current_term EXCEPT ![n] = current_term[n] + 1]
    BY <1>8 DEF StartElection, IncrementTerm
  <2> QED BY <1>2, <2>1, <2>2, <2>3
<1> QED BY <1>1, <1>4, <1>5, <1>6, <1>7, <1>8
        DEF SendHeartbeat, LeaderTakes, Resend, Handle, Lose, ClientRequest, FollowerAppends,
            FollowerCommits, CandidateCounts, LeaderAcked, LeaderAppends, Ignore, nodeVars

(* A leader that stays one only adds to its log.                           *)
LEMMA LeaderLogStep ==
  ASSUME IInv, NEW n \in Nodes, NEW s \in Nodes,
         \/ StartElection(n) \/ SendHeartbeat(n) \/ LeaderTakes(n)
         \/ Resend(n, s) \/ Handle(n, s) \/ Lose(n, s)
         \/ \E v \in Values : ClientRequest(n, v),
         NEW q \in Nodes, current_role[q] = "leader"
  PROVE  /\ Len(log'[q]) >= Len(log[q])
         /\ SubSeq(log'[q], 1, Len(log[q])) = log[q]
<1>0. log \in [Nodes -> Seq(Entries)] /\ log[q] \in Seq(Entries) /\ Sockets
  BY DEF IInv, TypeOK
<1>1. CASE log'[q] = log[q]
  <2>1. Len(log[q]) \in Nat /\ SubSeq(log[q], 1, Len(log[q])) = log[q]
    BY <1>0
  <2> QED BY <1>1, <2>1
<1>2. ASSUME NEW e \in Entries, log'[q] = Append(log[q], e)
      PROVE  /\ Len(log'[q]) >= Len(log[q])
             /\ SubSeq(log'[q], 1, Len(log[q])) = log[q]
  <2>1. PICK l \in Seq(Entries) : l = log[q]
    BY <1>0
  <2>2. /\ Len(Append(l, e)) >= Len(l)
        /\ SubSeq(Append(l, e), 1, Len(l)) = l
    OBVIOUS
  <2> QED BY <1>2, <2>1, <2>2
<1>3. CASE LeaderTakes(n)
  <2>1. client_queue[n] \in Seq(Entries) /\ client_queue[n] # <<>>
    BY <1>3 DEF IInv, TypeOK, LeaderTakes
  <2>2. PICK e \in Entries : e = Head(client_queue[n])
    BY <2>1
  <2>3. log' = [log EXCEPT ![n] = Append(log[n], e)]
    BY <1>3, <2>2 DEF LeaderTakes, Broadcasts, Broadcast
  <2> QED BY <1>0, <1>1, <1>2, <2>3
<1>4. CASE LeaderAppends(n, s)
  <2>1. Incoming(n, s) /\ Message(n, s).type = "ClientRequest"
    BY <1>4 DEF LeaderAppends, Receives
  <2>2. Message(n, s) \in Messages
    BY <1>0, <2>1, MessageSound
  <2>3. PICK e \in Entries : e = Message(n, s).entries
    BY <2>1, <2>2 DEF Messages
  <2>4. log' = [log EXCEPT ![n] = Append(log[n], e)]
    BY <1>4, <2>3 DEF LeaderAppends, Broadcasts, Broadcast
  <2> QED BY <1>0, <1>1, <1>2, <2>4
<1>5. CASE FollowerAppends(n, s) \/ CandidateCounts(n, s)
  <2>1. current_role[n] # "leader"
    BY <1>5 DEF FollowerAppends, CandidateCounts, Receives
  <2>2. n # q
    BY <2>1
  <2>3. log'[q] = log[q]
    BY <1>0, <1>5, <2>2 DEF FollowerAppends, CandidateCounts, Broadcasts
  <2> QED BY <1>1, <2>3
<1>6. CASE UNCHANGED log
  BY <1>1, <1>6
<1> QED BY <1>3, <1>4, <1>5, <1>6
        DEF StartElection, SendHeartbeat, Resend, Handle, Lose, ClientRequest, FollowerVotes,
            FollowerHeartbeat, FollowerCommits, CandidateYields, CandidateStepsDown,
            LeaderStepsDown, StepDown, LeaderAcked, Ignore, logVars

(* A step of the system is one of a node, and perhaps of one it hears.     *)
LEMMA StepOfANode ==
  ASSUME Next
  PROVE  \E n, s \in Nodes :
           \/ StartElection(n) \/ SendHeartbeat(n) \/ LeaderTakes(n)
           \/ Resend(n, s) \/ Handle(n, s) \/ Lose(n, s)
           \/ \E v \in Values : ClientRequest(n, v)
BY DEF Next

(* A message of an old term never takes a node back to it, in any role.    *)
THEOREM TermsOnlyGrow == Spec => TermsGrow
<1>1. IInv /\ [Next]_vars =>
        [\A n \in Nodes : current_term'[n] >= current_term[n]]_vars
  <2> SUFFICES ASSUME IInv, Next
               PROVE  \A n \in Nodes : current_term'[n] >= current_term[n]
    OBVIOUS
  <2> QED BY StepOfANode, TermStep
<1> QED BY <1>1, RaftInvariant, PTL DEF Spec, TermsGrow

(* A leader only adds to its log: the append entries it sends to itself,   *)
(* and late ones of other leaders, change nothing.                         *)
THEOREM LeadersKeepTheirLog == Spec => LeaderKeepsLog
<1>1. IInv /\ [Next]_vars =>
        [\A n \in Nodes :
           current_role[n] = "leader" /\ current_role'[n] = "leader" =>
             /\ Len(log'[n]) >= Len(log[n])
             /\ SubSeq(log'[n], 1, Len(log[n])) = log[n]]_vars
  <2> SUFFICES ASSUME IInv, Next, NEW n \in Nodes, current_role[n] = "leader"
               PROVE  /\ Len(log'[n]) >= Len(log[n])
                      /\ SubSeq(log'[n], 1, Len(log[n])) = log[n]
    OBVIOUS
  <2> QED BY StepOfANode, LeaderLogStep
<1> QED BY <1>1, RaftInvariant, PTL DEF Spec, LeaderKeepsLog

=============================================================================
