------------------------------ MODULE RaftNode ------------------------------
(***************************************************************************)
(* RaftNode of the name service: elections, replication and commits as     *)
(* raft.py does them, between nodes joined by zmq PUB/SUB sockets.         *)
(*                                                                         *)
(* Each node runs one loop; a round of it handles at most one message and  *)
(* is one step here.  Entry i of self.log is log[n][i + 1].                *)
(* last_applied_index is left out: it always equals commit_index.  So are  *)
(* leader_id, which is only tested for being set, and log_hash, which      *)
(* nobody reads under the one id (-1) that entries have.  Of the value in  *)
(* an entry nothing below depends: run_node.py changes the dictionaries    *)
(* it gets from check_committed_entry in place, in the log itself.         *)
(***************************************************************************)
EXTENDS Naturals, Sequences, FiniteSets

CONSTANTS
  Nodes,     \* all_ids
  Values,    \* what clients ask to have stored
  Empty,     \* {}, the entry a new leader and an empty log begin with
  None,
  MaxTerm,   \* bound: terms
  MaxLog,    \* bound: entries of a log
  MaxMessages, \* bound: messages on the way when one more is sent
  MaxQueue   \* bound: requests in a client_queue

ASSUME RaftAssumption ==
  /\ IsFiniteSet(Nodes) /\ Nodes # {}
  /\ MaxTerm \in Nat \ {0} /\ MaxLog \in Nat /\ MaxMessages \in Nat /\ MaxQueue \in Nat
  /\ None \notin Nodes \cup Nat

VARIABLES
  current_role, current_term, voted_for,
  votes,           \* votes_for_me
  log, commit_index, last_applied_term,
  next_index, match_index,
  client_queue,
  net,             \* net[s][r]: on the way from s to r, in order
  ballots          \* the votes granted so far (history)

nodeVars == <<current_role, current_term, voted_for, votes>>
logVars == <<log, commit_index, last_applied_term>>
leaderVars == <<next_index, match_index>>
vars == <<nodeVars, logVars, leaderVars, client_queue, net, ballots>>

Terms == 1..MaxTerm
Entries == [term : Terms, entry : Values \cup {Empty}]
Indices == 0..MaxLog

Messages ==
  [type : {"RequestVotes"}, term : Terms, last_log_index : Indices,
   last_log_term : Terms]
  \cup [type : {"Vote"}, term : Terms, granted : BOOLEAN]
  \cup [type : {"Heartbeat"}, term : Terms]
  \cup [type : {"AppendEntries"}, term : Terms, prev_log_index : Indices,
        prev_log_term : Terms, entries : Entries, leader_commit : Indices]
  \cup [type : {"Acknowledge"}, success : BOOLEAN]
  \cup [type : {"Committal"}, index : Indices, term : Terms]
  \cup [type : {"ClientRequest"}, entries : Entries]

MaxIndex(l) == Len(l) - 1
Entry(l, i) == l[i + 1]

(* Types: no message raises votes_for_me above the number of nodes, or an  *)
(* index of a node above the last one a log can have.                      *)
TypeOK ==
  /\ current_role \in [Nodes -> {"follower", "candidate", "leader"}]
  /\ current_term \in [Nodes -> Terms]
  /\ voted_for \in [Nodes -> Nodes \cup {None}]
  /\ votes \in [Nodes -> 0..Cardinality(Nodes)]
  /\ log \in [Nodes -> Seq(Entries)]
  /\ commit_index \in [Nodes -> Indices]
  /\ last_applied_term \in [Nodes -> Terms]
  /\ next_index \in [Nodes -> [Nodes -> Indices \cup {None}]]
  /\ match_index \in [Nodes -> [Nodes -> Indices]]
  /\ client_queue \in [Nodes -> Seq(Entries)]
  /\ net \in [Nodes -> [Nodes -> Seq(Messages)]]
  /\ ballots \subseteq [by : Nodes, for : Nodes, term : Terms]

Init ==
  /\ current_role = [n \in Nodes |-> "follower"]
  /\ current_term = [n \in Nodes |-> 1]
  /\ voted_for = [n \in Nodes |-> None]
  /\ votes = [n \in Nodes |-> 0]
  /\ log = [n \in Nodes |-> <<[term |-> 1, entry |-> Empty]>>]
  /\ commit_index = [n \in Nodes |-> 0]
  /\ last_applied_term = [n \in Nodes |-> 1]
  /\ next_index = [n \in Nodes |-> [r \in Nodes |-> None]]
  /\ match_index = [n \in Nodes |-> [r \in Nodes |-> 0]]
  /\ client_queue = [n \in Nodes |-> <<>>]
  /\ net = [s \in Nodes |-> [r \in Nodes |-> <<>>]]
  /\ ballots = {}

-----------------------------------------------------------------------------
(* Sockets.  A PUB socket sends everything to everyone, the sender too;    *)
(* the Listener keeps what has its id, or none, as receiver.               *)

Nothing == [r \in Nodes |-> <<>>]
ToAll(m) == [r \in Nodes |-> <<m>>]
To(q, m) == [r \in Nodes |-> IF r = q THEN <<m>> ELSE <<>>]
Then(a, b) == [r \in Nodes |-> a[r] \o b[r]]

(* Few enough messages are on the way (a bound, not in the code).          *)
Room(w) ==
  Cardinality(UNION {{s} \X {r} \X (1..Len(w[s][r])) : s, r \in Nodes})
    < MaxMessages

Send(n, out) == Room(net) /\ net' = [net EXCEPT ![n] = Then(@, out)]

Incoming(n, s) == net[s][n] # <<>>
Message(n, s) == Head(net[s][n])

(* n takes the first message from s and sends out.                         *)
Reply(n, s, out) ==
  LET rest == [net EXCEPT ![s][n] = Tail(@)]
  IN  /\ out # Nothing => Room(rest)
      /\ net' = [rest EXCEPT ![n] = Then(@, out)]

(* Variant: every role answers every message.                              *)
ReceivesInAnyRole(n, s, r, k) == Incoming(n, s) /\ Message(n, s).type = k

(* A message of type k from s is next at n, whose role is r.               *)
Receives(n, s, r, k) ==
  /\ current_role[n] = r
  /\ Incoming(n, s) /\ Message(n, s).type = k

(* PUB sockets drop what they cannot deliver.                              *)
Lose(n, s) ==
  /\ Incoming(n, s)
  /\ net' = [net EXCEPT ![s][n] = Tail(@)]
  /\ UNCHANGED <<nodeVars, logVars, leaderVars, client_queue, ballots>>

Ballot(n, s, t, granted) ==
  ballots' = IF granted THEN ballots \cup {[by |-> n, for |-> s, term |-> t]}
             ELSE ballots

-----------------------------------------------------------------------------
(* Helpers that several roles use.                                         *)

SetRole(n, r) == current_role' = [current_role EXCEPT ![n] = r]

(* _increment_term, with the vote that may follow it.                      *)
IncrementTerm(n, s, t) ==
  /\ current_term' = [current_term EXCEPT ![n] = t]
  /\ voted_for' = [voted_for EXCEPT ![n] = s]

(* _commit_entry *)
CommitEntry(n, index, term) ==
  /\ commit_index' = [commit_index EXCEPT ![n] = index]
  /\ last_applied_term' = [last_applied_term EXCEPT ![n] = term]

(* The messages, as far as their receivers look at them.                   *)
RequestVotes(n, t) ==
  [type |-> "RequestVotes", term |-> t, last_log_index |-> commit_index[n],
   last_log_term |-> last_applied_term[n]]

Vote(t, granted) == [type |-> "Vote", term |-> t, granted |-> granted]

Heartbeat(n) == [type |-> "Heartbeat", term |-> current_term[n]]

Acknowledge(success) == [type |-> "Acknowledge", success |-> success]

Committal(index, term) == [type |-> "Committal", index |-> index, term |-> term]

Forwarded(entries) == [type |-> "ClientRequest", entries |-> entries]

AppendEntries(n, prev, l) ==
  [type |-> "AppendEntries", term |-> current_term[n], prev_log_index |-> prev,
   prev_log_term |-> Entry(l, prev).term, entries |-> Entry(l, prev + 1),
   leader_commit |-> commit_index[n]]

(* Variant: the leader does not take itself out of next_index.             *)
BroadcastWaitingForSelf(n, e, nx, mt) ==
  LET l == Append(log[n], e)
      max == MaxIndex(l)
  IN  [log  |-> l,
       next |-> [r \in Nodes |-> IF nx[r] = None THEN max ELSE nx[r]],
       match |-> [mt EXCEPT ![n] = max],
       out  |-> [r \in Nodes |-> IF nx[r] = None
                                 THEN <<AppendEntries(n, max - 1, l)>>
                                 ELSE <<>>]]

(* _broadcast_append_entries, from next_index nx and match_index mt: what  *)
(* the log and both arrays become, and the messages sent.                  *)
Broadcast(n, e, nx, mt) ==
  LET l == Append(log[n], e)
      max == MaxIndex(l)
  IN  [log  |-> l,
       next |-> [r \in Nodes |-> IF r = n THEN None
                                 ELSE IF nx[r] = None THEN max ELSE nx[r]],
       match |-> [mt EXCEPT ![n] = max],
       out  |-> [r \in Nodes |-> IF nx[r] = None
                                 THEN <<AppendEntries(n, max - 1, l)>>
                                 ELSE <<>>]]

Broadcasts(n, b) ==
  /\ log' = [log EXCEPT ![n] = b.log]
  /\ next_index' = [next_index EXCEPT ![n] = b.next]
  /\ match_index' = [match_index EXCEPT ![n] = b.match]

LogHasRoom(n) == Len(log[n]) <= MaxLog

-----------------------------------------------------------------------------
(* Clients: client_request stamps the value with this node's term.         *)
ClientRequest(n, v) ==
  /\ Len(client_queue[n]) < MaxQueue
  /\ client_queue' = [client_queue EXCEPT
       ![n] = Append(@, [term |-> current_term[n], entry |-> v])]
  /\ UNCHANGED <<nodeVars, logVars, leaderVars, net, ballots>>

-----------------------------------------------------------------------------
(* Followers: _follower.                                                   *)

(* The voter's vote is spent on the sender even when it is refused.        *)
FollowerVotes(n, s) ==
  /\ Receives(n, s, "follower", "RequestVotes")
  /\ LET m == Message(n, s)
         newer == m.term > current_term[n]
         t == IF newer THEN m.term ELSE current_term[n]
         granted == /\ newer \/ voted_for[n] = None
                    /\ m.last_log_index >= commit_index[n]
                    /\ m.last_log_term >= last_applied_term[n]
     IN  /\ IncrementTerm(n, s, t)
         /\ Reply(n, s, To(s, Vote(t, granted)))
         /\ Ballot(n, s, t, granted)
  /\ UNCHANGED <<current_role, votes, logVars, leaderVars, client_queue>>

(* A heartbeat may raise the term, and sends one client request on.        *)
FollowerHeartbeat(n, s) ==
  /\ Receives(n, s, "follower", "Heartbeat")
  /\ IF Message(n, s).term > current_term[n]
     THEN IncrementTerm(n, None, Message(n, s).term)
     ELSE UNCHANGED <<current_term, voted_for>>
  /\ IF client_queue[n] = <<>>
     THEN Reply(n, s, Nothing) /\ UNCHANGED client_queue
     ELSE /\ Reply(n, s, To(s, Forwarded(Head(client_queue[n]))))
          /\ client_queue' = [client_queue EXCEPT ![n] = Tail(@)]
  /\ UNCHANGED <<current_role, votes, logVars, leaderVars, ballots>>

(* _verify_entry *)
Verified(n, m) ==
  /\ Len(log[n]) > m.prev_log_index
  /\ Entry(log[n], m.prev_log_index).term = m.prev_log_term

(* Variant: the log is cut before prev_log_index.                          *)
FollowerAppendsShort(n, s) ==
  /\ Receives(n, s, "follower", "AppendEntries")
  /\ Verified(n, Message(n, s))
  /\ log' = [log EXCEPT ![n] = Append(SubSeq(@, 1, Message(n, s).prev_log_index),
                                     Message(n, s).entries)]
  /\ Reply(n, s, To(s, Acknowledge(TRUE)))
  /\ UNCHANGED <<nodeVars, commit_index, last_applied_term, leaderVars,
                 client_queue, ballots>>

(* The log is cut after prev_log_index and gets the entry.  A commit that  *)
(* comes with it is of prev_log_index, under the term of the new entry.    *)
FollowerAppends(n, s) ==
  /\ Receives(n, s, "follower", "AppendEntries")
  /\ LET m == Message(n, s)
         ok == m.term >= current_term[n] /\ Verified(n, m)
         commits == ok /\ m.leader_commit > commit_index[n]
     IN  /\ log' = IF ok THEN [log EXCEPT ![n] =
                      Append(SubSeq(@, 1, m.prev_log_index + 1), m.entries)]
                   ELSE log
         /\ IF commits
            THEN CommitEntry(n, m.prev_log_index, m.entries.term)
            ELSE UNCHANGED <<commit_index, last_applied_term>>
         /\ Reply(n, s, To(s, Acknowledge(ok)))
  /\ UNCHANGED <<nodeVars, leaderVars, client_queue, ballots>>

(* Variant: the index is taken for the length of the log.                  *)
FollowerCommitsNext(n, s) ==
  /\ Receives(n, s, "follower", "Committal")
  /\ CommitEntry(n, Message(n, s).index + 1, Message(n, s).term)
  /\ Reply(n, s, Nothing)
  /\ UNCHANGED <<nodeVars, log, leaderVars, client_queue, ballots>>

(* A committal is taken at its word.                                       *)
FollowerCommits(n, s) ==
  /\ Receives(n, s, "follower", "Committal")
  /\ CommitEntry(n, Message(n, s).index, Message(n, s).term)
  /\ Reply(n, s, Nothing)
  /\ UNCHANGED <<nodeVars, log, leaderVars, client_queue, ballots>>

(* No heartbeat in time, as a follower, or no victory, as a candidate:     *)
(* _candidate begins.                                                      *)
StartElection(n) ==
  /\ current_role[n] \in {"follower", "candidate"}
  /\ current_term[n] < MaxTerm
  /\ LET t == current_term[n] + 1
     IN  /\ SetRole(n, "candidate")
         /\ IncrementTerm(n, n, t)
         /\ votes' = [votes EXCEPT ![n] = 0]
         /\ Send(n, Then(ToAll(RequestVotes(n, t)), To(n, Vote(t, TRUE))))
         /\ Ballot(n, n, t, TRUE)
  /\ UNCHANGED <<logVars, leaderVars, client_queue>>

-----------------------------------------------------------------------------
(* Candidates: _candidate.                                                 *)

Majority == Cardinality(Nodes) \div 2

(* A vote is counted whatever its term.  With enough of them _leader       *)
(* begins: a heartbeat, fresh arrays and an empty entry for everyone.      *)
CandidateCounts(n, s) ==
  /\ Receives(n, s, "candidate", "Vote")
  /\ LET count == votes[n] + (IF Message(n, s).granted THEN 1 ELSE 0)
         e == [term |-> current_term[n], entry |-> Empty]
         b == Broadcast(n, e, [r \in Nodes |-> None],
                        [r \in Nodes |-> commit_index[n]])
     IN  /\ votes' = [votes EXCEPT ![n] = count]
         /\ IF count > Majority \/ Cardinality(Nodes) = 1
            THEN /\ LogHasRoom(n)
                 /\ SetRole(n, "leader")
                 /\ Broadcasts(n, b)
                 /\ Reply(n, s, Then(ToAll(Heartbeat(n)), b.out))
            ELSE Reply(n, s, Nothing) /\ UNCHANGED <<current_role, log, leaderVars>>
  /\ UNCHANGED <<current_term, voted_for, commit_index, last_applied_term,
                 client_queue, ballots>>

(* A candidate or leader that sees an election for a higher term votes     *)
(* for it, without a look at the logs, and steps down; it ignores others.  *)
StepDown(n, s) ==
  /\ LET t == Message(n, s).term
     IN  IF t > current_term[n]
         THEN /\ IncrementTerm(n, s, t)
              /\ SetRole(n, "follower")
              /\ Reply(n, s, To(s, Vote(t, TRUE)))
              /\ Ballot(n, s, t, TRUE)
         ELSE /\ Reply(n, s, Nothing)
              /\ UNCHANGED <<current_role, current_term, voted_for, ballots>>
  /\ UNCHANGED <<votes, logVars, leaderVars, client_queue>>

CandidateStepsDown(n, s) ==
  Receives(n, s, "candidate", "RequestVotes") /\ StepDown(n, s)

(* Variant: any heartbeat ends the candidacy, one of an old term too.      *)
CandidateYieldsToAny(n, s) ==
  /\ Receives(n, s, "candidate", "Heartbeat")
  /\ IncrementTerm(n, None, Message(n, s).term)
  /\ SetRole(n, "follower")
  /\ Reply(n, s, Nothing)
  /\ UNCHANGED <<votes, logVars, leaderVars, client_queue, ballots>>

(* A heartbeat of its term or a later one: someone else has been elected.  *)
(* The vote this node has cast in the term is forgotten.                   *)
CandidateYields(n, s) ==
  /\ Receives(n, s, "candidate", "Heartbeat")
  /\ LET t == Message(n, s).term
     IN  IF t >= current_term[n]
         THEN IncrementTerm(n, None, t) /\ SetRole(n, "follower")
         ELSE UNCHANGED <<current_role, current_term, voted_for>>
  /\ Reply(n, s, Nothing)
  /\ UNCHANGED <<votes, logVars, leaderVars, client_queue, ballots>>

-----------------------------------------------------------------------------
(* Leaders: _leader.                                                       *)

SendHeartbeat(n) ==
  /\ current_role[n] = "leader"
  /\ Send(n, ToAll(Heartbeat(n)))
  /\ UNCHANGED <<nodeVars, logVars, leaderVars, client_queue, ballots>>

(* resend_time has passed since r was heard from.                          *)
Resend(n, r) ==
  /\ current_role[n] = "leader"
  /\ next_index[n][r] # None
  /\ Send(n, To(r, AppendEntries(n, next_index[n][r] - 1, log[n])))
  /\ UNCHANGED <<nodeVars, logVars, leaderVars, client_queue, ballots>>

(* A request of its own clients,                                           *)
LeaderTakes(n) ==
  /\ current_role[n] = "leader"
  /\ client_queue[n] # <<>> /\ LogHasRoom(n)
  /\ client_queue' = [client_queue EXCEPT ![n] = Tail(@)]
  /\ LET b == Broadcast(n, Head(client_queue[n]), next_index[n], match_index[n])
     IN  Broadcasts(n, b) /\ Send(n, b.out)
  /\ UNCHANGED <<nodeVars, commit_index, last_applied_term, ballots>>

(* or one sent on by a follower, is appended with the term it came with.   *)
LeaderAppends(n, s) ==
  /\ Receives(n, s, "leader", "ClientRequest")
  /\ LogHasRoom(n)
  /\ LET b == Broadcast(n, Message(n, s).entries, next_index[n], match_index[n])
     IN  Broadcasts(n, b) /\ Reply(n, s, b.out)
  /\ UNCHANGED <<nodeVars, commit_index, last_applied_term, client_queue,
                 ballots>>

(* The loop over log_lengths goes from the highest index down and keeps    *)
(* the last one that enough nodes have: the lowest.                        *)
MaxCommittable(match) ==
  LET lengths == {match[r] : r \in Nodes}
      enough == {i \in lengths :
                   Cardinality({r \in Nodes : i <= match[r]}) >= Majority + 1}
  IN  CHOOSE i \in enough : \A k \in enough : i <= k

(* An acknowledgement moves next_index, whichever entry it was for, and    *)
(* fetches the next entry; then what has become committable is committed   *)
(* and announced to everyone.                                              *)
LeaderAcked(n, s) ==
  /\ Receives(n, s, "leader", "Acknowledge")
  /\ LET success == Message(n, s).success
         i == next_index[n][s]
         moved == IF success THEN i + 1 ELSE IF i # 1 THEN i - 1 ELSE i
         behind == moved <= MaxIndex(log[n])
         match == IF success THEN [match_index[n] EXCEPT ![s] = i]
                  ELSE match_index[n]
         commit == MaxCommittable(match)
         commits == commit > commit_index[n]
         t == Entry(log[n], commit).term
     IN  IF i = None THEN Reply(n, s, Nothing) /\ UNCHANGED <<logVars, leaderVars>>
         ELSE /\ next_index' = [next_index EXCEPT
                                  ![n][s] = IF behind THEN moved ELSE None]
              /\ match_index' = [match_index EXCEPT ![n] = match]
              /\ IF commits THEN CommitEntry(n, commit, t)
                 ELSE UNCHANGED <<commit_index, last_applied_term>>
              /\ Reply(n, s,
                   Then(IF behind THEN To(s, AppendEntries(n, moved - 1, log[n]))
                        ELSE Nothing,
                        IF commits THEN ToAll(Committal(commit, t)) ELSE Nothing))
              /\ UNCHANGED log
  /\ UNCHANGED <<nodeVars, client_queue, ballots>>

LeaderStepsDown(n, s) ==
  Receives(n, s, "leader", "RequestVotes") /\ StepDown(n, s)

-----------------------------------------------------------------------------
(* What a role does not handle it takes from the queue and drops.          *)
Handled(role) ==
  CASE role = "follower" -> {"RequestVotes", "Heartbeat", "AppendEntries",
                             "Committal"}
    [] role = "candidate" -> {"Vote", "RequestVotes", "Heartbeat"}
    [] role = "leader" -> {"Acknowledge", "ClientRequest", "RequestVotes"}

Ignore(n, s) ==
  /\ Incoming(n, s)
  /\ Message(n, s).type \notin Handled(current_role[n])
  /\ Reply(n, s, Nothing)
  /\ UNCHANGED <<nodeVars, logVars, leaderVars, client_queue, ballots>>

Handle(n, s) ==
  \/ FollowerVotes(n, s) \/ FollowerHeartbeat(n, s)
  \/ FollowerAppends(n, s) \/ FollowerCommits(n, s)
  \/ CandidateCounts(n, s) \/ CandidateYields(n, s)
  \/ CandidateStepsDown(n, s)
  \/ LeaderAcked(n, s) \/ LeaderAppends(n, s) \/ LeaderStepsDown(n, s)
  \/ Ignore(n, s)

Next ==
  \/ \E n \in Nodes : StartElection(n) \/ SendHeartbeat(n) \/ LeaderTakes(n)
  \/ \E n, r \in Nodes : Resend(n, r)
  \/ \E n, s \in Nodes : Handle(n, s) \/ Lose(n, s)
  \/ \E n \in Nodes, v \in Values : ClientRequest(n, v)

Spec == Init /\ [][Next]_vars

-----------------------------------------------------------------------------
(* Properties.                                                             *)

(* _leader indexes self.log with next_index and next_index - 1, when it    *)
(* resends and when an acknowledgement, perhaps an old or repeated one,    *)
(* has moved it: it stays inside the log, and the leader's own entry says  *)
(* that it has everything.                                                 *)
NextInLog ==
  \A n \in Nodes : current_role[n] = "leader" =>
    /\ \A r \in Nodes : next_index[n][r] # None =>
                           next_index[n][r] \in 1..MaxIndex(log[n])
    /\ next_index[n][n] = None
    /\ match_index[n][n] = MaxIndex(log[n])

(* No append, however late, cuts off the entry that every log begins with: *)
(* self.log[-1] and self.log[0] exist.                                     *)
FirstEntryKept ==
  \A n \in Nodes : log[n] # <<>> /\ log[n][1].term = 1

(* Messages of old terms never take a node back to one.                    *)
TermsGrow == [][\A n \in Nodes : current_term'[n] >= current_term[n]]_vars

(* A leader only adds to its log, although its own append entries and      *)
(* those of other leaders reach it.                                        *)
LeaderKeepsLog ==
  [][\A n \in Nodes :
       current_role[n] = "leader" /\ current_role'[n] = "leader" =>
         /\ Len(log'[n]) >= Len(log[n])
         /\ SubSeq(log'[n], 1, Len(log[n])) = log[n]]_vars

(* raft.py:261 "If you recieve more than half of the votes in the system,  *)
(* promote yourself": a leader has been given that many in its term.       *)
WonByMajority ==
  \A n \in Nodes : current_role[n] = "leader" =>
    Cardinality({s \in Nodes :
      [by |-> s, for |-> n, term |-> current_term[n]] \in ballots}) > Majority

=============================================================================
