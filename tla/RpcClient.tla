----------------------------- MODULE RpcClient ------------------------------
(***************************************************************************)
(* The client side of a connection: application threads in CallRPC and     *)
(* CallRPCAsync, the network thread in RpcClient::Main, ClientTransport's  *)
(* queue of requests, the table CallidCallbackMapping and the ids of Guid, *)
(* with the server at the other end of the connection.                     *)
(*                                                                         *)
(* An id travels in the seqno of a request, comes back in the seqno of its *)
(* result and selects the callback; no lock covers it on the way.  What    *)
(* keeps one call's result from another call's callback is the order in    *)
(* which an id is taken, registered, answered, cleared and recycled.       *)
(***************************************************************************)
EXTENDS Naturals, Sequences, FiniteSets

CONSTANTS
  Threads,      \* the application threads
  SyncThreads,  \* those that use CallRPC; the others use CallRPCAsync
  MaxCalls,     \* bound: calls a thread makes
  MaxGuid,      \* MAX_GUID: the largest id
  MaxRequests,  \* MAX_REQUESTS: the size of CallidCallbackMapping
  None          \* no call and no id

ASSUME ClientAssumption ==
  /\ SyncThreads \subseteq Threads
  /\ MaxCalls \in Nat /\ MaxGuid \in Nat /\ MaxRequests \in Nat

(* A call is the thread that makes it and which of its calls it is.        *)
Calls == [thread : Threads, nth : 1..MaxCalls]
Ids == 1..MaxGuid

(* A request or its result: the seqno, and the call it belongs to, which   *)
(* is not on the wire.                                                     *)
Messages == [seq : Ids, call : Calls]

ASSUME NoneAssumption == None \notin Calls \cup Ids \cup Messages

VARIABLES
  free, bound,  \* Guid
  pc,           \* where each application thread is
  made,         \* calls each thread has begun
  id,           \* its local header.seqno
  slots,        \* CallidCallbackMapping
  pending,      \* ClientTransport::PendingRequests
  out,          \* is EPOLLOUT armed?
  requests,     \* sent and not yet answered by the server
  results,      \* in the client's receive buffer
  net,          \* where the network thread is
  res,          \* its local res
  executed,     \* how often each call's callback has run (history)
  dropped,      \* requests send() refused (history)
  alive         \* the process runs

threadVars == <<pc, made, id>>
netVars == <<net, res>>
vars == <<free, bound, threadVars, slots, pending, out, requests, results,
          netVars, executed, dropped, alive>>

Guid == INSTANCE GuidAlloc

PCs == {"idle", "register", "push", "wait", "refused"}
NetPCs == {"poll", "read", "write", "exec", "clear", "recycle"}

CallOf(t) == [thread |-> t, nth |-> made[t]]

(* Types: the ids in use and in the table are those GetGuid may return.    *)
TypeOK ==
  /\ free \subseteq Ids /\ bound \in 0..MaxGuid
  /\ pc \in [Threads -> PCs]
  /\ made \in [Threads -> 0..MaxCalls]
  /\ id \in [Threads -> Ids \cup {None}]
  /\ slots \in [Ids -> Calls \cup {None}]
  /\ pending \in Seq(Messages)
  /\ out \in BOOLEAN
  /\ requests \subseteq Messages
  /\ results \in Seq(Messages)
  /\ net \in NetPCs
  /\ res \in Messages \cup {None}
  /\ executed \in [Calls -> Nat]
  /\ dropped \subseteq Messages
  /\ alive \in BOOLEAN

Init ==
  /\ Guid!GuidInit
  /\ pc = [t \in Threads |-> "idle"]
  /\ made = [t \in Threads |-> 0]
  /\ id = [t \in Threads |-> None]
  /\ slots = [i \in Ids |-> None]
  /\ pending = <<>>
  /\ out = FALSE
  /\ requests = {}
  /\ results = <<>>
  /\ net = "poll"
  /\ res = None
  /\ executed = [c \in Calls |-> 0]
  /\ dropped = {}
  /\ alive = TRUE

-----------------------------------------------------------------------------
(* The application threads.                                                *)

Goto(t, l) == pc' = [pc EXCEPT ![t] = l]

(* Variant: Bound is tested with > and one id too many is handed out.      *)
BeginCallBeyond(t) ==
  /\ alive /\ pc[t] = "idle"
  /\ made[t] < MaxCalls
  /\ free = {} /\ bound <= MaxGuid
  /\ made' = [made EXCEPT ![t] = @ + 1]
  /\ bound' = bound + 1
  /\ id' = [id EXCEPT ![t] = bound + 1]
  /\ Goto(t, "register")
  /\ UNCHANGED <<free, slots, pending, out, requests, results, netVars,
                 executed, dropped, alive>>

(* Variant: GetGuid returns Bound + 1 and does not increment it.           *)
BeginCallNotCounted(t) ==
  /\ alive /\ pc[t] = "idle"
  /\ made[t] < MaxCalls
  /\ made' = [made EXCEPT ![t] = @ + 1]
  /\ free = {} /\ bound < MaxGuid
  /\ id' = [id EXCEPT ![t] = bound + 1]
  /\ Goto(t, "register")
  /\ UNCHANGED <<free, bound, slots, pending, out, requests, results, netVars,
                 executed, dropped, alive>>

(* CallRPCAsync: GetGuid returns an id.                                    *)
BeginCall(t) ==
  /\ alive /\ pc[t] = "idle"
  /\ made[t] < MaxCalls
  /\ made' = [made EXCEPT ![t] = @ + 1]
  /\ \E i \in Ids : Guid!Allocate(i) /\ id' = [id EXCEPT ![t] = i]
  /\ Goto(t, "register")
  /\ UNCHANGED <<slots, pending, out, requests, results, netVars, executed,
                 dropped, alive>>

(* GetGuid returns -1: CallRPCAsync returns, its callback never called.    *)
(* CallRPC is then left waiting for a future nobody will fulfil.           *)
BeginRefused(t) ==
  /\ alive /\ pc[t] = "idle"
  /\ made[t] < MaxCalls
  /\ Guid!Exhausted
  /\ made' = [made EXCEPT ![t] = @ + 1]
  /\ Goto(t, IF t \in SyncThreads THEN "refused" ELSE "idle")
  /\ UNCHANGED <<free, bound, id, slots, pending, out, requests, results,
                 netVars, executed, dropped, alive>>

(* CallbacksHandler::Register.  The vector has MaxRequests elements,       *)
(* numbered from 0: beyond them the write hits whatever is there, which    *)
(* may or may not end the process.                                         *)
Register(t) ==
  /\ alive /\ pc[t] = "register"
  /\ slots' = [slots EXCEPT ![id[t]] = CallOf(t)]
  /\ alive' \in IF id[t] < MaxRequests THEN {TRUE} ELSE BOOLEAN
  /\ Goto(t, "push")
  /\ UNCHANGED <<free, bound, made, id, pending, out, requests, results,
                 netVars, executed, dropped>>

(* Variant: EPOLLOUT is armed only when the queue was not empty before.    *)
PushArmingLate(t) ==
  /\ alive /\ pc[t] = "push"
  /\ pending' = Append(pending, [seq |-> id[t], call |-> CallOf(t)])
  /\ out' = (out \/ pending # <<>>)
  /\ Goto(t, IF t \in SyncThreads THEN "wait" ELSE "idle")
  /\ id' = [id EXCEPT ![t] = None]
  /\ UNCHANGED <<free, bound, made, slots, requests, results, netVars,
                 executed, dropped, alive>>

(* SendRequest and ClientTransport::Push, under mu.                        *)
Push(t) ==
  /\ alive /\ pc[t] = "push"
  /\ pending' = Append(pending, [seq |-> id[t], call |-> CallOf(t)])
  /\ out' = TRUE
  /\ Goto(t, IF t \in SyncThreads THEN "wait" ELSE "idle")
  /\ id' = [id EXCEPT ![t] = None]
  /\ UNCHANGED <<free, bound, made, slots, requests, results, netVars,
                 executed, dropped, alive>>

(* f.get() returns once the callback has set the promise.                  *)
EndCall(t) ==
  /\ alive /\ pc[t] = "wait"
  /\ executed[CallOf(t)] > 0
  /\ Goto(t, "idle")
  /\ UNCHANGED <<free, bound, made, id, slots, pending, out, requests,
                 results, netVars, executed, dropped, alive>>

ThreadStep(t) ==
  BeginCall(t) \/ BeginRefused(t) \/ Register(t) \/ Push(t) \/ EndCall(t)

-----------------------------------------------------------------------------
(* The network thread: RpcClient::Main.                                    *)

(* Poller::Dispatch, level-triggered, on one descriptor: IN before OUT.    *)
Dispatch ==
  /\ alive /\ net = "poll"
  /\ results # <<>> \/ out
  /\ net' = IF results # <<>> THEN "read" ELSE "write"
  /\ UNCHANGED <<free, bound, threadVars, slots, pending, out, requests,
                 results, res, executed, dropped, alive>>

(* CallbacksHandler::HandleReadEvent: recv,                                *)
Recv ==
  /\ alive /\ net = "read"
  /\ res' = Head(results)
  /\ results' = Tail(results)
  /\ net' = "exec"
  /\ UNCHANGED <<free, bound, threadVars, slots, pending, out, requests,
                 executed, dropped, alive>>

(* run the callback registered under the result's seqno (through a null    *)
(* pointer if there is none),                                              *)
Exec ==
  /\ alive /\ net = "exec"
  /\ alive' = (slots[res.seq] # None)
  /\ executed' = IF slots[res.seq] # None
                 THEN [executed EXCEPT ![slots[res.seq]] = @ + 1]
                 ELSE executed
  /\ net' = "clear"
  /\ UNCHANGED <<free, bound, threadVars, slots, pending, out, requests,
                 results, res, dropped>>

(* Variant: the id is recycled before its slot is cleared.                 *)
ClearAfterRecycle ==
  /\ alive /\ net = "clear"
  /\ Guid!Recycle(res.seq)
  /\ net' = "recycle"
  /\ UNCHANGED <<threadVars, slots, pending, out, requests, results, res,
                 executed, dropped, alive>>

(* delete it and clear its slot,                                           *)
Clear ==
  /\ alive /\ net = "clear"
  /\ slots' = [slots EXCEPT ![res.seq] = None]
  /\ net' = "recycle"
  /\ UNCHANGED <<free, bound, threadVars, pending, out, requests, results,
                 res, executed, dropped, alive>>

(* Variant: the id is not recycled.                                        *)
RecycleForgotten ==
  /\ alive /\ net = "recycle"
  /\ res' = None
  /\ net' = "poll"
  /\ UNCHANGED <<free, bound, threadVars, slots, pending, out, requests,
                 results, executed, dropped, alive>>

(* and recycle the id.                                                     *)
RecycleGuid ==
  /\ alive /\ net = "recycle"
  /\ Guid!Recycle(res.seq)
  /\ res' = None
  /\ net' = "poll"
  /\ UNCHANGED <<threadVars, slots, pending, out, requests, results, executed,
                 dropped, alive>>

(* Variant: EPOLLOUT is turned off after every request.                    *)
HandleWriteEventDisarming ==
  /\ alive /\ net = "write"
  /\ pending # <<>>
  /\ pending' = Tail(pending)
  /\ requests' = requests \cup {Head(pending)}
  /\ out' = FALSE
  /\ net' = "poll"
  /\ UNCHANGED <<free, bound, threadVars, slots, results, res, executed,
                 dropped, alive>>

(* ClientTransport::HandleWriteEvent, under mu.  A request that send()     *)
(* refuses is popped all the same.  One that it takes only in part is not  *)
(* modelled: its rest is lost, and the server reads the next one for it.   *)
HandleWriteEvent ==
  /\ alive /\ net = "write"
  /\ IF pending = <<>> THEN UNCHANGED <<pending, requests, dropped>>
     ELSE /\ pending' = Tail(pending)
          /\ \/ requests' = requests \cup {Head(pending)} /\ UNCHANGED dropped
             \/ dropped' = dropped \cup {Head(pending)} /\ UNCHANGED requests
  /\ out' = (out /\ pending' # <<>>)
  /\ net' = "poll"
  /\ UNCHANGED <<free, bound, threadVars, slots, results, res, executed, alive>>

NetStep == Dispatch \/ Recv \/ Exec \/ Clear \/ RecycleGuid \/ HandleWriteEvent

-----------------------------------------------------------------------------
(* The server answers each request once, in whatever order.                *)
Answer(m) ==
  /\ m \in requests
  /\ requests' = requests \ {m}
  /\ results' = Append(results, m)
  /\ UNCHANGED <<free, bound, threadVars, slots, pending, out, netVars,
                 executed, dropped, alive>>

(* It may close the connection: HandleCloseEvent calls exit(1).            *)
ServerCloses ==
  /\ alive /\ net = "poll"
  /\ alive' = FALSE
  /\ UNCHANGED <<free, bound, threadVars, slots, pending, out, requests,
                 results, netVars, executed, dropped>>

Next ==
  \/ \E t \in Threads : ThreadStep(t)
  \/ NetStep
  \/ \E m \in Messages : Answer(m)
  \/ ServerCloses

Spec == Init /\ [][Next]_vars

(* The process's threads are scheduled; the server answers what it gets.   *)
(* A thread need not begin a call.                                         *)
FairSpec ==
  /\ Spec
  /\ \A t \in Threads : WF_vars(Register(t) \/ Push(t) \/ EndCall(t))
  /\ WF_vars(NetStep)
  /\ \A m \in Messages : WF_vars(Answer(m))

-----------------------------------------------------------------------------
(* Properties.                                                             *)

(* HandleReadEvent runs the callback of the call whose result it received: *)
(* between GetGuid and RecycleGuid nobody else writes the slot, although   *)
(* no lock covers the table.                                               *)
CallbackMatches == net = "exec" => slots[res.seq] = res.call

(* Every place an id can be in once GetGuid has returned it: with the      *)
(* thread that got it, in a request or a result on its way, with the       *)
(* network thread, or gone for good with a request that was dropped.       *)
Holders(i) ==
  ({"thread"} \X {t \in Threads : id[t] = i})
  \cup ({"pending"} \X {k \in 1..Len(pending) : pending[k].seq = i})
  \cup ({"request"} \X {m \in requests : m.seq = i})
  \cup ({"result"} \X {k \in 1..Len(results) : results[k].seq = i})
  \cup ({"network"} \X {m \in {res} \ {None} : m.seq = i})
  \cup ({"dropped"} \X {m \in dropped : m.seq = i})

(* An id that Guid has handed out and not got back is in one such place,   *)
(* and an id Guid may hand out is in none.                                 *)
IdsAccounted ==
  \A i \in Ids : Cardinality(Holders(i)) = IF i \in (1..bound) \ free
                                           THEN 1 ELSE 0

(* The callback of a call runs at most once, whatever ids are reused: a    *)
(* second p.set_value in CallRPC would throw.                              *)
CallbackOnce == \A c \in Calls : executed[c] <= 1

(* EPOLLOUT is armed exactly while requests wait: Push and HandleWriteEvent*)
(* neither leave a request behind nor make the poller spin.                *)
OutArmed == out <=> pending # <<>>

(* A request put in the queue has its callback run, unless send() refused  *)
(* it or the process ends.                                                 *)
RequestsCalledBack ==
  \A c \in Calls :
    (\E k \in 1..Len(pending) : pending[k].call = c)
      ~> (executed[c] = 1 \/ (\E m \in dropped : m.call = c) \/ ~alive)

=============================================================================
