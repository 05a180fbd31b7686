-------------------------------- MODULE Wire --------------------------------
(***************************************************************************)
(* The bytes of a call.  A request is encoded by protobuf, copied as a C   *)
(* string into an RpcMessage, sent as a header and body_length bytes, cut  *)
(* out of the stream again and parsed; its result comes back in the fixed  *)
(* buffer of an RpcResult.  Strings end at the first zero byte on every    *)
(* one of these copies, and only the proto3 encoding keeps zero bytes out. *)
(*                                                                         *)
(* The stream consists of headers and bytes: the 48 bytes of a header are  *)
(* one unit of it.  Pieces of a request that arrive apart are RpcServer's  *)
(* matter.                                                                 *)
(***************************************************************************)
EXTENDS Naturals, Sequences, FiniteSets, FiniteSetsExt

CONSTANTS
  Ids,       \* the ids that are used, below 2^31
  Names,     \* the names that are stored: sequences of bytes
  Leftovers, \* what may be in the rest of a result's buffer
  MaxCalls   \* bound: requests sent

(* The callers' ids are not negative, and their names are text: none has a *)
(* zero byte.                                                              *)
ASSUME WireAssumption ==
  /\ Ids \subseteq Nat
  /\ Names \subseteq Seq(1..255)
  /\ Leftovers \subseteq Seq(0..255)
  /\ MaxCalls \in Nat

MAX_RPC_PARAMS_SIZE == 480
MAX_RPC_RETURN_VALUE == 480

(* The four messages of KVService.proto: a number and a string, of which   *)
(* each has the ones it declares.                                          *)
Get(id) == [type |-> "GetValueReq", int |-> id, str |-> <<>>]
Set(id, name) == [type |-> "SetValueReq", int |-> id, str |-> name]
Found(name) == [type |-> "GetValueRsp", int |-> 0, str |-> name]
Code(code) == [type |-> "SetValueRsp", int |-> code, str |-> <<>>]

(* What can be parsed: bytes of any kind.                                  *)
Messages ==
  [type : {"GetValueReq", "SetValueReq", "GetValueRsp", "SetValueRsp"},
   int : Nat, str : Seq(Nat)]

RspType(type) == IF type = "GetValueReq" THEN "GetValueRsp" ELSE "SetValueRsp"

-----------------------------------------------------------------------------
(* proto3.  A field that has its default value is not written.             *)

Varint[n \in Nat] ==
  IF n < 128 THEN <<n>> ELSE <<128 + (n % 128)>> \o Varint[n \div 128]

IntTag == 8
StrTag(type) == IF type = "GetValueRsp" THEN 10 ELSE 18

SerializeAsString(m) ==
  (IF m.int = 0 THEN <<>> ELSE <<IntTag>> \o Varint[m.int])
    \o (IF m.str = <<>> THEN <<>>
        ELSE <<StrTag(m.type)>> \o Varint[Len(m.str)] \o m.str)

(* The number at the start of b, and the bytes after it.                   *)
ReadVarint[b \in Seq(Nat)] ==
  IF b = <<>> THEN [val |-> 0, rest |-> <<>>]
  ELSE IF b[1] < 128 THEN [val |-> b[1], rest |-> Tail(b)]
  ELSE LET r == ReadVarint[Tail(b)]
       IN  [val |-> b[1] - 128 + 128 * r.val, rest |-> r.rest]

(* A parser p is the message so far and the bytes it has not read.         *)
Parsers == [msg : Messages, rest : Seq(Nat)]

(* A field of the message comes next, and is whole.                        *)
AtField(p) ==
  /\ p.rest # <<>>
  /\ \/ p.rest[1] = IntTag
     \/ /\ p.rest[1] = StrTag(p.msg.type)
        /\ LET v == ReadVarint[Tail(p.rest)] IN v.val <= Len(v.rest)

ReadField(p) ==
  LET v == ReadVarint[Tail(p.rest)]
  IN  IF p.rest[1] = IntTag
      THEN [msg |-> [p.msg EXCEPT !.int = v.val], rest |-> v.rest]
      ELSE [msg |-> [p.msg EXCEPT !.str = SubSeq(v.rest, 1, v.val)],
            rest |-> SubSeq(v.rest, v.val + 1, Len(v.rest))]

(* Fields are read until the bytes end or are malformed; that they were is *)
(* returned, but neither caller looks at it.                               *)
ParseFields[p \in Parsers] ==
  IF AtField(p) THEN ParseFields[ReadField(p)] ELSE p.msg

ParseFromString(type, b) ==
  ParseFields[[msg |-> [type |-> type, int |-> 0, str |-> <<>>], rest |-> b]]

-----------------------------------------------------------------------------
(* Copies.                                                                 *)

(* A C string: what comes before the first zero byte.                      *)
CString(b) ==
  LET zeros == {i \in 1..Len(b) : b[i] = 0}
  IN  IF zeros = {} THEN b ELSE SubSeq(b, 1, Min(zeros) - 1)

(* What strcpy writes; its length is what PackProtoStruct returns.         *)
PackProtoStruct(m) == Append(CString(SerializeAsString(m)), 0)

ParseProtoStruct(type, buffer) == ParseFromString(type, CString(buffer))

(* The units of the stream; the type of a message stands for the name of   *)
(* its service.                                                            *)
Header(type, seqno, body_length) ==
  [kind |-> "header", type |-> type, seqno |-> seqno,
   body_length |-> body_length]
Bytes(b) == [i \in 1..Len(b) |-> [kind |-> "byte", byte |-> b[i]]]

(* CallRPCAsync's RpcMessage; the rest of parameters is zero.              *)
Message(m, seqno) ==
  LET parameters == PackProtoStruct(m)
  IN  [header |-> Header(m.type, seqno, Len(parameters)),
       parameters |-> parameters]

(* Variant: the length sent does not count the terminator.                 *)
SerializeShort(msg) ==
  <<msg.header>> \o Bytes(SubSeq(msg.parameters, 1, msg.header.body_length - 1))

(* Serializer::Serialize.                                                  *)
Serialize(msg) ==
  <<msg.header>> \o Bytes(SubSeq(msg.parameters, 1, msg.header.body_length))

(* Variant: the bytes are copied without the terminator.                   *)
ToRpcResultOpen(m, seqno, leftover) ==
  [seqno |-> seqno, buffer |-> CString(SerializeAsString(m)) \o leftover]

(* RpcResult has no constructor: the rest of return_buffer is left over    *)
(* from whatever was on the stack.                                         *)
ToRpcResult(m, seqno, leftover) ==
  [seqno |-> seqno, buffer |-> PackProtoStruct(m) \o leftover]

-----------------------------------------------------------------------------

VARIABLES
  sent,     \* the requests given to CallRPCAsync
  up,       \* what the server has not received yet
  handled,  \* the requests as the services saw them
  dict,     \* the names stored
  server,   \* "armed", "bad packet" (never armed again), "aborted"
  answers,  \* what the services returned
  down,     \* the results under way
  back      \* what the callbacks were given

vars == <<sent, up, handled, dict, server, answers, down, back>>

Init ==
  /\ sent = <<>> /\ up = <<>> /\ handled = <<>>
  /\ dict = [id \in {} |-> <<>>]
  /\ server = "armed"
  /\ answers = <<>> /\ down = <<>> /\ back = <<>>

(* CallRPCAsync and Send.  Nothing compares a request with the size of     *)
(* parameters; beyond it the behaviour is undefined.                       *)
CallRPCAsync(m) ==
  /\ Len(sent) < MaxCalls
  /\ Len(PackProtoStruct(m)) <= MAX_RPC_PARAMS_SIZE
  /\ sent' = Append(sent, m)
  /\ up' = up \o Serialize(Message(m, Len(sent) + 1))
  /\ UNCHANGED <<handled, dict, server, answers, down, back>>

NotFound == <<110, 111, 116, 32, 102, 111, 117, 110, 100>>

(* The service and what it returns.                                        *)
Serve(req) ==
  IF req.type = "GetValueReq"
  THEN /\ answers' = Append(answers,
            Found(IF req.int \in DOMAIN dict THEN dict[req.int] ELSE NotFound))
       /\ UNCHANGED dict
  ELSE /\ answers' = Append(answers,
            Code(IF req.int \in DOMAIN dict THEN 1 ELSE 2))
       /\ dict' = [id \in DOMAIN dict \cup {req.int} |->
                     IF id = req.int THEN req.str ELSE dict[id]]

(* ToRpcResult's assertion, and the result in the stream to the client.    *)
Reply(rsp, seqno, leftover) ==
  IF Len(PackProtoStruct(rsp)) < MAX_RPC_RETURN_VALUE
  THEN /\ down' = Append(down, ToRpcResult(rsp, seqno, leftover))
       /\ UNCHANGED server
  ELSE server' = "aborted" /\ UNCHANGED down

IsHeader(unit) == unit.kind = "header"

(* Whether recv finds a header and the whole of its body.                  *)
Framed ==
  /\ IsHeader(Head(up))
  /\ Head(up).body_length < Len(up)
  /\ \A i \in 1..Head(up).body_length : ~IsHeader(up[i + 1])

(* recv of a header and of a body, Handle, and the result, which has to    *)
(* pass an assertion and is sent whole.                                    *)
HandleReadEvent(leftover) ==
  /\ server = "armed" /\ up # <<>>
  /\ IF Framed
     THEN LET length == Head(up).body_length
              body == [i \in 1..length |-> up[i + 1].byte]
              req == ParseProtoStruct(Head(up).type, Append(body, 0))
          IN  /\ up' = SubSeq(up, length + 2, Len(up))
              /\ handled' = Append(handled, req)
              /\ Serve(req)
              /\ Reply(answers'[Len(answers')], Head(up).seqno, leftover)
     ELSE /\ server' = "bad packet"
          /\ UNCHANGED <<up, handled, dict, answers, down>>
  /\ UNCHANGED <<sent, back>>

(* CallbacksHandler::HandleReadEvent: the callback registered for the      *)
(* seqno knows the type.                                                   *)
Exec ==
  /\ down # <<>>
  /\ LET res == Head(down)
         type == RspType(sent[res.seqno].type)
     IN  back' = Append(back, ParseProtoStruct(type, res.buffer))
  /\ down' = Tail(down)
  /\ UNCHANGED <<sent, up, handled, dict, server, answers>>

Next ==
  \/ \E id \in Ids : CallRPCAsync(Get(id))
                       \/ \E name \in Names : CallRPCAsync(Set(id, name))
  \/ \E leftover \in Leftovers : HandleReadEvent(leftover)
  \/ Exec

Spec == Init /\ [][Next]_vars

-----------------------------------------------------------------------------
(* Properties.                                                             *)

Prefix(s, t) == Len(s) <= Len(t) /\ s = SubSeq(t, 1, Len(s))

(* The services are called with exactly the requests that were made: no    *)
(* encoding contains a zero byte at which strcpy would cut it, lengths of  *)
(* two bytes included, and body_length always leads to the next header.    *)
(* It is about requests that fit into the 480 bytes of parameters: the     *)
(* PackProtoStruct at RpcServiceBase.hh:49 copies any.  Names contain no   *)
(* zero byte.                                                              *)
RequestsIntact == Prefix(handled, sent) /\ server # "bad packet"

(* Callbacks are given exactly what the services returned, whatever was in *)
(* the uninitialised part of return_buffer and although a code or a name   *)
(* may encode to nothing at all.                                           *)
ResultsIntact == Prefix(back, answers)

=============================================================================
