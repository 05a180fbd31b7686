--------------------------- MODULE MCNameService ----------------------------
(* NameService with a server that registers two services, as apps/Server.cc*)
(* does, and one that registers one of them.                               *)
EXTENDS NameService, TLC

CONSTANTS s1, s2

TwoServers == {s1, s2}
KVServices == s1 :> <<"KVGetter", "KVSetter">> @@ s2 :> <<"KVSetter">>

=============================================================================
