---------------------------- MODULE MCRpcClient -----------------------------
(* RpcClient with one thread that calls and waits and others that do not,  *)
(* and fewer ids than calls, so that ids run out and are reused.           *)
EXTENDS RpcClient

CONSTANTS s1, a1, a2

MCThreads == {s1, a1, a2}
MCSync == {s1}

=============================================================================
