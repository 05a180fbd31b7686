---------------------------- MODULE MCRpcServer -----------------------------
(* RpcServer for TLC: two clients, one descriptor (so that accept() fails  *)
(* and numbers are reused) or two, and two workers.                        *)
EXTENDS RpcServer, TLC

CONSTANTS c1, c2, f1, f2, w1, w2

TwoConns   == {c1, c2}
OneFd      == {f1}
TwoFds     == {f1, f2}
TwoWorkers == {w1, w2}

AllKinds   == {"call", "oneway", "bad"}
Calls      == {"call"}
AllFaults  == {"abandon", "reset", "segment", "wouldblock", "setup"}
Abandon    == {"abandon"}
Segment    == {"segment"}

Interchangeable ==
  Permutations(TwoConns) \cup Permutations(TwoWorkers)

=============================================================================
