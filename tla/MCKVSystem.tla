----------------------------- MODULE MCKVSystem -----------------------------
(* KVSystem with one other client and two workers.                         *)
EXTENDS KVSystem, TLC

CONSTANTS w1, w2, p1

TwoWorkers == {w1, w2}
OnePeer == {p1}
SomeKeys == {1}
FewCalls == "getter" :> 1 @@ "setter" :> 2 @@ p1 :> 1
SomeValues == {"a", "b"}

=============================================================================
