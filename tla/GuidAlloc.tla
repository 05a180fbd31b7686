----------------------------- MODULE GuidAlloc ------------------------------
(***************************************************************************)
(* What Guid promises its callers: ids from 1 to MaxGuid, never one that   *)
(* is in use, and a refusal only when all are in use.  Which of the free   *)
(* ids it hands out is left open.                                          *)
(*                                                                         *)
(* Guid, with the heap of the code, is shown to implement this             *)
(* specification; RpcClient is built on its actions.                       *)
(***************************************************************************)
EXTENDS Naturals

CONSTANT MaxGuid   \* MAX_GUID, 1024

VARIABLES
  free,            \* the recycled ids
  bound            \* Guid::Bound: the ids 1..bound have been handed out

guidVars == <<free, bound>>

GuidInit == free = {} /\ bound = 0

(* GetGuid returns id.                                                     *)
Allocate(id) ==
  \/ /\ id \in free
     /\ free' = free \ {id}
     /\ UNCHANGED bound
  \/ /\ free = {}
     /\ bound < MaxGuid
     /\ id = bound + 1
     /\ bound' = id
     /\ UNCHANGED free

(* GetGuid returns -1.                                                     *)
Exhausted == free = {} /\ bound >= MaxGuid

(* RecycleGuid(id), called by the one who has the id.                      *)
Recycle(id) ==
  /\ free' = free \cup {id}
  /\ UNCHANGED bound

GuidNext ==
  \/ \E id \in 1..MaxGuid : Allocate(id)
  \/ \E id \in (1..bound) \ free : Recycle(id)

GuidSpec == GuidInit /\ [][GuidNext]_guidVars

=============================================================================
