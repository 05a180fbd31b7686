-------------------------------- MODULE Guid --------------------------------
(***************************************************************************)
(* Guid::GetGuid and Guid::RecycleGuid with the vector Heap and its two    *)
(* percolation loops.  Both functions hold HeapMutex throughout, so each   *)
(* is one step.  Heap[i] of the code is heap[i + 1] here.                  *)
(***************************************************************************)
EXTENDS Naturals, Sequences, FiniteSets, Functions

CONSTANT MaxGuid

ASSUME GuidAssumption == MaxGuid \in Nat

VARIABLES
  heap,    \* Guid::Heap
  bound,   \* Guid::Bound
  used     \* the ids callers hold (history)

vars == <<heap, bound, used>>

(* Variant: an assignment where a swap is needed.                          *)
HalfSwap(h, i, k) == [h EXCEPT ![i] = h[k]]

Swap(h, i, k) == [h EXCEPT ![i] = h[k], ![k] = h[i]]

(* GET(i): 0 stands for no element.                                        *)
Get(h, i) == IF i <= Len(h) THEN h[i] ELSE 0

(* One round of the loop in Popitem, from node n: the heap after it and    *)
(* the node to go on from.  The second comparison is with the smaller of   *)
(* the node and its left child, but when both children are smaller the     *)
(* right one ends on top and the loop goes on to the left.                 *)
DownRound(h, n) ==
  LET l == 2 * n
      r == l + 1
      left == Get(h, l) # 0 /\ h[n] > Get(h, l)
      h1 == IF left THEN Swap(h, n, l) ELSE h
      right == Get(h, r) # 0 /\ h1[n] > Get(h, r)
  IN  [heap |-> IF right THEN Swap(h1, n, r) ELSE h1,
       next |-> IF left THEN l ELSE IF right THEN r ELSE n]

(* The loop from the root.  A round that swaps nothing leaves the node as  *)
(* it is, as break does; every other round at least doubles it, so the     *)
(* loop has ended after Len(h) rounds.                                     *)
PercolateDown(h) ==
  LET round[k \in 0..Len(h)] ==
        IF k = 0 THEN [heap |-> h, next |-> 1]
        ELSE LET last == round[k - 1] IN DownRound(last.heap, last.next)
  IN  round[Len(h)].heap

(* Variant: pop_back() before the swap.                                    *)
PoppedLast(h) == SubSeq(h, 1, Len(h) - 1)

(* Popitem after it has saved Heap[0]; with one element nothing is left.   *)
Popped(h) ==
  LET n == Len(h)
  IN  IF n = 1 THEN <<>>
      ELSE PercolateDown(SubSeq(Swap(h, 1, n), 1, n - 1))

(* One round of the loop in Pushitem, from node n.                         *)
UpRound(h, n) ==
  IF n # 1 /\ h[n \div 2] > h[n]
  THEN [heap |-> Swap(h, n, n \div 2), next |-> n \div 2]
  ELSE [heap |-> h, next |-> n]

(* The loop from the last element.                                         *)
PercolateUp(h) ==
  LET round[k \in 0..Len(h)] ==
        IF k = 0 THEN [heap |-> h, next |-> Len(h)]
        ELSE LET last == round[k - 1] IN UpRound(last.heap, last.next)
  IN  round[Len(h)].heap

Pushed(h, id) == PercolateUp(Append(h, id))

-----------------------------------------------------------------------------

Init == heap = <<>> /\ bound = 0 /\ used = {}

(* With no id left GetGuid returns -1 and changes nothing.                 *)
GetGuid ==
  \/ /\ heap = <<>>
     /\ bound < MaxGuid
     /\ bound' = bound + 1
     /\ used' = used \cup {bound + 1}
     /\ UNCHANGED heap
  \/ /\ heap # <<>>
     /\ used' = used \cup {heap[1]}
     /\ heap' = Popped(heap)
     /\ UNCHANGED bound

RecycleGuid(id) ==
  /\ id \in used
  /\ used' = used \ {id}
  /\ heap' = Pushed(heap, id)
  /\ UNCHANGED bound

Next == GetGuid \/ \E id \in 1..MaxGuid : RecycleGuid(id)

Spec == Init /\ [][Next]_vars

-----------------------------------------------------------------------------
(* Properties.                                                             *)

(* Every id up to Bound is either with a caller or in the heap, once,      *)
(* whatever the two loops do to its order: GetGuid never hands out an id   *)
(* that someone holds, and none gets lost.                                 *)
IdsPartitioned ==
  /\ used \cap Range(heap) = {}
  /\ used \cup Range(heap) = 1..bound
  /\ Len(heap) = Cardinality(Range(heap))

(* The heap implements the set of GuidAlloc.                               *)
Alloc == INSTANCE GuidAlloc WITH free <- Range(heap)
ImplementsGuidAlloc == Alloc!GuidSpec

=============================================================================
