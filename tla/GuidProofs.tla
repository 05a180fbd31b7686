----------------------------- MODULE GuidProofs -----------------------------
(***************************************************************************)
(* The heap of Guid neither loses nor doubles an id and implements the set *)
(* of free ids that the client is built on, for every MaxGuid: whatever    *)
(* the percolation loops compare, all they do is to swap elements.         *)
(***************************************************************************)
EXTENDS Guid, FiniteSetTheorems, TLAPS

-----------------------------------------------------------------------------
(* A loop that stays in a set of states.                                   *)

(* Every set of naturals has a least element.                              *)
LEMMA LeastNatural ==
  ASSUME NEW S \in SUBSET Nat, S # {}
  PROVE  \E n \in S : \A m \in S : n <= m
<1>1. PICK n \in S : \A m \in S : <<m, n>> \notin OpToRel(<, Nat)
  BY WFMin, NatLessThanWellFounded
<1>2. \A m \in S : ~(m < n)
  BY <1>1 DEF OpToRel
<1> QED BY <1>2

(* A set with 0 and every successor holds all naturals.                    *)
LEMMA SetInduction ==
  ASSUME NEW S \in SUBSET Nat, 0 \in S, \A n \in S : n + 1 \in S
  PROVE  \A n \in Nat : n \in S
<1> DEFINE R == Nat \ S
<1>1. SUFFICES ASSUME R # {} PROVE FALSE
  OBVIOUS
<1>2. R \in SUBSET Nat
  OBVIOUS
<1> HIDE DEF R
<1>3. PICK n \in R : \A m \in R : n <= m
  BY <1>1, <1>2, LeastNatural
<1>4. n \in Nat /\ n # 0 /\ n - 1 \notin R
  BY <1>3 DEF R
<1>5. n - 1 \in S
  BY <1>4 DEF R
<1> QED BY <1>3, <1>4, <1>5 DEF R

(* run is the first n rounds of a loop from state a.                       *)
Rounds(S, a, round, n, run) ==
  /\ run \in [0..n -> S]
  /\ run[0] = a
  /\ \A k \in 1..n : run[k] = round[run[k - 1]]

(* A loop whose rounds stay in S can take any number of them.              *)
LEMMA RoundsExist ==
  ASSUME NEW S, NEW a \in S, NEW round \in [S -> S], NEW n \in Nat
  PROVE  \E run : Rounds(S, a, round, n, run)
<1> DEFINE M == {m \in Nat : \E run : Rounds(S, a, round, m, run)}
<1>1. 0 \in M
  <2>1. Rounds(S, a, round, 0, [k \in 0..0 |-> a])
    BY DEF Rounds
  <2> QED BY <2>1
<1>2. ASSUME NEW m \in M PROVE m + 1 \in M
  <2>1. PICK run : Rounds(S, a, round, m, run)
    OBVIOUS
  <2>2. /\ m \in Nat /\ run \in [0..m -> S] /\ run[0] = a
        /\ \A k \in 1..m : run[k] = round[run[k - 1]]
    BY <2>1 DEF Rounds
  <2> DEFINE longer == [k \in 0..(m + 1) |->
                          IF k = m + 1 THEN round[run[m]] ELSE run[k]]
  <2>3. round[run[m]] \in S
    BY <2>2
  <2>4. longer \in [0..(m + 1) -> S] /\ longer[0] = a
    BY <2>2, <2>3
  <2>5. ASSUME NEW k \in 1..(m + 1) PROVE longer[k] = round[longer[k - 1]]
    <3>1. CASE k = m + 1
      BY <2>2, <3>1
    <3>2. CASE k # m + 1
      <4>1. k \in 1..m /\ longer[k] = run[k] /\ longer[k - 1] = run[k - 1]
        BY <2>2, <3>2
      <4> QED BY <2>2, <4>1
    <3> QED BY <3>1, <3>2
  <2> HIDE DEF longer
  <2>6. Rounds(S, a, round, m + 1, longer)
    BY <2>4, <2>5 DEF Rounds
  <2> QED BY <2>2, <2>6
<1> HIDE DEF M
<1>3. M \in SUBSET Nat
  BY DEF M
<1>4. n \in M
  BY <1>1, <1>2, <1>3, SetInduction
<1> QED BY <1>4 DEF M

-----------------------------------------------------------------------------
(* What the loops keep.                                                    *)

(* No element twice.                                                       *)
Distinct(h) == \A i, j \in 1..Len(h) : h[i] = h[j] => i = j

(* g holds the elements of h in some order, as often as h does.            *)
Rearranges(g, h) ==
  /\ g \in Seq(Nat)
  /\ Len(g) = Len(h)
  /\ Range(g) = Range(h)
  /\ Distinct(h) => Distinct(g)

(* What a loop over h works on: a heap and a node.                         *)
LoopStates(h) ==
  [heap : {g \in Seq(Nat) : Rearranges(g, h)}, next : 1..Len(h)]

LEMMA SwapRearranges ==
  ASSUME NEW h \in Seq(Nat), NEW i \in 1..Len(h), NEW k \in 1..Len(h)
  PROVE  Rearranges(Swap(h, i, k), h)
<1> DEFINE g == Swap(h, i, k)
<1>1. g \in Seq(Nat) /\ Len(g) = Len(h) /\ DOMAIN g = 1..Len(h)
      /\ DOMAIN h = 1..Len(h)
  BY DEF Swap
<1>2. \A j \in 1..Len(h) :
        g[j] = IF j = k THEN h[i] ELSE IF j = i THEN h[k] ELSE h[j]
  BY DEF Swap
<1> HIDE DEF g
<1>3. Range(g) \subseteq Range(h)
  BY <1>1, <1>2 DEF Range
<1>4. Range(h) \subseteq Range(g)
  <2>1. SUFFICES ASSUME NEW j \in 1..Len(h) PROVE h[j] \in Range(g)
    BY <1>1 DEF Range
  <2>2. PICK j2 \in 1..Len(h) : g[j2] = h[j]
    <3>1. CASE j = i
      BY <1>2, <3>1
    <3>2. CASE j = k
      BY <1>2, <3>2
    <3>3. CASE j # i /\ j # k
      BY <1>2, <3>3
    <3> QED BY <3>1, <3>2, <3>3
  <2> QED BY <1>1, <2>2 DEF Range
<1>5. Distinct(h) => Distinct(g)
  BY <1>1, <1>2 DEF Distinct
<1> QED BY <1>1, <1>3, <1>4, <1>5 DEF Rearranges, g

LEMMA RearrangesTwice ==
  ASSUME NEW f, NEW g, NEW h, Rearranges(f, g), Rearranges(g, h)
  PROVE  Rearranges(f, h)
BY DEF Rearranges

LEMMA RearrangesSelf ==
  ASSUME NEW h \in Seq(Nat)
  PROVE  Rearranges(h, h)
BY DEF Rearranges

-----------------------------------------------------------------------------
(* What the loops compute.                                                 *)

(* The rounds of a loop lead from S to S, and each but an idle one to a    *)
(* lower rank.                                                             *)
Descends(S, round, n, rank) ==
  /\ round \in [S -> S] /\ n \in Nat /\ rank \in [S -> 0..n]
  /\ \A s \in S : round[s] = s \/ rank[round[s]] < rank[s]

(* run starts in S and takes n rounds.                                     *)
Follows(S, round, n, run) ==
  /\ run[0] \in S
  /\ \A k \in 1..n : run[k - 1] \in S => run[k] = round[run[k - 1]]

(* A loop that goes on only to states of a lower rank has ended, in S,     *)
(* after as many rounds as there are ranks.                                *)
LEMMA LoopEnds ==
  ASSUME NEW S, NEW round, NEW n, NEW rank, NEW run,
         Descends(S, round, n, rank), Follows(S, round, n, run)
  PROVE  run[n] \in S /\ round[run[n]] = run[n]
<1>0. /\ round \in [S -> S] /\ n \in Nat /\ rank \in [S -> 0..n]
      /\ \A s \in S : round[s] = s \/ rank[round[s]] < rank[s]
      /\ run[0] \in S
      /\ \A k \in 1..n : run[k - 1] \in S => run[k] = round[run[k - 1]]
  BY DEF Descends, Follows
<1> DEFINE M == {m \in Nat : m <= n =>
                   /\ run[m] \in S
                   /\ round[run[m]] = run[m] \/ rank[run[m]] <= n - m}
<1>1. 0 \in M
  <2>1. rank[run[0]] \in 0..n
    BY <1>0
  <2> QED BY <1>0, <2>1
<1>2. ASSUME NEW m \in M PROVE m + 1 \in M
  <2>1. SUFFICES ASSUME m + 1 <= n
                 PROVE  /\ run[m + 1] \in S
                        /\ \/ round[run[m + 1]] = run[m + 1]
                           \/ rank[run[m + 1]] <= n - (m + 1)
    OBVIOUS
  <2>2. /\ m \in Nat /\ run[m] \in S
        /\ round[run[m]] = run[m] \/ rank[run[m]] <= n - m
    BY <1>0, <2>1
  <2>3. m + 1 \in 1..n /\ (m + 1) - 1 = m
    BY <1>0, <2>1, <2>2
  <2>4. run[m + 1] = round[run[m]]
    BY <1>0, <2>2, <2>3
  <2>5. run[m + 1] \in S
    BY <1>0, <2>2, <2>4
  <2>6. CASE round[run[m]] = run[m]
    BY <2>4, <2>5, <2>6
  <2>7. CASE rank[run[m]] <= n - m /\ rank[run[m + 1]] < rank[run[m]]
    <3>1. rank[run[m]] \in Nat /\ rank[run[m + 1]] \in Nat
      BY <1>0, <2>2, <2>5
    <3> QED BY <1>0, <2>2, <2>5, <2>7, <3>1
  <2> QED BY <1>0, <2>2, <2>4, <2>6, <2>7
<1> HIDE DEF M
<1>3. M \in SUBSET Nat
  BY DEF M
<1>4. n \in M
  BY <1>0, <1>1, <1>2, <1>3, SetInduction
<1>5. run[n] \in S /\ (round[run[n]] = run[n] \/ rank[run[n]] <= n - n)
  BY <1>0, <1>4 DEF M
<1>6. rank[run[n]] \in 0..n /\ rank[round[run[n]]] \in 0..n
  BY <1>0, <1>5
<1> QED BY <1>0, <1>5, <1>6

(* A round of Popitem's loop swaps elements and goes on to a child or not  *)
(* at all.                                                                 *)
LEMMA DownRoundStays ==
  ASSUME NEW h \in Seq(Nat), NEW n \in 1..Len(h)
  PROVE  /\ DownRound(h, n) \in [heap : Seq(Nat), next : 1..Len(h)]
         /\ Rearranges(DownRound(h, n).heap, h)
         /\ \/ DownRound(h, n) = [heap |-> h, next |-> n]
            \/ DownRound(h, n).next > n
<1> DEFINE l == 2 * n
           r == l + 1
           left == Get(h, l) # 0 /\ h[n] > Get(h, l)
           h1 == IF left THEN Swap(h, n, l) ELSE h
           right == Get(h, r) # 0 /\ h1[n] > Get(h, r)
           h2 == IF right THEN Swap(h1, n, r) ELSE h1
           next == IF left THEN l ELSE IF right THEN r ELSE n
<1>1. DownRound(h, n) = [heap |-> h2, next |-> next]
  BY DEF DownRound
<1>2. Len(h) \in Nat /\ n \in Nat /\ l \in Nat /\ r \in Nat /\ l > n /\ r > n
  OBVIOUS
<1>3. (left => l \in 1..Len(h)) /\ (right => r \in 1..Len(h))
  BY <1>2 DEF Get
<1> HIDE DEF l, r, left, right
<1>4. Rearranges(h1, h)
  BY <1>3, SwapRearranges, RearrangesSelf
<1>5. h1 \in Seq(Nat) /\ Len(h1) = Len(h)
  BY <1>4 DEF Rearranges
<1> HIDE DEF h1
<1>6. Rearranges(h2, h1)
  BY <1>3, <1>5, SwapRearranges, RearrangesSelf
<1>7. Rearranges(h2, h) /\ h2 \in Seq(Nat)
  BY <1>4, <1>6, RearrangesTwice DEF Rearranges
<1>8. next \in 1..Len(h)
  BY <1>3
<1>9. (h2 = h /\ next = n) \/ next > n
  BY <1>2 DEF h1
<1> HIDE DEF h2, next
<1> QED BY <1>1, <1>7, <1>8, <1>9

(* A round of Pushitem's loop swaps elements and goes on to the parent or  *)
(* not at all.                                                             *)
LEMMA UpRoundStays ==
  ASSUME NEW h \in Seq(Nat), NEW n \in 1..Len(h)
  PROVE  /\ UpRound(h, n) \in [heap : Seq(Nat), next : 1..Len(h)]
         /\ Rearranges(UpRound(h, n).heap, h)
         /\ \/ UpRound(h, n) = [heap |-> h, next |-> n]
            \/ UpRound(h, n).next < n
<1> DEFINE p == n \div 2
<1>1. n \in Nat /\ (n # 1 => p \in 1..Len(h) /\ p < n)
  OBVIOUS
<1>2. UpRound(h, n) = [heap |-> h, next |-> n]
      \/ (n # 1 /\ UpRound(h, n) = [heap |-> Swap(h, n, p), next |-> p])
  BY DEF UpRound
<1> HIDE DEF p
<1>3. CASE UpRound(h, n) = [heap |-> h, next |-> n]
  BY <1>3, RearrangesSelf
<1>4. CASE n # 1 /\ UpRound(h, n) = [heap |-> Swap(h, n, p), next |-> p]
  <2>1. Rearranges(Swap(h, n, p), h)
    BY <1>1, <1>4, SwapRearranges
  <2>2. Swap(h, n, p) \in Seq(Nat)
    BY <2>1 DEF Rearranges
  <2> QED BY <1>1, <1>4, <2>1, <2>2
<1> QED BY <1>2, <1>3, <1>4

(* Popitem's `while (1)` breaks, whatever order the heap is in: GetGuid    *)
(* does not hold HeapMutex for ever.  It has only rearranged the heap, and *)
(* the rounds of PercolateDown are enough to get there.                    *)
THEOREM PercolateDownEnds ==
  ASSUME NEW h \in Seq(Nat), h # <<>>
  PROVE  /\ Rearranges(PercolateDown(h), h)
         /\ \E n \in 1..Len(h) :
              DownRound(PercolateDown(h), n)
                = [heap |-> PercolateDown(h), next |-> n]
<1> DEFINE N == Len(h)
           S == LoopStates(h)
           a == [heap |-> h, next |-> 1]
           round == [s \in S |-> DownRound(s.heap, s.next)]
           rank == [s \in S |-> N - s.next]
<1>1. N \in Nat /\ N > 0
  OBVIOUS
<1>2. a \in S
  BY <1>1, RearrangesSelf DEF LoopStates
<1>3. ASSUME NEW s \in S
      PROVE  /\ DownRound(s.heap, s.next) \in S
             /\ \/ DownRound(s.heap, s.next) = s
                \/ DownRound(s.heap, s.next).next > s.next
  <2>1. /\ s.heap \in Seq(Nat) /\ Rearranges(s.heap, h) /\ Len(s.heap) = N
        /\ s.next \in 1..N /\ s = [heap |-> s.heap, next |-> s.next]
    BY DEF LoopStates, Rearranges
  <2>2. /\ DownRound(s.heap, s.next) \in [heap : Seq(Nat), next : 1..N]
        /\ Rearranges(DownRound(s.heap, s.next).heap, s.heap)
        /\ \/ DownRound(s.heap, s.next) = [heap |-> s.heap, next |-> s.next]
           \/ DownRound(s.heap, s.next).next > s.next
    BY <2>1, DownRoundStays
  <2>3. Rearranges(DownRound(s.heap, s.next).heap, h)
    BY <2>1, <2>2, RearrangesTwice
  <2>4. DownRound(s.heap, s.next) \in S
    BY <2>2, <2>3 DEF LoopStates
  <2> QED BY <2>1, <2>2, <2>4
<1>4. \A s \in S : s.next \in 1..N
  BY DEF LoopStates
<1> HIDE DEF S, N, a
<1>5. round \in [S -> S] /\ \A s \in S : round[s] = DownRound(s.heap, s.next)
  BY <1>3
<1>6. rank \in [S -> 0..N] /\ \A s \in S : rank[s] = N - s.next
  BY <1>1, <1>4
<1> HIDE DEF round, rank
<1>7. \A s \in S : round[s] = s \/ rank[round[s]] < rank[s]
  <2>1. TAKE s \in S
  <2>2. s.next \in 1..N /\ round[s] \in S /\ round[s].next \in 1..N
    BY <1>4, <1>5
  <2>3. round[s] = DownRound(s.heap, s.next) /\ rank[s] = N - s.next
    BY <1>5, <1>6
  <2>4. rank[round[s]] = N - round[s].next
    BY <1>6, <2>2
  <2>5. round[s] = s \/ round[s].next > s.next
    BY <1>3, <2>3
  <2> QED BY <1>1, <2>2, <2>3, <2>4, <2>5
<1> DEFINE F == CHOOSE f : f = [k \in 0..N |->
                  IF k = 0 THEN a ELSE DownRound(f[k - 1].heap, f[k - 1].next)]
<1>8. PercolateDown(h) = F[N].heap
  BY DEF PercolateDown, N, a
<1>9. PICK g : Rounds(S, a, round, N, g)
  BY <1>1, <1>2, <1>5, RoundsExist
<1>10. /\ g \in [0..N -> S] /\ g[0] = a
       /\ \A k \in 1..N : g[k] = round[g[k - 1]] /\ g[k - 1] \in S
  <2>1. \A k \in 1..N : k - 1 \in 0..N
    BY <1>1
  <2> QED BY <1>9, <2>1 DEF Rounds
<1>11. g = [k \in 0..N |->
              IF k = 0 THEN a ELSE DownRound(g[k - 1].heap, g[k - 1].next)]
  <2>1. g = [k \in 0..N |-> g[k]]
    BY <1>10
  <2>2. ASSUME NEW k \in 0..N
        PROVE  g[k] = IF k = 0 THEN a
                      ELSE DownRound(g[k - 1].heap, g[k - 1].next)
    <3>1. k = 0 \/ k \in 1..N
      BY <1>1
    <3> QED BY <1>5, <1>10, <3>1
  <2> QED BY <2>1, <2>2, Zenon
<1>12. F = [k \in 0..N |->
              IF k = 0 THEN a ELSE DownRound(F[k - 1].heap, F[k - 1].next)]
  BY <1>11
<1> HIDE DEF F
<1>13. F[0] = a
  <2>1. 0 \in 0..N
    BY <1>1
  <2> QED BY <1>12, <2>1, Zenon
<1>14. \A k \in 1..N : F[k - 1] \in S => F[k] = round[F[k - 1]]
  <2>1. TAKE k \in 1..N
  <2>2. k \in 0..N /\ k # 0
    BY <1>1
  <2>3. F[k] = DownRound(F[k - 1].heap, F[k - 1].next)
    BY <1>12, <2>2, Zenon
  <2> QED BY <1>5, <2>3
<1>15. F[N] \in S /\ round[F[N]] = F[N]
  <2>1. F[0] \in S /\ round \in [S -> S] /\ rank \in [S -> 0..N]
    BY <1>2, <1>5, <1>6, <1>13
  <2>2. Descends(S, round, N, rank) /\ Follows(S, round, N, F)
    BY <1>1, <1>7, <1>14, <2>1 DEF Descends, Follows
  <2> QED BY <2>2, LoopEnds
<1>16. DownRound(F[N].heap, F[N].next) = F[N]
  BY <1>5, <1>15
<1>17. /\ F[N].next \in 1..N /\ Rearranges(F[N].heap, h)
       /\ F[N] = [heap |-> F[N].heap, next |-> F[N].next]
  BY <1>15 DEF S, LoopStates, N
<1> QED BY <1>8, <1>16, <1>17, Zenon DEF N

(* The same of Pushitem's loop.                                            *)
THEOREM PercolateUpEnds ==
  ASSUME NEW h \in Seq(Nat), h # <<>>
  PROVE  /\ Rearranges(PercolateUp(h), h)
         /\ \E n \in 1..Len(h) :
              UpRound(PercolateUp(h), n) = [heap |-> PercolateUp(h), next |-> n]
<1> DEFINE N == Len(h)
           S == LoopStates(h)
           a == [heap |-> h, next |-> Len(h)]
           round == [s \in S |-> UpRound(s.heap, s.next)]
           rank == [s \in S |-> s.next]
<1>1. N \in Nat /\ N > 0
  OBVIOUS
<1>2. a \in S
  BY <1>1, RearrangesSelf DEF LoopStates
<1>3. ASSUME NEW s \in S
      PROVE  /\ UpRound(s.heap, s.next) \in S
             /\ \/ UpRound(s.heap, s.next) = s
                \/ UpRound(s.heap, s.next).next < s.next
  <2>1. /\ s.heap \in Seq(Nat) /\ Rearranges(s.heap, h) /\ Len(s.heap) = N
        /\ s.next \in 1..N /\ s = [heap |-> s.heap, next |-> s.next]
    BY DEF LoopStates, Rearranges
  <2>2. /\ UpRound(s.heap, s.next) \in [heap : Seq(Nat), next : 1..N]
        /\ Rearranges(UpRound(s.heap, s.next).heap, s.heap)
        /\ \/ UpRound(s.heap, s.next) = [heap |-> s.heap, next |-> s.next]
           \/ UpRound(s.heap, s.next).next < s.next
    BY <2>1, UpRoundStays
  <2>3. Rearranges(UpRound(s.heap, s.next).heap, h)
    BY <2>1, <2>2, RearrangesTwice
  <2>4. UpRound(s.heap, s.next) \in S
    BY <2>2, <2>3 DEF LoopStates
  <2> QED BY <2>1, <2>2, <2>4
<1>4. \A s \in S : s.next \in 1..N
  BY DEF LoopStates
<1> HIDE DEF S, N, a
<1>5. round \in [S -> S] /\ \A s \in S : round[s] = UpRound(s.heap, s.next)
  BY <1>3
<1>6. rank \in [S -> 0..N] /\ \A s \in S : rank[s] = s.next
  BY <1>1, <1>4
<1> HIDE DEF round, rank
<1>7. \A s \in S : round[s] = s \/ rank[round[s]] < rank[s]
  <2>1. TAKE s \in S
  <2>2. s.next \in 1..N /\ round[s] \in S /\ round[s].next \in 1..N
    BY <1>4, <1>5
  <2>3. round[s] = UpRound(s.heap, s.next) /\ rank[s] = s.next
    BY <1>5, <1>6
  <2>4. rank[round[s]] = round[s].next
    BY <1>6, <2>2
  <2>5. round[s] = s \/ round[s].next < s.next
    BY <1>3, <2>3
  <2> QED BY <1>1, <2>2, <2>3, <2>4, <2>5
<1> DEFINE F == CHOOSE f : f = [k \in 0..N |->
                  IF k = 0 THEN a ELSE UpRound(f[k - 1].heap, f[k - 1].next)]
<1>8. PercolateUp(h) = F[N].heap
  BY DEF PercolateUp, N, a
<1>9. PICK g : Rounds(S, a, round, N, g)
  BY <1>1, <1>2, <1>5, RoundsExist
<1>10. /\ g \in [0..N -> S] /\ g[0] = a
       /\ \A k \in 1..N : g[k] = round[g[k - 1]] /\ g[k - 1] \in S
  <2>1. \A k \in 1..N : k - 1 \in 0..N
    BY <1>1
  <2> QED BY <1>9, <2>1 DEF Rounds
<1>11. g = [k \in 0..N |->
              IF k = 0 THEN a ELSE UpRound(g[k - 1].heap, g[k - 1].next)]
  <2>1. g = [k \in 0..N |-> g[k]]
    BY <1>10
  <2>2. ASSUME NEW k \in 0..N
        PROVE  g[k] = IF k = 0 THEN a ELSE UpRound(g[k - 1].heap, g[k - 1].next)
    <3>1. k = 0 \/ k \in 1..N
      BY <1>1
    <3> QED BY <1>5, <1>10, <3>1
  <2> QED BY <2>1, <2>2, Zenon
<1>12. F = [k \in 0..N |->
              IF k = 0 THEN a ELSE UpRound(F[k - 1].heap, F[k - 1].next)]
  BY <1>11
<1> HIDE DEF F
<1>13. F[0] = a
  <2>1. 0 \in 0..N
    BY <1>1
  <2> QED BY <1>12, <2>1, Zenon
<1>14. \A k \in 1..N : F[k - 1] \in S => F[k] = round[F[k - 1]]
  <2>1. TAKE k \in 1..N
  <2>2. k \in 0..N /\ k # 0
    BY <1>1
  <2>3. F[k] = UpRound(F[k - 1].heap, F[k - 1].next)
    BY <1>12, <2>2, Zenon
  <2> QED BY <1>5, <2>3
<1>15. F[N] \in S /\ round[F[N]] = F[N]
  <2>1. F[0] \in S /\ round \in [S -> S] /\ rank \in [S -> 0..N]
    BY <1>2, <1>5, <1>6, <1>13
  <2>2. Descends(S, round, N, rank) /\ Follows(S, round, N, F)
    BY <1>1, <1>7, <1>14, <2>1 DEF Descends, Follows
  <2> QED BY <2>2, LoopEnds
<1>16. UpRound(F[N].heap, F[N].next) = F[N]
  BY <1>5, <1>15
<1>17. /\ F[N].next \in 1..N /\ Rearranges(F[N].heap, h)
       /\ F[N] = [heap |-> F[N].heap, next |-> F[N].next]
  BY <1>15 DEF S, LoopStates, N
<1> QED BY <1>8, <1>16, <1>17, Zenon DEF N

-----------------------------------------------------------------------------
(* What the two operations do to the elements.                             *)

(* Popitem takes the first element out and keeps the others.               *)
LEMMA PoppedElements ==
  ASSUME NEW h \in Seq(Nat), h # <<>>, Distinct(h)
  PROVE  /\ Popped(h) \in Seq(Nat)
         /\ Distinct(Popped(h))
         /\ Range(Popped(h)) = Range(h) \ {h[1]}
<1> DEFINE n == Len(h)
<1>1. n \in Nat /\ n > 0 /\ DOMAIN h = 1..n
  OBVIOUS
<1>2. CASE n = 1
  <2>1. Popped(h) = <<>>
    BY <1>2 DEF Popped
  <2>2. Range(<<>>) = {} /\ Range(h) = {h[1]}
    BY <1>1, <1>2 DEF Range
  <2> QED BY <2>1, <2>2 DEF Distinct
<1>3. CASE n # 1
  <2> DEFINE g == Swap(h, 1, n)
             s == SubSeq(g, 1, n - 1)
  <2>1. Popped(h) = PercolateDown(s)
    BY <1>3 DEF Popped
  <2>2. Rearranges(g, h)
    BY <1>1, SwapRearranges
  <2>3. g \in Seq(Nat) /\ Len(g) = n /\ Range(g) = Range(h) /\ Distinct(g)
    BY <2>2 DEF Rearranges
  <2>4. g[n] = h[1]
    BY <1>1 DEF Swap
  <2> HIDE DEF g, n
  <2>5. /\ s \in Seq(Nat) /\ Len(s) = n - 1 /\ s # <<>>
        /\ \A i \in 1..(n - 1) : s[i] = g[i]
    <3>0. n \in Nat /\ n > 1
      BY <1>1, <1>3
    <3>1. /\ n - 1 \in 1..Len(g)
          /\ \A i \in 1..(n - 1) : i \in 1..Len(g) /\ g[i] \in Nat
      BY <2>3, <3>0
    <3>2. s \in Seq(Nat) /\ Len(s) = n - 1
      BY <2>3, <3>1
    <3>3. \A i \in 1..(n - 1) : s[i] = g[i]
      BY <2>3, <3>1
    <3> HIDE DEF s
    <3>4. s # <<>>
      BY <3>0, <3>2
    <3> QED BY <3>2, <3>3, <3>4
  <2> HIDE DEF s
  <2>6. Distinct(s)
    BY <1>1, <2>3, <2>5 DEF Distinct
  <2>7. Range(s) = Range(g) \ {g[n]}
    <3>1. DOMAIN g = 1..n /\ DOMAIN s = 1..(n - 1)
      BY <2>3, <2>5
    <3>2. \A i \in 1..(n - 1) : i \in 1..n /\ g[i] # g[n]
      BY <1>1, <2>3 DEF Distinct
    <3>3. \A i \in 1..n : i = n \/ i \in 1..(n - 1)
      BY <1>1
    <3> QED BY <2>5, <3>1, <3>2, <3>3 DEF Range
  <2>8. Rearranges(PercolateDown(s), s)
    BY <2>5, PercolateDownEnds
  <2> QED BY <2>1, <2>3, <2>4, <2>6, <2>7, <2>8 DEF Rearranges
<1> QED BY <1>2, <1>3

(* Pushitem adds an element.                                               *)
LEMMA PushedElements ==
  ASSUME NEW h \in Seq(Nat), NEW id \in Nat, Distinct(h), id \notin Range(h)
  PROVE  /\ Pushed(h, id) \in Seq(Nat)
         /\ Distinct(Pushed(h, id))
         /\ Range(Pushed(h, id)) = Range(h) \cup {id}
<1> DEFINE n == Len(h)
           s == Append(h, id)
<1>1. n \in Nat /\ DOMAIN h = 1..n
  OBVIOUS
<1>2. /\ s \in Seq(Nat) /\ Len(s) = n + 1 /\ s # <<>> /\ DOMAIN s = 1..(n + 1)
      /\ s[n + 1] = id /\ \A i \in 1..n : s[i] = h[i]
  OBVIOUS
<1>3. Pushed(h, id) = PercolateUp(s)
  BY DEF Pushed
<1> HIDE DEF s
<1>4. \A i \in 1..n : h[i] # id
  BY <1>1 DEF Range
<1>5. \A i \in 1..(n + 1) : i = n + 1 \/ i \in 1..n
  BY <1>1
<1>6. \A i \in 1..n : i \in 1..(n + 1)
  BY <1>1
<1>7. n + 1 \in 1..(n + 1)
  BY <1>1
<1>8. Distinct(s)
  <2>1. SUFFICES ASSUME NEW i \in 1..(n + 1), NEW j \in 1..(n + 1), s[i] = s[j]
                 PROVE  i = j
    BY <1>2 DEF Distinct
  <2>2. CASE i \in 1..n /\ j \in 1..n
    BY <1>2, <2>1, <2>2 DEF Distinct
  <2> QED BY <1>2, <1>4, <1>5, <2>1, <2>2
<1> HIDE DEF n
<1>9. Range(s) = Range(h) \cup {id}
  BY <1>1, <1>2, <1>5, <1>6, <1>7 DEF Range
<1>10. Rearranges(PercolateUp(s), s)
  BY <1>2, PercolateUpEnds
<1> QED BY <1>3, <1>8, <1>9, <1>10 DEF Rearranges

(* A sequence without repetitions is as long as its range is large.        *)
LEMMA DistinctCardinality ==
  ASSUME NEW h \in Seq(Nat), Distinct(h)
  PROVE  Len(h) = Cardinality(Range(h))
<1>1. Len(h) \in Nat /\ DOMAIN h = 1..Len(h) /\ h \in [1..Len(h) -> Nat]
  OBVIOUS
<1>2. h \in [1..Len(h) -> Range(h)]
  BY <1>1 DEF Range
<1>3. /\ h \in Surjection(1..Len(h), Range(h))
      /\ h \in Injection(1..Len(h), Range(h))
  BY <1>1, <1>2 DEF Surjection, Injection, IsInjective, Range, Distinct
<1>4. IsFiniteSet(1..Len(h)) /\ Cardinality(1..Len(h)) = Len(h)
  <2>1. 1 \in Int /\ Len(h) \in Int
    BY <1>1
  <2>2. /\ IsFiniteSet(1..Len(h))
        /\ Cardinality(1..Len(h)) = IF 1 > Len(h) THEN 0 ELSE Len(h) - 1 + 1
    BY <2>1, FS_Interval, Zenon
  <2> QED BY <1>1, <2>2
<1> QED BY <1>3, <1>4, FS_Surjection

-----------------------------------------------------------------------------
(* The inductive invariant.                                                *)

IdsInv ==
  /\ heap \in Seq(Nat)
  /\ Distinct(heap)
  /\ bound \in 0..MaxGuid
  /\ used \cap Range(heap) = {}
  /\ used \cup Range(heap) = 1..bound

LEMMA InitIds == Init => IdsInv
<1>1. Range(<<>>) = {}
  BY DEF Range
<1> QED BY <1>1, GuidAssumption DEF Init, IdsInv, Distinct

(* GetGuid from the bound or from the heap.                                *)
LEMMA GetGuidKeepsIds == IdsInv /\ GetGuid => IdsInv'
<1> SUFFICES ASSUME IdsInv, GetGuid PROVE IdsInv'
  OBVIOUS
<1> USE GuidAssumption
<1>1. CASE /\ heap = <<>> /\ bound < MaxGuid /\ bound' = bound + 1
           /\ used' = used \cup {bound + 1} /\ UNCHANGED heap
  <2>1. Range(heap) = {}
    BY <1>1 DEF Range
  <2>2. 1..(bound + 1) = 1..bound \cup {bound + 1} /\ bound + 1 \in 0..MaxGuid
    BY <1>1 DEF IdsInv
  <2> QED BY <1>1, <2>1, <2>2 DEF IdsInv
<1>2. CASE /\ heap # <<>> /\ used' = used \cup {heap[1]}
           /\ heap' = Popped(heap) /\ UNCHANGED bound
  <2>1. /\ heap' \in Seq(Nat) /\ Distinct(heap')
        /\ Range(heap') = Range(heap) \ {heap[1]}
    BY <1>2, PoppedElements DEF IdsInv
  <2>2. heap[1] \in Range(heap)
    BY <1>2 DEF IdsInv, Range
  <2> QED BY <1>2, <2>1, <2>2 DEF IdsInv
<1> QED BY <1>1, <1>2 DEF GetGuid

LEMMA RecycleGuidKeepsIds ==
  ASSUME NEW id, IdsInv, RecycleGuid(id)
  PROVE  IdsInv'
<1>1. id \in 1..bound /\ id \notin Range(heap) /\ id \in Nat
  BY DEF IdsInv, RecycleGuid
<1>2. /\ heap' \in Seq(Nat) /\ Distinct(heap')
      /\ Range(heap') = Range(heap) \cup {id}
  BY <1>1, PushedElements DEF IdsInv, RecycleGuid
<1> QED BY <1>1, <1>2 DEF IdsInv, RecycleGuid

LEMMA StutterKeepsIds == IdsInv /\ UNCHANGED vars => IdsInv'
BY DEF IdsInv, vars

(* Both functions keep the ids apart and the heap without repetitions.     *)
THEOREM IdsInductive == Spec => []IdsInv
<1>1. IdsInv /\ [Next]_vars => IdsInv'
  BY GetGuidKeepsIds, RecycleGuidKeepsIds, StutterKeepsIds DEF Next
<1> QED BY InitIds, <1>1, PTL DEF Spec

(* GetGuid never hands out an id that a caller holds, and no id is lost:   *)
(* for every MaxGuid and every sequence of calls.                          *)
THEOREM GuidsPartitioned == Spec => []IdsPartitioned
<1>1. IdsInv => IdsPartitioned
  BY DistinctCardinality DEF IdsInv, IdsPartitioned
<1> QED BY <1>1, IdsInductive, PTL

-----------------------------------------------------------------------------
(* The refinement.                                                         *)

(* A call of GetGuid takes an id out of the set, or a new one when the set *)
(* is empty; RecycleGuid puts one back that is not there.                  *)
LEMMA StepAllocates ==
  ASSUME IdsInv, [Next]_vars
  PROVE  [Alloc!GuidNext]_(Alloc!guidVars)
<1> USE GuidAssumption
<1>1. CASE /\ heap = <<>> /\ bound < MaxGuid /\ bound' = bound + 1
           /\ UNCHANGED heap
  <2>1. Range(heap) = {}
    BY <1>1 DEF Range
  <2>2. bound + 1 \in 1..MaxGuid
    BY <1>1 DEF IdsInv
  <2>3. Alloc!Allocate(bound + 1)
    BY <1>1, <2>1 DEF Alloc!Allocate
  <2> QED BY <2>2, <2>3 DEF Alloc!GuidNext
<1>2. CASE heap # <<>> /\ heap' = Popped(heap) /\ UNCHANGED bound
  <2>1. Range(heap') = Range(heap) \ {heap[1]}
    BY <1>2, PoppedElements DEF IdsInv
  <2>2. heap[1] \in Range(heap) /\ heap[1] \in 1..MaxGuid
    <3>1. heap[1] \in Range(heap)
      BY <1>2 DEF IdsInv, Range
    <3>2. heap[1] \in 1..bound /\ bound \in 0..MaxGuid
      BY <3>1 DEF IdsInv
    <3> QED BY <3>1, <3>2
  <2>3. Alloc!Allocate(heap[1])
    BY <1>2, <2>1, <2>2 DEF Alloc!Allocate
  <2> QED BY <2>2, <2>3 DEF Alloc!GuidNext
<1>3. ASSUME NEW id \in 1..MaxGuid, RecycleGuid(id) PROVE Alloc!GuidNext
  <2>1. id \in 1..bound /\ id \notin Range(heap) /\ id \in Nat
    BY <1>3 DEF IdsInv, RecycleGuid
  <2>2. Range(heap') = Range(heap) \cup {id}
    BY <1>3, <2>1, PushedElements DEF IdsInv, RecycleGuid
  <2>3. Alloc!Recycle(id)
    BY <1>3, <2>2 DEF Alloc!Recycle, RecycleGuid
  <2> QED BY <2>1, <2>3 DEF Alloc!GuidNext
<1>4. CASE UNCHANGED vars
  BY <1>4 DEF vars, Alloc!guidVars
<1> QED BY <1>1, <1>2, <1>3, <1>4 DEF Next, GetGuid

(* Guid implements the set of free ids of GuidAlloc, of which RpcClient is *)
(* built: a new id only when none is free, and a free one otherwise.       *)
THEOREM GuidImplementsAlloc == Spec => ImplementsGuidAlloc
<1>1. Init => Alloc!GuidInit
  <2>1. Range(<<>>) = {}
    BY DEF Range
  <2> QED BY <2>1 DEF Init, Alloc!GuidInit
<1> QED BY <1>1, StepAllocates, IdsInductive, PTL
       DEF Spec, ImplementsGuidAlloc, Alloc!GuidSpec

=============================================================================
