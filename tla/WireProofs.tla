----------------------------- MODULE WireProofs -----------------------------
(***************************************************************************)
(* What is sent arrives: requests and results of any ids and names, in any *)
(* number, survive the encoding, the C strings, the framing and what was   *)
(* left in the result buffer.                                              *)
(***************************************************************************)
EXTENDS Wire, SequenceTheorems, WellFoundedInduction, TLAPS

-----------------------------------------------------------------------------
(* Recursion with a measure.                                               *)

(* Every set of naturals has a least element.                              *)
LEMMA LeastNatural ==
  ASSUME NEW S \in SUBSET Nat, S # {}
  PROVE  \E n \in S : \A m \in S : n <= m
<1>1. PICK n \in S : \A m \in S : <<m, n>> \notin OpToRel(<, Nat)
  BY WFMin, NatLessThanWellFounded
<1>2. \A m \in S : ~(m < n)
  BY <1>1 DEF OpToRel
<1> QED BY <1>2

(* A set with 0 and every successor holds all naturals.                    *)
LEMMA SetInduction ==
  ASSUME NEW S \in SUBSET Nat, 0 \in S, \A n \in S : n + 1 \in S
  PROVE  \A n \in Nat : n \in S
<1> DEFINE R == Nat \ S
<1>1. SUFFICES ASSUME R # {} PROVE FALSE
  OBVIOUS
<1>2. R \in SUBSET Nat
  OBVIOUS
<1> HIDE DEF R
<1>3. PICK n \in R : \A m \in R : n <= m
  BY <1>1, <1>2, LeastNatural
<1>4. n \in Nat /\ n # 0 /\ n - 1 \notin R
  BY <1>3 DEF R
<1>5. n - 1 \in S
  BY <1>4 DEF R
<1> QED BY <1>3, <1>4, <1>5 DEF R

(* f satisfies a recursion at d: base where it stops, otherwise what step  *)
(* makes of d and of the value at prev[d].                                 *)
Recurs(f, d, stop, base, prev, step) ==
  f[d] = IF d \in stop THEN base[d] ELSE step[<<d, f[prev[d]]>>]

(* A recursion from D to S, with a measure that prev lowers.               *)
Recursion(D, S, measure, stop, base, prev, step) ==
  /\ measure \in [D -> Nat]
  /\ base \in [D -> S]
  /\ prev \in [D -> D]
  /\ step \in [D \X S -> S]
  /\ \A d \in D : d \in stop \/ measure[prev[d]] < measure[d]

(* f is right up to measure n.                                             *)
RightTo(n, f, D, S, measure, stop, base, prev, step) ==
  /\ f \in [D -> S]
  /\ \A d \in D : measure[d] <= n => Recurs(f, d, stop, base, prev, step)

LEMMA RightToExists ==
  ASSUME NEW D, NEW S, NEW measure, NEW stop, NEW base, NEW prev, NEW step,
         Recursion(D, S, measure, stop, base, prev, step)
  PROVE  \A n \in Nat : \E f : RightTo(n, f, D, S, measure, stop, base, prev, step)
<1> DEFINE M == {n \in Nat :
                   \E f : RightTo(n, f, D, S, measure, stop, base, prev, step)}
<1>0. /\ measure \in [D -> Nat] /\ base \in [D -> S] /\ prev \in [D -> D]
      /\ step \in [D \X S -> S]
      /\ \A d \in D : d \in stop \/ measure[prev[d]] < measure[d]
  BY DEF Recursion
<1>1. 0 \in M
  <2>1. ASSUME NEW d \in D, measure[d] <= 0 PROVE d \in stop
    <3>1. measure[d] \in Nat /\ measure[prev[d]] \in Nat
      BY <1>0
    <3> QED BY <1>0, <2>1, <3>1
  <2>2. RightTo(0, base, D, S, measure, stop, base, prev, step)
    BY <1>0, <2>1 DEF RightTo, Recurs
  <2> QED BY <2>2
<1>2. ASSUME NEW n \in M PROVE n + 1 \in M
  <2>1. PICK f : RightTo(n, f, D, S, measure, stop, base, prev, step)
    OBVIOUS
  <2>2. /\ f \in [D -> S]
        /\ \A d \in D : measure[d] <= n =>
             f[d] = IF d \in stop THEN base[d] ELSE step[<<d, f[prev[d]]>>]
    BY <2>1 DEF RightTo, Recurs
  <2> DEFINE g == [d \in D |-> IF d \in stop THEN base[d] ELSE step[<<d, f[prev[d]]>>]]
  <2>3. g \in [D -> S]
    <3>1. \A d \in D : base[d] \in S /\ step[<<d, f[prev[d]]>>] \in S
      BY <1>0, <2>2
    <3> QED BY <3>1
  <2>4. \A d \in D : g[d] = IF d \in stop THEN base[d] ELSE step[<<d, f[prev[d]]>>]
    OBVIOUS
  <2> HIDE DEF g
  <2>5. ASSUME NEW d \in D, measure[d] <= n + 1
        PROVE  Recurs(g, d, stop, base, prev, step)
    <3>1. CASE d \in stop
      BY <2>4, <3>1 DEF Recurs
    <3>2. CASE d \notin stop
      <4>1. /\ prev[d] \in D /\ measure[prev[d]] \in Nat /\ measure[d] \in Nat
            /\ measure[prev[d]] < measure[d] /\ n \in Nat
        BY <1>0, <3>2
      <4>2. measure[prev[d]] <= n
        BY <2>5, <4>1
      <4>3. f[prev[d]] = g[prev[d]]
        <5>1. PICK e \in D : e = prev[d]
          BY <4>1
        <5>2. f[e] = IF e \in stop THEN base[e] ELSE step[<<e, f[prev[e]]>>]
          BY <2>2, <4>2, <5>1
        <5>3. g[e] = IF e \in stop THEN base[e] ELSE step[<<e, f[prev[e]]>>]
          BY <2>4
        <5> QED BY <5>1, <5>2, <5>3, Zenon
      <4> QED BY <2>4, <4>3 DEF Recurs
    <3> QED BY <3>1, <3>2
  <2>6. RightTo(n + 1, g, D, S, measure, stop, base, prev, step)
    BY <2>3, <2>5 DEF RightTo
  <2> QED BY <2>6
<1> HIDE DEF M
<1>3. M \in SUBSET Nat
  BY DEF M
<1>4. \A n \in Nat : n \in M
  BY <1>1, <1>2, <1>3, SetInduction
<1> QED BY <1>4 DEF M

(* Functions that are right up to n agree up to n.                         *)
LEMMA RightToAgree ==
  ASSUME NEW D, NEW S, NEW measure, NEW stop, NEW base, NEW prev, NEW step,
         Recursion(D, S, measure, stop, base, prev, step),
         NEW n \in Nat, NEW f, NEW g,
         RightTo(n, f, D, S, measure, stop, base, prev, step),
         RightTo(n, g, D, S, measure, stop, base, prev, step)
  PROVE  \A d \in D : measure[d] <= n => f[d] = g[d]
<1> DEFINE M == {k \in Nat : \A d \in D :
                   measure[d] <= n /\ measure[d] < k => f[d] = g[d]}
<1>0. /\ measure \in [D -> Nat] /\ prev \in [D -> D]
      /\ \A d \in D : d \in stop \/ measure[prev[d]] < measure[d]
      /\ \A d \in D : measure[d] <= n =>
           /\ f[d] = IF d \in stop THEN base[d] ELSE step[<<d, f[prev[d]]>>]
           /\ g[d] = IF d \in stop THEN base[d] ELSE step[<<d, g[prev[d]]>>]
  BY DEF Recursion, RightTo, Recurs
<1>1. 0 \in M
  BY <1>0
<1>2. ASSUME NEW k \in M PROVE k + 1 \in M
  <2>1. SUFFICES ASSUME NEW d \in D, measure[d] <= n, measure[d] < k + 1
                 PROVE  f[d] = g[d]
    OBVIOUS
  <2>2. CASE d \in stop
    BY <1>0, <2>1, <2>2
  <2>3. CASE d \notin stop
    <3>1. /\ prev[d] \in D /\ measure[prev[d]] \in Nat /\ measure[d] \in Nat
          /\ measure[prev[d]] < measure[d] /\ k \in Nat
      BY <1>0, <2>3
    <3>2. measure[prev[d]] <= n /\ measure[prev[d]] < k
      BY <2>1, <3>1
    <3>3. f[prev[d]] = g[prev[d]]
      BY <3>1, <3>2
    <3> QED BY <1>0, <2>1, <3>3
  <2> QED BY <2>2, <2>3
<1> HIDE DEF M
<1>3. M \in SUBSET Nat
  BY DEF M
<1>4. n + 1 \in M
  BY <1>1, <1>2, <1>3, SetInduction
<1>5. \A d \in D : measure[d] \in Nat
  BY <1>0
<1> QED BY <1>4, <1>5 DEF M

(* The recursion has a solution.                                           *)
LEMMA RecursionSolved ==
  ASSUME NEW D, NEW S, NEW measure, NEW stop, NEW base, NEW prev, NEW step,
         Recursion(D, S, measure, stop, base, prev, step)
  PROVE  \E f \in [D -> S] : \A d \in D : Recurs(f, d, stop, base, prev, step)
<1>0. /\ measure \in [D -> Nat] /\ prev \in [D -> D]
      /\ \A d \in D : d \in stop \/ measure[prev[d]] < measure[d]
  BY DEF Recursion
<1> DEFINE Right(n, f) == RightTo(n, f, D, S, measure, stop, base, prev, step)
           part == [n \in Nat |-> CHOOSE f : Right(n, f)]
           whole == [d \in D |-> part[measure[d]][d]]
<1>1. \A n \in Nat : Right(n, part[n])
  BY RightToExists
<1>2. \A d \in D : whole[d] = part[measure[d]][d]
  OBVIOUS
<1> HIDE DEF part
<1>3. whole \in [D -> S]
  <2>1. \A d \in D : part[measure[d]] \in [D -> S]
    BY <1>0, <1>1 DEF RightTo
  <2> QED BY <2>1
<1> HIDE DEF whole
<1>4. ASSUME NEW d \in D PROVE Recurs(whole, d, stop, base, prev, step)
  <2>0. measure[d] \in Nat /\ measure[d] <= measure[d]
    BY <1>0
  <2>1. Recurs(part[measure[d]], d, stop, base, prev, step)
    BY <1>1, <2>0 DEF RightTo
  <2>2. CASE d \in stop
    BY <1>2, <2>1, <2>2 DEF Recurs
  <2>3. CASE d \notin stop
    <3>1. /\ prev[d] \in D /\ measure[prev[d]] \in Nat
          /\ measure[prev[d]] < measure[d]
      BY <1>0, <2>3
    <3>2. Right(measure[prev[d]], part[measure[d]])
      <4>1. \A e \in D : measure[e] \in Nat
                /\ (measure[e] <= measure[prev[d]] => measure[e] <= measure[d])
        BY <1>0, <2>0, <3>1
      <4>2. Right(measure[d], part[measure[d]])
        BY <1>1, <2>0
      <4> QED BY <4>1, <4>2 DEF RightTo
    <3>3. Right(measure[prev[d]], part[measure[prev[d]]])
      BY <1>1, <3>1
    <3>4. part[measure[d]][prev[d]] = part[measure[prev[d]]][prev[d]]
      <4>1. measure[prev[d]] <= measure[prev[d]]
        BY <3>1
      <4> HIDE DEF Right
      <4>2. \A e \in D : measure[e] <= measure[prev[d]] =>
               part[measure[d]][e] = part[measure[prev[d]]][e]
        BY <3>1, <3>2, <3>3, RightToAgree DEF Right
      <4> QED BY <3>1, <4>1, <4>2
    <3>5. whole[prev[d]] = part[measure[d]][prev[d]]
      BY <1>2, <3>1, <3>4
    <3> QED BY <1>2, <2>1, <3>5 DEF Recurs
  <2> QED BY <2>2, <2>3
<1> QED BY <1>3, <1>4

(* f satisfies the recursion wherever that is defined.                     *)
Solves(f, D, S, stop, base, prev, step) ==
  \A d \in D : d \in stop \/ f[prev[d]] \in S
                => Recurs(f, d, stop, base, prev, step)

(* Every solution is a function to S.                                      *)
LEMMA RecursionTyped ==
  ASSUME NEW D, NEW S, NEW measure, NEW stop, NEW base, NEW prev, NEW step,
         Recursion(D, S, measure, stop, base, prev, step),
         NEW f, Solves(f, D, S, stop, base, prev, step)
  PROVE  \A d \in D : f[d] \in S
<1> DEFINE M == {k \in Nat : \A d \in D : measure[d] < k => f[d] \in S}
<1>0. /\ measure \in [D -> Nat] /\ base \in [D -> S] /\ prev \in [D -> D]
      /\ step \in [D \X S -> S]
      /\ \A d \in D : d \in stop \/ measure[prev[d]] < measure[d]
      /\ \A d \in D : d \in stop => f[d] = base[d]
      /\ \A d \in D : d \notin stop /\ f[prev[d]] \in S
                      => f[d] = step[<<d, f[prev[d]]>>]
  BY DEF Recursion, Recurs, Solves
<1>1. 0 \in M
  BY <1>0
<1>2. ASSUME NEW k \in M PROVE k + 1 \in M
  <2>1. SUFFICES ASSUME NEW d \in D, measure[d] < k + 1 PROVE f[d] \in S
    OBVIOUS
  <2>2. CASE d \in stop
    BY <1>0, <2>2
  <2>3. CASE d \notin stop
    <3>1. /\ prev[d] \in D /\ measure[prev[d]] \in Nat /\ measure[d] \in Nat
          /\ measure[prev[d]] < measure[d] /\ k \in Nat
      BY <1>0, <2>3
    <3>2. measure[prev[d]] < k
      BY <2>1, <3>1
    <3>3. f[prev[d]] \in S
      BY <3>1, <3>2
    <3> QED BY <1>0, <2>3, <3>3
  <2> QED BY <2>2, <2>3
<1> HIDE DEF M
<1>3. M \in SUBSET Nat
  BY DEF M
<1>4. \A k \in Nat : k \in M
  BY <1>1, <1>2, <1>3, SetInduction
<1>5. ASSUME NEW d \in D PROVE f[d] \in S
  <2>1. measure[d] \in Nat /\ measure[d] + 1 \in Nat /\ measure[d] < measure[d] + 1
    BY <1>0
  <2>2. measure[d] + 1 \in M
    BY <1>4, <2>1
  <2> QED BY <2>1, <2>2 DEF M
<1> QED BY <1>5

-----------------------------------------------------------------------------
(* The recursive functions of the encoding are well defined.               *)

LEMMA VarintDef ==
  ASSUME NEW n \in Nat
  PROVE  /\ Varint[n] = IF n < 128 THEN <<n>>
                        ELSE <<128 + (n % 128)>> \o Varint[n \div 128]
         /\ Varint[n] \in Seq(Nat)
<1> DEFINE measure == [k \in Nat |-> k]
           stop == {k \in Nat : k < 128}
           base == [k \in Nat |-> <<k>>]
           prev == [k \in Nat |-> k \div 128]
           step == [p \in Nat \X Seq(Nat) |-> <<128 + (p[1] % 128)>> \o p[2]]
           Body(f, k) == IF k < 128 THEN <<k>>
                         ELSE <<128 + (k % 128)>> \o f[k \div 128]
<1>1. Recursion(Nat, Seq(Nat), measure, stop, base, prev, step)
  <2>1. measure \in [Nat -> Nat] /\ prev \in [Nat -> Nat]
    OBVIOUS
  <2>2. base \in [Nat -> Seq(Nat)]
    OBVIOUS
  <2>3. step \in [Nat \X Seq(Nat) -> Seq(Nat)]
    <3>1. \A p \in Nat \X Seq(Nat) : 128 + (p[1] % 128) \in Nat /\ p[2] \in Seq(Nat)
      OBVIOUS
    <3>2. \A a \in Nat, s \in Seq(Nat) : <<a>> \o s \in Seq(Nat)
      OBVIOUS
    <3> QED BY <3>1, <3>2
  <2>4. \A k \in Nat : k \in stop \/ measure[prev[k]] < measure[k]
    OBVIOUS
  <2> QED BY <2>1, <2>2, <2>3, <2>4 DEF Recursion
<1>2. ASSUME NEW f, NEW k \in Nat, k < 128 \/ f[k \div 128] \in Seq(Nat)
      PROVE  Recurs(f, k, stop, base, prev, step) <=> f[k] = Body(f, k)
  <2>1. prev[k] = k \div 128 /\ base[k] = <<k>> /\ (k \in stop <=> k < 128)
    OBVIOUS
  <2>2. CASE k < 128
    <3> HIDE DEF prev, base, stop, step
    <3> QED BY <2>1, <2>2, Zenon DEF Recurs
  <2>3. CASE ~(k < 128)
    <3>1. step[<<k, f[k \div 128]>>] = <<128 + (k % 128)>> \o f[k \div 128]
      BY <1>2, <2>3
    <3> HIDE DEF prev, base, stop, step
    <3> QED BY <2>1, <2>3, <3>1, Zenon DEF Recurs
  <2> QED BY <2>2, <2>3
<1>3. \A k \in Nat : (k \in stop <=> k < 128) /\ prev[k] = k \div 128
  OBVIOUS
<1>4. \A k \in Nat : k \div 128 \in Nat
  OBVIOUS
<1> HIDE DEF stop, base, prev, step, measure, Body
<1>5. PICK f \in [Nat -> Seq(Nat)] :
        \A k \in Nat : Recurs(f, k, stop, base, prev, step)
  BY <1>1, RecursionSolved
<1>6. f = [k \in Nat |-> Body(f, k)]
  <2>1. \A k \in Nat : f[k] = Body(f, k)
    BY <1>2, <1>4, <1>5
  <2> QED BY <1>5, <2>1
<1> DEFINE F == CHOOSE g : g = [k \in Nat |-> Body(g, k)]
<1>7. Varint = F
  BY DEF Varint, Body
<1>8. F = [k \in Nat |-> Body(F, k)]
  BY <1>6
<1> HIDE DEF F
<1>9. \A k \in Nat : Varint[k] = Body(Varint, k)
  BY <1>7, <1>8, Zenon
<1>10. \A k \in Nat : Varint[k] \in Seq(Nat)
  <2>1. ASSUME NEW k \in Nat, k \in stop \/ Varint[prev[k]] \in Seq(Nat)
        PROVE  Recurs(Varint, k, stop, base, prev, step)
    BY <1>2, <1>3, <1>9, <2>1
  <2>2. Solves(Varint, Nat, Seq(Nat), stop, base, prev, step)
    BY <2>1 DEF Solves
  <2> QED BY <1>1, <2>2, RecursionTyped
<1> QED BY <1>9, <1>10 DEF Body

(* What ReadVarint returns.                                                *)
Numbers == [val : Nat, rest : Seq(Nat)]

LEMMA ReadVarintDef ==
  ASSUME NEW b \in Seq(Nat)
  PROVE  /\ ReadVarint[b] =
              IF b = <<>> THEN [val |-> 0, rest |-> <<>>]
              ELSE IF b[1] < 128 THEN [val |-> b[1], rest |-> Tail(b)]
              ELSE [val |-> b[1] - 128 + 128 * ReadVarint[Tail(b)].val,
                    rest |-> ReadVarint[Tail(b)].rest]
         /\ ReadVarint[b] \in Numbers
<1> DEFINE D == Seq(Nat)
           stop == {c \in D : c = <<>> \/ c[1] < 128}
           measure == [c \in D |-> Len(c)]
           base == [c \in D |-> IF c = <<>> THEN [val |-> 0, rest |-> <<>>]
                                ELSE [val |-> c[1], rest |-> Tail(c)]]
           prev == [c \in D |-> IF c = <<>> THEN c ELSE Tail(c)]
           Add(c, r) == [val |-> c[1] - 128 + 128 * r.val, rest |-> r.rest]
           step == [p \in D \X Numbers |->
                      IF p[1] \in stop THEN p[2] ELSE Add(p[1], p[2])]
           Body(f, c) == IF c = <<>> THEN [val |-> 0, rest |-> <<>>]
                         ELSE IF c[1] < 128 THEN [val |-> c[1], rest |-> Tail(c)]
                         ELSE Add(c, f[Tail(c)])
<1>0. \A c \in D : c # <<>> => /\ c[1] \in Nat /\ Tail(c) \in D
                               /\ Len(c) \in Nat /\ Len(Tail(c)) = Len(c) - 1
  OBVIOUS
<1>1. Recursion(D, Numbers, measure, stop, base, prev, step)
  <2>1. measure \in [D -> Nat] /\ prev \in [D -> D]
    BY <1>0
  <2>2. base \in [D -> Numbers]
    <3>1. [val |-> 0, rest |-> <<>>] \in Numbers
      BY DEF Numbers
    <3>2. \A c \in D : c # <<>> => [val |-> c[1], rest |-> Tail(c)] \in Numbers
      BY <1>0 DEF Numbers
    <3> QED BY <3>1, <3>2
  <2>3. step \in [D \X Numbers -> Numbers]
    <3>1. ASSUME NEW c \in D, NEW r \in Numbers, c \notin stop
          PROVE  Add(c, r) \in Numbers
      <4>1. c # <<>> /\ ~(c[1] < 128) /\ c[1] \in Nat
        BY <1>0, <3>1
      <4>2. r.val \in Nat /\ r.rest \in Seq(Nat)
        BY DEF Numbers
      <4>3. c[1] - 128 + 128 * r.val \in Nat
        BY <4>1, <4>2
      <4> QED BY <4>2, <4>3 DEF Numbers
    <3> HIDE DEF Add, stop, D
    <3> QED BY <3>1
  <2>4. \A c \in D : c \in stop \/ measure[prev[c]] < measure[c]
    <3>1. TAKE c \in D
    <3>2. CASE c # <<>>
      <4>1. /\ prev[c] = Tail(c) /\ measure[prev[c]] = Len(Tail(c))
            /\ measure[c] = Len(c)
        BY <1>0, <3>2
      <4> QED BY <1>0, <3>2, <4>1
    <3> QED BY <3>2
  <2> QED BY <2>1, <2>2, <2>3, <2>4 DEF Recursion
<1>2. ASSUME NEW f, NEW c \in D, c \in stop \/ f[prev[c]] \in Numbers
      PROVE  Recurs(f, c, stop, base, prev, step) <=> f[c] = Body(f, c)
  <2>1. CASE c \in stop
    <3>1. base[c] = Body(f, c)
      BY <2>1
    <3> HIDE DEF base, Body
    <3> QED BY <2>1, <3>1 DEF Recurs
  <2>2. CASE c \notin stop
    <3>1. c # <<>> /\ ~(c[1] < 128) /\ prev[c] = Tail(c) /\ Body(f, c) = Add(c, f[Tail(c)])
      BY <2>2
    <3>2. step[<<c, f[prev[c]]>>] = Add(c, f[prev[c]])
      <4> HIDE DEF Add, stop, prev, D
      <4> QED BY <1>2, <2>2
    <3> HIDE DEF Add, stop, prev, step, Body
    <3> QED BY <2>2, <3>1, <3>2, Zenon DEF Recurs
  <2> QED BY <2>1, <2>2
<1> HIDE DEF stop, base, prev, step, Body, measure
<1>3. PICK f \in [D -> Numbers] :
        \A c \in D : Recurs(f, c, stop, base, prev, step)
  BY <1>1, RecursionSolved
<1>4. f = [c \in D |-> Body(f, c)]
  <2>1. \A c \in D : prev[c] \in D
    BY <1>1 DEF Recursion
  <2>2. \A c \in D : f[c] = Body(f, c)
    BY <1>2, <1>3, <2>1
  <2> QED BY <1>3, <2>2
<1> DEFINE F == CHOOSE g : g = [c \in D |-> Body(g, c)]
<1>5. ReadVarint = F
  BY DEF ReadVarint, Body
<1>6. \A c \in D : ReadVarint[c] = Body(ReadVarint, c)
  <2>1. F = [c \in D |-> Body(F, c)]
    BY <1>4
  <2> HIDE DEF F, D
  <2> QED BY <1>5, <2>1, Zenon
<1>7. \A c \in D : ReadVarint[c] \in Numbers
  <2>1. Solves(ReadVarint, D, Numbers, stop, base, prev, step)
    BY <1>2, <1>6 DEF Solves
  <2> QED BY <1>1, <2>1, RecursionTyped
<1> QED BY <1>6, <1>7 DEF Body

(* A last byte, and one that is not the last.                              *)
LEMMA ReadVarintLast ==
  ASSUME NEW b \in Seq(Nat), b # <<>>, b[1] < 128
  PROVE  ReadVarint[b] = [val |-> b[1], rest |-> Tail(b)]
BY ReadVarintDef, Zenon

LEMMA ReadVarintMore ==
  ASSUME NEW b \in Seq(Nat), b # <<>>, ~(b[1] < 128)
  PROVE  ReadVarint[b] = [val |-> b[1] - 128 + 128 * ReadVarint[Tail(b)].val,
                          rest |-> ReadVarint[Tail(b)].rest]
BY ReadVarintDef, Zenon

LEMMA ReadVarintType ==
  ASSUME NEW b \in Seq(Nat)
  PROVE  ReadVarint[b].val \in Nat /\ ReadVarint[b].rest \in Seq(Nat)
<1>1. ReadVarint[b] \in Numbers
  BY ReadVarintDef
<1> QED BY <1>1 DEF Numbers

(* ReadVarint leaves no more than there was.                               *)
LEMMA ReadVarintShrinks ==
  ASSUME NEW b \in Seq(Nat)
  PROVE  Len(ReadVarint[b].rest) <= Len(b)
<1> DEFINE M == {n \in Nat : \A c \in Seq(Nat) :
                   Len(c) = n => Len(ReadVarint[c].rest) <= n}
<1>1. 0 \in M
  <2>1. SUFFICES ASSUME NEW c \in Seq(Nat), Len(c) = 0
                 PROVE  Len(ReadVarint[c].rest) <= 0
    OBVIOUS
  <2>2. c = <<>>
    BY <2>1
  <2>3. ReadVarint[c] = [val |-> 0, rest |-> <<>>]
    BY <2>2, ReadVarintDef, Zenon
  <2> QED BY <2>3
<1>2. ASSUME NEW n \in M PROVE n + 1 \in M
  <2>1. SUFFICES ASSUME NEW c \in Seq(Nat), Len(c) = n + 1
                 PROVE  Len(ReadVarint[c].rest) <= n + 1
    OBVIOUS
  <2>2. c # <<>> /\ Tail(c) \in Seq(Nat) /\ Len(Tail(c)) = n
    BY <2>1
  <2>3. ReadVarint[Tail(c)].rest \in Seq(Nat) /\ Len(ReadVarint[Tail(c)].rest) <= n
    BY <2>2, ReadVarintType
  <2>4. ReadVarint[c].rest = Tail(c) \/ ReadVarint[c].rest = ReadVarint[Tail(c)].rest
    <3>1. CASE c[1] < 128
      <4>1. ReadVarint[c] = [val |-> c[1], rest |-> Tail(c)]
        BY <2>2, <3>1, ReadVarintLast, Zenon
      <4> QED BY <4>1
    <3>2. CASE ~(c[1] < 128)
      <4>1. ReadVarint[c] = [val |-> c[1] - 128 + 128 * ReadVarint[Tail(c)].val,
                             rest |-> ReadVarint[Tail(c)].rest]
        BY <2>2, <3>2, ReadVarintMore, Zenon
      <4>2. PICK x, y : x = c[1] - 128 + 128 * ReadVarint[Tail(c)].val
                        /\ y = ReadVarint[Tail(c)].rest
        OBVIOUS
      <4>3. ReadVarint[c] = [val |-> x, rest |-> y]
        BY <4>1, <4>2, Zenon
      <4>4. ReadVarint[c].rest = y
        BY <4>3
      <4> QED BY <4>2, <4>4, Zenon
    <3> QED BY <3>1, <3>2
  <2>5. n \in Nat /\ Len(ReadVarint[Tail(c)].rest) \in Nat
    BY <2>3
  <2> QED BY <2>2, <2>3, <2>4, <2>5
<1> HIDE DEF M
<1>3. M \in SUBSET Nat
  BY DEF M
<1>4. \A n \in Nat : n \in M
  BY <1>1, <1>2, <1>3, SetInduction
<1>5. Len(b) \in Nat
  OBVIOUS
<1> QED BY <1>4, <1>5 DEF M

(* A field that is read leaves fewer bytes.                                *)
LEMMA ReadFieldShrinks ==
  ASSUME NEW p \in Parsers, AtField(p)
  PROVE  ReadField(p) \in Parsers /\ Len(ReadField(p).rest) < Len(p.rest)
<1> DEFINE b == p.rest
           v == ReadVarint[Tail(b)]
<1>1. p.msg \in Messages /\ b \in Seq(Nat) /\ b # <<>>
  BY DEF Parsers, AtField
<1>2. Tail(b) \in Seq(Nat) /\ Len(Tail(b)) = Len(b) - 1 /\ Len(b) \in Nat
  BY <1>1
<1>3. v.val \in Nat /\ v.rest \in Seq(Nat) /\ Len(v.rest) <= Len(b) - 1
  <2>1. v.val \in Nat /\ v.rest \in Seq(Nat)
    BY <1>2, ReadVarintType
  <2>2. Len(v.rest) <= Len(Tail(b))
    BY <1>2, ReadVarintShrinks
  <2> QED BY <1>2, <2>1, <2>2
<1> HIDE DEF v, b
<1>4. CASE b[1] = IntTag
  <2>1. ReadField(p) = [msg |-> [p.msg EXCEPT !.int = v.val], rest |-> v.rest]
    BY <1>4 DEF ReadField, b, v
  <2>2. [p.msg EXCEPT !.int = v.val] \in Messages
    BY <1>1, <1>3 DEF Messages
  <2>3. Len(v.rest) \in Nat
    BY <1>3
  <2> QED BY <1>2, <1>3, <2>1, <2>2, <2>3 DEF Parsers, b
<1>5. CASE b[1] # IntTag
  <2>1. v.val <= Len(v.rest)
    BY <1>5 DEF AtField, b, v
  <2> DEFINE str == SubSeq(v.rest, 1, v.val)
             rest == SubSeq(v.rest, v.val + 1, Len(v.rest))
  <2>2. ReadField(p) = [msg |-> [p.msg EXCEPT !.str = str], rest |-> rest]
    BY <1>5 DEF ReadField, b, v
  <2>3. str \in Seq(Nat) /\ rest \in Seq(Nat)
    <3>1. \A i \in 1..Len(v.rest) : v.rest[i] \in Nat
      BY <1>3
    <3>2. Len(v.rest) \in Nat
      BY <1>3
    <3>3. str \in Seq(Nat)
      BY <1>3, <2>1, <3>1, <3>2, SubSeqProperties
    <3>4. rest \in Seq(Nat)
      BY <1>3, <2>1, <3>1, <3>2, SubSeqProperties
    <3> QED BY <3>3, <3>4
  <2>4. Len(rest) = Len(v.rest) - v.val
    <3>1. PICK k \in Nat, n \in Nat : k = v.val /\ n = Len(v.rest)
      BY <1>3
    <3>2. \A i \in (k + 1)..n : v.rest[i] \in Nat
      <4>1. \A i \in (k + 1)..n : i \in 1..Len(v.rest)
        BY <3>1
      <4> QED BY <1>3, <4>1, ElementOfSeq
    <3>3. Len(SubSeq(v.rest, k + 1, n)) = IF k + 1 <= n THEN n - (k + 1) + 1 ELSE 0
      BY <3>1, <3>2, SubSeqProperties
    <3> QED BY <2>1, <3>1, <3>3
  <2> HIDE DEF str, rest
  <2>5. [p.msg EXCEPT !.str = str] \in Messages
    BY <1>1, <2>3 DEF Messages
  <2>6. Len(v.rest) \in Nat
    BY <1>3
  <2>7. ReadField(p) \in Parsers /\ ReadField(p).rest = rest
    BY <2>2, <2>3, <2>5 DEF Parsers
  <2>8. Len(rest) < Len(b)
    BY <1>2, <1>3, <2>4, <2>6
  <2> QED BY <2>7, <2>8 DEF b
<1> QED BY <1>4, <1>5

LEMMA ParseFieldsDef ==
  ASSUME NEW p \in Parsers
  PROVE  ParseFields[p] = IF AtField(p) THEN ParseFields[ReadField(p)] ELSE p.msg
<1> DEFINE D == Parsers
           stop == {q \in D : ~AtField(q)}
           measure == [q \in D |-> Len(q.rest)]
           base == [q \in D |-> q.msg]
           prev == [q \in D |-> IF AtField(q) THEN ReadField(q) ELSE q]
           step == [x \in D \X Messages |-> x[2]]
           Body(f, q) == IF AtField(q) THEN f[ReadField(q)] ELSE q.msg
<1>0. \A q \in D : q.rest \in Seq(Nat) /\ q.msg \in Messages /\ Len(q.rest) \in Nat
  BY DEF Parsers
<1>1. Recursion(D, Messages, measure, stop, base, prev, step)
  <2>1. measure \in [D -> Nat] /\ base \in [D -> Messages]
        /\ step \in [D \X Messages -> Messages]
    BY <1>0
  <2>2. prev \in [D -> D]
    BY ReadFieldShrinks
  <2>3. \A q \in D : q \in stop \/ measure[prev[q]] < measure[q]
    <3>1. TAKE q \in D
    <3>2. CASE AtField(q)
      <4>1. prev[q] = ReadField(q) /\ ReadField(q) \in D
            /\ Len(ReadField(q).rest) < Len(q.rest)
        BY <3>2, ReadFieldShrinks
      <4>2. measure[prev[q]] = Len(ReadField(q).rest) /\ measure[q] = Len(q.rest)
        BY <4>1
      <4> QED BY <4>1, <4>2
    <3> QED BY <3>2
  <2> QED BY <2>1, <2>2, <2>3 DEF Recursion
<1>2. ASSUME NEW f \in [D -> Messages], NEW q \in D
      PROVE  Recurs(f, q, stop, base, prev, step) <=> f[q] = Body(f, q)
  <2>1. CASE ~AtField(q)
    <3>1. q \in stop /\ base[q] = q.msg
      BY <2>1
    <3> QED BY <2>1, <3>1 DEF Recurs
  <2>2. CASE AtField(q)
    <3>1. q \notin stop /\ prev[q] = ReadField(q) /\ ReadField(q) \in D
      BY <2>2, ReadFieldShrinks
    <3>2. step[<<q, f[ReadField(q)]>>] = f[ReadField(q)]
      BY <3>1
    <3> HIDE DEF stop, prev, step
    <3> QED BY <2>2, <3>1, <3>2, Zenon DEF Recurs
  <2> QED BY <2>1, <2>2
<1> HIDE DEF stop, base, prev, step, Body, measure
<1>3. PICK f \in [D -> Messages] :
        \A q \in D : Recurs(f, q, stop, base, prev, step)
  BY <1>1, RecursionSolved
<1>4. f = [q \in D |-> Body(f, q)]
  <2>1. \A q \in D : f[q] = Body(f, q)
    BY <1>2, <1>3
  <2> QED BY <1>3, <2>1
<1> DEFINE F == CHOOSE g : g = [q \in D |-> Body(g, q)]
<1>5. ParseFields = F
  BY DEF ParseFields, Body
<1>6. F = [q \in D |-> Body(F, q)]
  BY <1>4
<1> HIDE DEF F
<1>7. ParseFields[p] = Body(ParseFields, p)
  BY <1>5, <1>6, Zenon
<1> QED BY <1>7 DEF Body

-----------------------------------------------------------------------------
(* Sequences.                                                              *)

Joins(s, t, u) == (s \o t) \o u = s \o (t \o u)

LEMMA Associative ==
  ASSUME NEW S, NEW s \in Seq(S), NEW t \in Seq(S), NEW u \in Seq(S)
  PROVE  Joins(s, t, u)
<1>1. (s \o t) \o u = s \o (t \o u)
  BY ConcatAssociative
<1> QED BY <1>1 DEF Joins

(* The first element and the rest.                                         *)
LEMMA Cons ==
  ASSUME NEW S, NEW a \in S, NEW s \in Seq(S)
  PROVE  /\ <<a>> \o s \in Seq(S)
         /\ <<a>> \o s # <<>>
         /\ (<<a>> \o s)[1] = a
         /\ Tail(<<a>> \o s) = s
         /\ Len(<<a>> \o s) = Len(s) + 1
<1>1. <<a>> \o s \in Seq(S) /\ Len(<<a>> \o s) = Len(s) + 1 /\ Len(s) \in Nat
  OBVIOUS
<1>2. (<<a>> \o s)[1] = a
  OBVIOUS
<1>3. Tail(<<a>> \o s) = s
  OBVIOUS
<1> QED BY <1>1, <1>2, <1>3

(* A number that was encoded is read back, whatever follows it.            *)
LEMMA VarintRead ==
  ASSUME NEW n \in Nat, NEW rest \in Seq(Nat)
  PROVE  ReadVarint[Varint[n] \o rest] = [val |-> n, rest |-> rest]
<1> DEFINE Reads(k) == ReadVarint[Varint[k] \o rest] = [val |-> k, rest |-> rest]
           M == {m \in Nat : \A k \in 0..m : Reads(k)}
<1>1. ASSUME NEW k \in Nat, k < 128 PROVE Reads(k)
  <2>1. Varint[k] = <<k>>
    BY <1>1, VarintDef, Zenon
  <2>2. <<k>> \o rest \in Seq(Nat) /\ <<k>> \o rest # <<>>
        /\ (<<k>> \o rest)[1] = k /\ Tail(<<k>> \o rest) = rest
    BY Cons
  <2>3. ReadVarint[<<k>> \o rest] = [val |-> k, rest |-> rest]
    <3> DEFINE c == <<k>> \o rest
    <3>1. c \in Seq(Nat) /\ c # <<>> /\ c[1] < 128 /\ c[1] = k /\ Tail(c) = rest
      BY <1>1, <2>2
    <3> HIDE DEF c
    <3>2. ReadVarint[c] = [val |-> c[1], rest |-> Tail(c)]
      BY <3>1, ReadVarintLast
    <3> QED BY <3>1, <3>2 DEF c
  <2> QED BY <2>1, <2>3
<1>2. ASSUME NEW k \in Nat, ~(k < 128), Reads(k \div 128) PROVE Reads(k)
  <2> DEFINE q == k \div 128
             a == 128 + (k % 128)
             tail == Varint[q] \o rest
  <2>1. q \in Nat /\ a \in Nat /\ ~(a < 128) /\ a - 128 + 128 * q = k
    BY <1>2
  <2>2. Varint[k] = <<a>> \o Varint[q]
    BY <1>2, VarintDef, Zenon
  <2>3. ReadVarint[tail] = [val |-> q, rest |-> rest]
    BY <1>2
  <2> HIDE DEF q, a
  <2>4. Varint[q] \in Seq(Nat) /\ <<a>> \in Seq(Nat) /\ tail \in Seq(Nat)
    <3>1. Varint[q] \in Seq(Nat)
      BY <2>1, VarintDef
    <3> QED BY <2>1, <3>1
  <2>5. Varint[k] \o rest = <<a>> \o tail
    <3>1. Joins(<<a>>, Varint[q], rest)
      BY <2>4, Associative
    <3> QED BY <2>2, <3>1, Zenon DEF Joins
  <2> HIDE DEF tail
  <2>6. <<a>> \o tail \in Seq(Nat) /\ <<a>> \o tail # <<>>
        /\ (<<a>> \o tail)[1] = a /\ Tail(<<a>> \o tail) = tail
    BY <2>1, <2>4, Cons
  <2>7. ReadVarint[<<a>> \o tail] =
          [val |-> a - 128 + 128 * ReadVarint[tail].val, rest |-> ReadVarint[tail].rest]
    <3> DEFINE c == <<a>> \o tail
    <3>1. c \in Seq(Nat) /\ c # <<>> /\ ~(c[1] < 128) /\ c[1] = a /\ Tail(c) = tail
      BY <2>1, <2>6
    <3> HIDE DEF c
    <3>2. ReadVarint[c] = [val |-> c[1] - 128 + 128 * ReadVarint[Tail(c)].val,
                           rest |-> ReadVarint[Tail(c)].rest]
      BY <3>1, ReadVarintMore
    <3> QED BY <3>1, <3>2 DEF c
  <2>8. ReadVarint[<<a>> \o tail] = [val |-> k, rest |-> rest]
    BY <2>1, <2>3, <2>7
  <2> QED BY <2>5, <2>8
<1> HIDE DEF Reads
<1>3. 0 \in M
  BY <1>1
<1>4. ASSUME NEW m \in M PROVE m + 1 \in M
  <2>1. m \in Nat /\ \A k \in 0..m : Reads(k)
    OBVIOUS
  <2>2. Reads(m + 1)
    <3>1. CASE m + 1 < 128
      BY <1>1, <2>1, <3>1
    <3>2. CASE ~(m + 1 < 128)
      <4>1. (m + 1) \div 128 \in 0..m
        BY <2>1, <3>2
      <4> QED BY <1>2, <2>1, <3>2, <4>1
    <3> QED BY <3>1, <3>2
  <2> QED BY <2>1, <2>2
<1> HIDE DEF M
<1>5. M \in SUBSET Nat
  BY DEF M
<1>6. n \in M
  BY <1>3, <1>4, <1>5, SetInduction
<1>7. Reads(n)
  BY <1>6 DEF M
<1> QED BY <1>7 DEF Reads

-----------------------------------------------------------------------------
(* proto3.                                                                 *)

(* What the applications send: strings without a zero byte.                *)
Sendable == {m \in Messages : m.str \in Seq(1..255)}

(* Bytes that a C string can hold.                                         *)
Clean(b) == b \in Seq(Nat) /\ \A i \in 1..Len(b) : b[i] # 0

LEMMA TextClean ==
  ASSUME NEW s \in Seq(1..255)
  PROVE  Clean(s)
<1>1. \A i \in 1..Len(s) : s[i] \in 1..255
  BY ElementOfSeq
<1>2. 1..255 \subseteq Nat /\ \A k \in 1..255 : k # 0
  OBVIOUS
<1>3. s \in Seq(Nat)
  BY <1>2, SeqMonotonic
<1> QED BY <1>1, <1>2, <1>3 DEF Clean

LEMMA CleanConcat ==
  ASSUME NEW s, NEW t, Clean(s), Clean(t)
  PROVE  Clean(s \o t)
BY DEF Clean

LEMMA CleanByte ==
  ASSUME NEW a \in Nat, a # 0
  PROVE  Clean(<<a>>)
BY DEF Clean

(* The encoding of a number that is not zero contains no zero byte.        *)
LEMMA VarintClean ==
  ASSUME NEW n \in Nat, n # 0
  PROVE  Clean(Varint[n])
<1> DEFINE Good(k) == k # 0 => Clean(Varint[k])
           M == {m \in Nat : \A k \in 0..m : Good(k)}
<1>1. ASSUME NEW k \in Nat, k < 128 PROVE Good(k)
  <2>1. Varint[k] = <<k>>
    BY <1>1, VarintDef, Zenon
  <2> QED BY <2>1, CleanByte
<1>2. ASSUME NEW k \in Nat, ~(k < 128), Good(k \div 128) PROVE Good(k)
  <2>1. /\ k \div 128 # 0 /\ k \div 128 \in Nat
        /\ 128 + (k % 128) \in Nat /\ 128 + (k % 128) # 0
    BY <1>2
  <2>2. Varint[k] = <<128 + (k % 128)>> \o Varint[k \div 128]
    BY <1>2, VarintDef, Zenon
  <2>3. Clean(<<128 + (k % 128)>>) /\ Clean(Varint[k \div 128])
    BY <1>2, <2>1, CleanByte
  <2> QED BY <2>2, <2>3, CleanConcat
<1> HIDE DEF Good
<1>3. 0 \in M
  BY <1>1
<1>4. ASSUME NEW m \in M PROVE m + 1 \in M
  <2>1. m \in Nat /\ \A k \in 0..m : Good(k)
    OBVIOUS
  <2>2. Good(m + 1)
    <3>1. CASE m + 1 < 128
      BY <1>1, <2>1, <3>1
    <3>2. CASE ~(m + 1 < 128)
      <4>1. (m + 1) \div 128 \in 0..m
        BY <2>1, <3>2
      <4> QED BY <1>2, <2>1, <3>2, <4>1
    <3> QED BY <3>1, <3>2
  <2> QED BY <2>1, <2>2
<1> HIDE DEF M
<1>5. M \in SUBSET Nat
  BY DEF M
<1>6. n \in M
  BY <1>3, <1>4, <1>5, SetInduction
<1>7. Good(n)
  BY <1>6 DEF M
<1> QED BY <1>7 DEF Good

(* The two fields of an encoded message.                                   *)
IntField(m) == IF m.int = 0 THEN <<>> ELSE <<IntTag>> \o Varint[m.int]
StrField(m) == IF m.str = <<>> THEN <<>>
               ELSE <<StrTag(m.type)>> \o Varint[Len(m.str)] \o m.str

LEMMA FieldsClean ==
  ASSUME NEW m \in Sendable
  PROVE  /\ Clean(IntField(m)) /\ Clean(StrField(m))
         /\ SerializeAsString(m) = IntField(m) \o StrField(m)
         /\ Clean(SerializeAsString(m))
<1>0. m.int \in Nat /\ m.str \in Seq(1..255) /\ Clean(<<>>)
  BY DEF Sendable, Messages, Clean
<1>1. Clean(IntField(m))
  <2>1. CASE m.int = 0
    BY <1>0, <2>1 DEF IntField
  <2>2. CASE m.int # 0
    <3>1. Clean(<<IntTag>>) /\ Clean(Varint[m.int])
      BY <1>0, <2>2, CleanByte, VarintClean DEF IntTag
    <3> QED BY <2>2, <3>1, CleanConcat DEF IntField
  <2> QED BY <2>1, <2>2
<1>2. Clean(StrField(m))
  <2>1. CASE m.str = <<>>
    BY <1>0, <2>1 DEF StrField
  <2>2. CASE m.str # <<>>
    <3>1. Len(m.str) \in Nat /\ Len(m.str) # 0
      BY <1>0, <2>2
    <3>2. StrTag(m.type) \in Nat /\ StrTag(m.type) # 0
      BY DEF StrTag
    <3>3. Clean(<<StrTag(m.type)>>) /\ Clean(Varint[Len(m.str)]) /\ Clean(m.str)
      BY <1>0, <3>1, <3>2, CleanByte, VarintClean, TextClean
    <3>4. Clean(<<StrTag(m.type)>> \o Varint[Len(m.str)])
      BY <3>3, CleanConcat
    <3>5. Clean((<<StrTag(m.type)>> \o Varint[Len(m.str)]) \o m.str)
      BY <3>3, <3>4, CleanConcat
    <3> QED BY <2>2, <3>5 DEF StrField
  <2> QED BY <2>1, <2>2
<1>3. SerializeAsString(m) = IntField(m) \o StrField(m)
  BY DEF SerializeAsString, IntField, StrField
<1> QED BY <1>1, <1>2, <1>3, CleanConcat

(* A message that was encoded is parsed to itself.                         *)
LEMMA Parsed ==
  ASSUME NEW m \in Sendable
  PROVE  ParseFromString(m.type, SerializeAsString(m)) = m
<1> DEFINE Msg(n, s) == [type |-> m.type, int |-> n, str |-> s]
           P(n, s, b) == [msg |-> Msg(n, s), rest |-> b]
           B == StrField(m)
<1>0. /\ m.int \in Nat /\ m.str \in Seq(1..255) /\ m.str \in Seq(Nat)
      /\ m.type \in {"GetValueReq", "SetValueReq", "GetValueRsp", "SetValueRsp"}
      /\ m = Msg(m.int, m.str)
  BY DEF Sendable, Messages
<1>1. IntField(m) \in Seq(Nat) /\ B \in Seq(Nat) /\ IntField(m) \o B \in Seq(Nat)
      /\ SerializeAsString(m) = IntField(m) \o B
  BY FieldsClean DEF Clean
<1>2. ASSUME NEW n \in Nat, NEW s \in Seq(Nat), NEW b \in Seq(Nat)
      PROVE  P(n, s, b) \in Parsers
  BY <1>0 DEF Parsers, Messages
<1>3. ParseFields[P(0, <<>>, IntField(m) \o B)] = ParseFields[P(m.int, <<>>, B)]
  <2>1. CASE m.int = 0
    <3>1. IntField(m) \o B = B
      BY <1>1, <2>1 DEF IntField
    <3> QED BY <2>1, <3>1
  <2>2. CASE m.int # 0
    <3> DEFINE tail == Varint[m.int] \o B
               p == P(0, <<>>, IntField(m) \o B)
    <3>1. Varint[m.int] \in Seq(Nat) /\ <<IntTag>> \in Seq(Nat) /\ IntTag \in Nat
      <4>1. Varint[m.int] \in Seq(Nat)
        BY <1>0, VarintDef
      <4> QED BY <4>1 DEF IntTag
    <3>2. IntField(m) \o B = <<IntTag>> \o tail
      <4>1. Joins(<<IntTag>>, Varint[m.int], B)
        BY <1>1, <3>1, Associative
      <4> QED BY <2>2, <4>1, Zenon DEF Joins, IntField
    <3>3. tail \in Seq(Nat)
      BY <1>1, <3>1
    <3>4. ReadVarint[tail] = [val |-> m.int, rest |-> B]
      BY <1>0, <1>1, VarintRead
    <3> HIDE DEF tail
    <3>5. p.rest = <<IntTag>> \o tail /\ p.msg = Msg(0, <<>>)
      BY <3>2
    <3>6. p \in Parsers
      <4>1. 0 \in Nat /\ <<>> \in Seq(Nat)
        OBVIOUS
      <4> HIDE DEF P
      <4> QED BY <1>1, <1>2, <4>1
    <3> HIDE DEF p
    <3>7. p.rest # <<>> /\ p.rest[1] = IntTag /\ Tail(p.rest) = tail
      <4> DEFINE c == <<IntTag>> \o tail
      <4>1. c # <<>> /\ c[1] = IntTag /\ Tail(c) = tail
        BY <3>1, <3>3, Cons
      <4> HIDE DEF c
      <4> QED BY <3>5, <4>1 DEF c
    <3>8. AtField(p)
      BY <3>7 DEF AtField
    <3>9. ReadField(p) = P(m.int, <<>>, B)
      <4>1. ReadField(p) = [msg |-> [p.msg EXCEPT !.int = ReadVarint[tail].val],
                            rest |-> ReadVarint[tail].rest]
        BY <3>7, Zenon DEF ReadField
      <4>2. ReadVarint[tail].val = m.int /\ ReadVarint[tail].rest = B
        BY <3>4
      <4>3. [p.msg EXCEPT !.int = m.int] = Msg(m.int, <<>>)
        BY <3>5
      <4> QED BY <4>1, <4>2, <4>3, Zenon
    <3> HIDE DEF P
    <3>10. ParseFields[p] = ParseFields[P(m.int, <<>>, B)]
      BY <3>6, <3>8, <3>9, ParseFieldsDef, Zenon
    <3> QED BY <3>10 DEF p
  <2> QED BY <2>1, <2>2
<1>4. ParseFields[P(m.int, <<>>, B)] = ParseFields[P(m.int, m.str, <<>>)]
  <2>1. CASE m.str = <<>>
    <3>1. B = <<>>
      BY <2>1 DEF StrField
    <3> QED BY <2>1, <3>1
  <2>2. CASE m.str # <<>>
    <3> DEFINE L == Len(m.str)
               tag == StrTag(m.type)
               tail == Varint[L] \o m.str
               p == P(m.int, <<>>, B)
    <3>1. L \in Nat /\ tag \in Nat /\ tag # IntTag
      BY <1>0 DEF StrTag, IntTag
    <3>2. Varint[L] \in Seq(Nat) /\ <<tag>> \in Seq(Nat)
      <4>1. Varint[L] \in Seq(Nat)
        BY <3>1, VarintDef
      <4> HIDE DEF tag
      <4> QED BY <3>1, <4>1
    <3>3. B = <<tag>> \o tail
      <4>1. Joins(<<tag>>, Varint[L], m.str)
        BY <1>0, <3>2, Associative
      <4> QED BY <2>2, <4>1, Zenon DEF Joins, StrField
    <3>4. tail \in Seq(Nat)
      BY <1>0, <3>2
    <3>5. ReadVarint[tail] = [val |-> L, rest |-> m.str]
      BY <1>0, <3>1, VarintRead
    <3>6. p \in Parsers
      <4>1. <<>> \in Seq(Nat)
        OBVIOUS
      <4> HIDE DEF P
      <4> QED BY <1>0, <1>1, <1>2, <4>1
    <3> HIDE DEF tail, B
    <3>7. p.rest = <<tag>> \o tail /\ p.msg = Msg(m.int, <<>>)
      BY <3>3
    <3>8. p.rest # <<>> /\ p.rest[1] = tag /\ Tail(p.rest) = tail
      <4> DEFINE c == <<tag>> \o tail
      <4> HIDE DEF tag
      <4>1. c # <<>> /\ c[1] = tag /\ Tail(c) = tail
        BY <3>1, <3>4, Cons
      <4> HIDE DEF c
      <4> QED BY <3>7, <4>1 DEF c
    <3> HIDE DEF p
    <3>9. AtField(p)
      <4>1. p.msg.type = m.type
        BY <3>7
      <4>2. ReadVarint[Tail(p.rest)].val <= Len(ReadVarint[Tail(p.rest)].rest)
        <5>1. ReadVarint[Tail(p.rest)] = [val |-> L, rest |-> m.str]
          BY <3>5, <3>8
        <5>2. /\ ReadVarint[Tail(p.rest)].val = L
              /\ ReadVarint[Tail(p.rest)].rest = m.str
          BY <5>1
        <5> QED BY <3>1, <5>2
      <4> QED BY <3>8, <4>1, <4>2 DEF AtField
    <3>10. SubSeq(m.str, 1, L) = m.str /\ SubSeq(m.str, L + 1, L) = <<>>
      BY <1>0, <3>1
    <3>11. ReadField(p) = [msg |-> [p.msg EXCEPT !.str = SubSeq(m.str, 1, L)],
                           rest |-> SubSeq(m.str, L + 1, L)]
      <4>1. ReadVarint[tail].val = L /\ ReadVarint[tail].rest = m.str
        BY <3>5
      <4>2. ReadField(p) =
              [msg |-> [p.msg EXCEPT !.str =
                          SubSeq(ReadVarint[tail].rest, 1, ReadVarint[tail].val)],
               rest |-> SubSeq(ReadVarint[tail].rest, ReadVarint[tail].val + 1,
                               Len(ReadVarint[tail].rest))]
        BY <3>1, <3>8, Zenon DEF ReadField
      <4> QED BY <4>1, <4>2, Zenon
    <3>12. [p.msg EXCEPT !.str = m.str] = Msg(m.int, m.str)
      BY <3>7
    <3>13. ReadField(p) = P(m.int, m.str, <<>>)
      BY <3>10, <3>11, <3>12, Zenon
    <3> HIDE DEF P
    <3>14. ParseFields[p] = ParseFields[P(m.int, m.str, <<>>)]
      BY <3>6, <3>9, <3>13, ParseFieldsDef, Zenon
    <3> QED BY <3>14 DEF p
  <2> QED BY <2>1, <2>2
<1>5. ParseFields[P(m.int, m.str, <<>>)] = m
  <2> DEFINE p == P(m.int, m.str, <<>>)
  <2>1. p.rest = <<>> /\ p.msg = m
    BY <1>0
  <2>2. p \in Parsers
    <3>1. <<>> \in Seq(Nat)
      OBVIOUS
    <3> HIDE DEF P
    <3> QED BY <1>0, <1>2, <3>1
  <2> HIDE DEF p
  <2>3. ~AtField(p)
    BY <2>1 DEF AtField
  <2>4. ParseFields[p] = m
    BY <2>1, <2>2, <2>3, ParseFieldsDef, Zenon
  <2> QED BY <2>4 DEF p
<1>6. ParseFromString(m.type, SerializeAsString(m))
        = ParseFields[P(0, <<>>, IntField(m) \o B)]
  BY <1>1 DEF ParseFromString
<1> QED BY <1>3, <1>4, <1>5, <1>6, Zenon

-----------------------------------------------------------------------------
(* C strings and frames.                                                   *)

LEMMA CStringWhole ==
  ASSUME NEW b, Clean(b)
  PROVE  CString(b) = b
BY DEF CString, Clean

(* A C string ends at its terminator, whatever comes after it.             *)
LEMMA CStringCut ==
  ASSUME NEW b, Clean(b), NEW x \in Seq(Nat)
  PROVE  CString(Append(b, 0) \o x) = b
<1> DEFINE n == Len(b)
           c == Append(b, 0) \o x
           zeros == {i \in 1..Len(c) : c[i] = 0}
<1>1. b \in Seq(Nat) /\ n \in Nat /\ \A i \in 1..n : b[i] # 0
  BY DEF Clean
<1>2. Append(b, 0) \in Seq(Nat) /\ Len(Append(b, 0)) = n + 1
      /\ Append(b, 0)[n + 1] = 0 /\ \A i \in 1..n : Append(b, 0)[i] = b[i]
  BY <1>1
<1>3. /\ c \in Seq(Nat) /\ Len(c) = n + 1 + Len(x) /\ Len(x) \in Nat
      /\ \A i \in 1..(n + 1) : c[i] = Append(b, 0)[i]
  BY <1>1, <1>2
<1>4. c[n + 1] = 0 /\ \A i \in 1..n : c[i] = b[i]
  BY <1>1, <1>2, <1>3
<1> HIDE DEF c, n
<1>5. n + 1 \in zeros /\ \A i \in zeros : i \in Nat /\ n + 1 <= i
  BY <1>1, <1>3, <1>4
<1>6. CString(c) = SubSeq(c, 1, Min(zeros) - 1)
  <2>1. zeros # {}
    BY <1>5
  <2> QED BY <2>1, Zenon DEF CString
<1> HIDE DEF zeros
<1>7. Min(zeros) = n + 1
  <2>1. \E k \in zeros : \A i \in zeros : k =< i
    BY <1>5
  <2>2. Min(zeros) \in zeros /\ \A i \in zeros : Min(zeros) =< i
    BY <2>1, Zenon DEF Min
  <2>3. Min(zeros) =< n + 1 /\ n + 1 <= Min(zeros) /\ Min(zeros) \in Nat
    BY <1>5, <2>2
  <2> QED BY <1>1, <2>3
<1>8. Min(zeros) - 1 = n
  BY <1>1, <1>7
<1>9. SubSeq(c, 1, n) = b
  <2>1. \A i \in 1..n : c[i] \in Nat
    BY <1>1, <1>3
  <2>2. SubSeq(c, 1, n) \in Seq(Nat) /\ Len(SubSeq(c, 1, n)) = n
        /\ \A i \in 1..n : SubSeq(c, 1, n)[i] = c[i]
    BY <1>1, <1>3
  <2>3. n = Len(b)
    BY DEF n
  <2> QED BY <1>1, <1>4, <2>2, <2>3, SeqEqual
<1> QED BY <1>6, <1>8, <1>9 DEF c

LEMMA Packed ==
  ASSUME NEW m \in Sendable
  PROVE  /\ PackProtoStruct(m) = Append(SerializeAsString(m), 0)
         /\ PackProtoStruct(m) \in Seq(Nat)
         /\ Len(PackProtoStruct(m)) \in Nat \ {0}
<1>1. Clean(SerializeAsString(m))
  BY FieldsClean
<1>2. PackProtoStruct(m) = Append(SerializeAsString(m), 0)
  BY <1>1, CStringWhole DEF PackProtoStruct
<1>3. SerializeAsString(m) \in Seq(Nat)
  BY <1>1 DEF Clean
<1> QED BY <1>2, <1>3

(* A packed message is parsed to itself, whatever follows the terminator.  *)
LEMMA PackedParsed ==
  ASSUME NEW m \in Sendable, NEW x \in Seq(Nat)
  PROVE  ParseProtoStruct(m.type, PackProtoStruct(m) \o x) = m
<1>1. CString(PackProtoStruct(m) \o x) = SerializeAsString(m)
  BY FieldsClean, Packed, CStringCut
<1> QED BY <1>1, Parsed DEF ParseProtoStruct

(* What the stream consists of.                                            *)
Headers == [kind : {"header"},
            type : {"GetValueReq", "SetValueReq", "GetValueRsp", "SetValueRsp"},
            seqno : Nat, body_length : Nat]
Units == Headers \cup [kind : {"byte"}, byte : Nat]

Frame(m, seqno) == Serialize(Message(m, seqno))

(* What a frame at the head of the stream looks like.                      *)
StartsWith(u, m, seqno, rest) ==
  LET b == PackProtoStruct(m) IN
    /\ u \in Seq(Units) /\ u # <<>>
    /\ Head(u) = Header(m.type, seqno, Len(b))
    /\ Len(b) < Len(u)
    /\ \A j \in 1..Len(b) : u[j + 1] = [kind |-> "byte", byte |-> b[j]]
    /\ SubSeq(u, Len(b) + 2, Len(u)) = rest

LEMMA FrameFirst ==
  ASSUME NEW m \in Sendable, NEW seqno \in Nat, NEW rest \in Seq(Units)
  PROVE  /\ Frame(m, seqno) \in Seq(Units)
         /\ StartsWith(Frame(m, seqno) \o rest, m, seqno, rest)
<1> DEFINE b == PackProtoStruct(m)
           h == Header(m.type, seqno, Len(b))
           y == Bytes(b)
           f == <<h>> \o y
           u == f \o rest
<1>1. b \in Seq(Nat) /\ Len(b) \in Nat \ {0}
  BY Packed
<1>2. h \in Units
  BY <1>1 DEF Header, Headers, Units, Sendable, Messages
<1> HIDE DEF b, h
<1>3. Frame(m, seqno) = f
  <2>1. Message(m, seqno) = [header |-> h, parameters |-> b]
    BY DEF Message, b, h
  <2>2. Message(m, seqno).header = h /\ Message(m, seqno).parameters = b
    BY <2>1
  <2>3. h.body_length = Len(b)
    BY DEF h, Header
  <2>4. SubSeq(b, 1, Len(b)) = b
    BY <1>1
  <2> QED BY <2>2, <2>3, <2>4 DEF Frame, Serialize
<1>4. /\ y \in Seq(Units) /\ Len(y) = Len(b)
      /\ \A j \in 1..Len(b) : y[j] = [kind |-> "byte", byte |-> b[j]]
  <2>1. \A j \in 1..Len(b) : [kind |-> "byte", byte |-> b[j]] \in Units
    BY <1>1 DEF Units
  <2>2. y = [j \in 1..Len(b) |-> [kind |-> "byte", byte |-> b[j]]]
    BY DEF Bytes
  <2> HIDE DEF y
  <2> QED BY <1>1, <2>1, <2>2
<1> HIDE DEF y
<1>5. /\ f \in Seq(Units) /\ Len(f) = Len(b) + 1 /\ f[1] = h
      /\ \A j \in 1..Len(b) : f[j + 1] = y[j]
  BY <1>1, <1>2, <1>4
<1> HIDE DEF f
<1>6. /\ u \in Seq(Units) /\ Len(u) = Len(b) + 1 + Len(rest) /\ Len(rest) \in Nat
      /\ \A j \in 1..(Len(b) + 1) : u[j] = f[j]
      /\ \A j \in 1..Len(rest) : u[Len(b) + 1 + j] = rest[j]
  <2>1. /\ u \in Seq(Units) /\ Len(u) = Len(f) + Len(rest)
        /\ \A j \in 1..(Len(f) + Len(rest)) :
             u[j] = IF j <= Len(f) THEN f[j] ELSE rest[j - Len(f)]
    BY <1>5, ConcatProperties
  <2>2. Len(rest) \in Nat /\ Len(b) \in Nat
    BY <1>1
  <2> HIDE DEF u
  <2>3. \A j \in 1..(Len(b) + 1) : u[j] = f[j]
    BY <1>5, <2>1, <2>2
  <2>4. \A j \in 1..Len(rest) : u[Len(b) + 1 + j] = rest[j]
    <3>1. TAKE j \in 1..Len(rest)
    <3>2. /\ Len(b) + 1 + j \in 1..(Len(f) + Len(rest))
          /\ ~(Len(b) + 1 + j <= Len(f)) /\ Len(b) + 1 + j - Len(f) = j
      BY <1>5, <2>2
    <3> QED BY <2>1, <3>2
  <2> QED BY <1>5, <2>1, <2>2, <2>3, <2>4
<1> HIDE DEF u
<1>7. u # <<>> /\ Head(u) = h /\ Len(b) < Len(u)
  BY <1>1, <1>5, <1>6
<1>8. \A j \in 1..Len(b) : u[j + 1] = [kind |-> "byte", byte |-> b[j]]
  <2>1. TAKE j \in 1..Len(b)
  <2>2. j + 1 \in 1..(Len(b) + 1)
    BY <1>1
  <2> QED BY <1>4, <1>5, <1>6, <2>2
<1>9. SubSeq(u, Len(b) + 2, Len(u)) = rest
  <2> DEFINE s == SubSeq(u, Len(b) + 2, Len(u))
  <2>1. \A j \in (Len(b) + 2)..Len(u) : u[j] \in Units
    BY <1>1, <1>6
  <2>2. /\ s \in Seq(Units)
        /\ Len(s) = IF Len(b) + 2 <= Len(u) THEN Len(u) - (Len(b) + 2) + 1 ELSE 0
        /\ \A j \in 1..(Len(u) - (Len(b) + 2) + 1) : s[j] = u[Len(b) + 2 + j - 1]
    <3>1. Len(b) + 2 \in Int /\ Len(u) \in Int
      BY <1>1, <1>6
    <3> QED BY <2>1, <3>1, SubSeqProperties
  <2> HIDE DEF s
  <2>3. Len(s) = Len(rest) /\ Len(u) - (Len(b) + 2) + 1 = Len(rest)
    BY <1>1, <1>6, <2>2
  <2>4. \A j \in 1..Len(rest) : s[j] = rest[j]
    <3>1. TAKE j \in 1..Len(rest)
    <3>2. Len(b) + 2 + j - 1 = Len(b) + 1 + j
      BY <1>1
    <3> QED BY <1>6, <2>2, <2>3, <3>2
  <2>5. s = rest
    BY <2>2, <2>3, <2>4, SeqEqual
  <2> QED BY <2>5 DEF s
<1>10. StartsWith(u, m, seqno, rest)
  BY <1>6, <1>7, <1>8, <1>9 DEF StartsWith, b, h
<1> QED BY <1>3, <1>5, <1>10 DEF u

-----------------------------------------------------------------------------
(* The stream of requests.                                                 *)

(* rest[i] is what follows the first i requests of s, of which h have been *)
(* read.                                                                   *)
Follow(s, h, rest) ==
  /\ rest \in [h..Len(s) -> Seq(Units)]
  /\ rest[Len(s)] = <<>>
  /\ \A i \in (h + 1)..Len(s) : rest[i - 1] = Frame(s[i], i) \o rest[i]

(* u holds the frames of s after the first h, one after the other.         *)
Pending(s, h, u) == \E rest : Follow(s, h, rest) /\ u = rest[h]

(* A request that is sent goes to the end of the stream.                   *)
LEMMA PendingAppend ==
  ASSUME NEW s \in Seq(Sendable), NEW h \in 0..Len(s), NEW u, Pending(s, h, u),
         NEW m \in Sendable
  PROVE  Pending(Append(s, m), h, u \o Frame(m, Len(s) + 1))
<1> DEFINE n == Len(s)
           t == Append(s, m)
           F == Frame(m, n + 1)
<1>0. n \in Nat /\ h \in Nat /\ h <= n
  OBVIOUS
<1>1. PICK rest : Follow(s, h, rest) /\ u = rest[h]
  BY DEF Pending
<1>2. /\ t \in Seq(Sendable) /\ Len(t) = n + 1 /\ t[n + 1] = m
      /\ \A i \in 1..n : t[i] = s[i] /\ s[i] \in Sendable
  OBVIOUS
<1>3. F \in Seq(Units)
  <2>1. n + 1 \in Nat /\ <<>> \in Seq(Units)
    BY <1>0
  <2> QED BY <2>1, FrameFirst
<1>4. /\ rest \in [h..n -> Seq(Units)] /\ rest[n] = <<>>
      /\ \A i \in (h + 1)..n : rest[i - 1] = Frame(s[i], i) \o rest[i]
  BY <1>1 DEF Follow
<1> HIDE DEF n, t, F
<1> DEFINE more == [i \in h..(n + 1) |-> IF i = n + 1 THEN <<>> ELSE rest[i] \o F]
<1>5. \A i \in h..n : rest[i] \in Seq(Units) /\ rest[i] \o F \in Seq(Units)
  <2>1. TAKE i \in h..n
  <2>2. rest[i] \in Seq(Units)
    BY <1>4
  <2> QED BY <1>3, <2>2, ConcatProperties
<1>6. more \in [h..(n + 1) -> Seq(Units)] /\ more[n + 1] = <<>>
      /\ \A i \in h..n : more[i] = rest[i] \o F
  <2>1. \A i \in h..(n + 1) : i = n + 1 \/ i \in h..n
    BY <1>0
  <2>2. <<>> \in Seq(Units)
    OBVIOUS
  <2>3. more \in [h..(n + 1) -> Seq(Units)]
    BY <1>5, <2>1, <2>2
  <2>4. n + 1 \in h..(n + 1) /\ \A i \in h..n : i \in h..(n + 1) /\ i # n + 1
    BY <1>0
  <2> QED BY <2>3, <2>4
<1> HIDE DEF more
<1>7. ASSUME NEW i \in (h + 1)..(n + 1)
      PROVE  more[i - 1] = Frame(t[i], i) \o more[i]
  <2>1. CASE i = n + 1
    <3>1. i - 1 = n /\ n \in h..n
      BY <1>0, <2>1
    <3>2. more[i - 1] = <<>> \o F
      BY <1>4, <1>6, <3>1
    <3>3. Frame(t[i], i) \o more[i] = F \o <<>>
      BY <1>2, <1>6, <2>1 DEF F
    <3>4. <<>> \o F = F /\ F \o <<>> = F
      BY <1>3, ConcatEmptySeq
    <3> QED BY <3>2, <3>3, <3>4
  <2>2. CASE i # n + 1
    <3>1. i \in (h + 1)..n /\ i \in h..n /\ i - 1 \in h..n /\ i \in 1..n /\ i \in Nat
      BY <1>0, <2>2
    <3>2. s[i] \in Sendable /\ t[i] = s[i]
      BY <1>2, <3>1
    <3> DEFINE G == Frame(s[i], i)
    <3>3. G \in Seq(Units)
      <4>1. <<>> \in Seq(Units)
        OBVIOUS
      <4> QED BY <3>1, <3>2, <4>1, FrameFirst
    <3>4. rest[i - 1] = G \o rest[i]
      BY <1>4, <3>1
    <3>5. more[i - 1] = (G \o rest[i]) \o F /\ more[i] = rest[i] \o F
      BY <1>6, <3>1, <3>4
    <3> HIDE DEF G
    <3>6. Joins(G, rest[i], F)
      BY <1>3, <1>5, <3>1, <3>3, Associative
    <3> QED BY <3>2, <3>5, <3>6, Zenon DEF Joins, G
  <2> QED BY <2>1, <2>2
<1>8. Follow(t, h, more)
  BY <1>2, <1>6, <1>7 DEF Follow
<1>9. u \o F = more[h]
  <2>1. h \in h..n
    BY <1>0
  <2> QED BY <1>1, <1>6, <2>1
<1>10. Pending(t, h, u \o F)
  BY <1>8, <1>9 DEF Pending
<1> QED BY <1>10 DEF t, F, n

(* The stream begins with the next request, and goes on with the others.   *)
LEMMA PendingFirst ==
  ASSUME NEW s \in Seq(Sendable), NEW h \in 0..Len(s), NEW u, Pending(s, h, u),
         u # <<>>
  PROVE  /\ h < Len(s)
         /\ \E r : StartsWith(u, s[h + 1], h + 1, r) /\ Pending(s, h + 1, r)
<1>0. Len(s) \in Nat /\ h \in Nat /\ h <= Len(s)
  OBVIOUS
<1>1. PICK rest : Follow(s, h, rest) /\ u = rest[h]
  BY DEF Pending
<1>2. /\ rest \in [h..Len(s) -> Seq(Units)] /\ rest[Len(s)] = <<>>
      /\ \A i \in (h + 1)..Len(s) : rest[i - 1] = Frame(s[i], i) \o rest[i]
  BY <1>1 DEF Follow
<1>3. h < Len(s)
  <2>1. h # Len(s)
    BY <1>1, <1>2
  <2> QED BY <1>0, <2>1
<1>4. /\ h + 1 \in (h + 1)..Len(s) /\ (h + 1) - 1 = h /\ h + 1 \in h..Len(s)
      /\ h + 1 \in 1..Len(s) /\ h + 1 \in Nat
  BY <1>0, <1>3
<1>5. s[h + 1] \in Sendable
  BY <1>4, ElementOfSeq
<1>6. rest[h + 1] \in Seq(Units)
  BY <1>2, <1>4
<1>7. u = Frame(s[h + 1], h + 1) \o rest[h + 1]
  BY <1>1, <1>2, <1>4
<1>8. StartsWith(u, s[h + 1], h + 1, rest[h + 1])
  BY <1>4, <1>5, <1>6, <1>7, FrameFirst
<1>9. Pending(s, h + 1, rest[h + 1])
  <2> DEFINE less == [i \in (h + 1)..Len(s) |-> rest[i]]
  <2>1. \A i \in (h + 1)..Len(s) : i \in h..Len(s) /\ rest[i] \in Seq(Units)
    BY <1>0, <1>2
  <2>2. less \in [(h + 1)..Len(s) -> Seq(Units)]
    BY <2>1
  <2>3. Len(s) \in (h + 1)..Len(s)
    BY <1>0, <1>3
  <2>4. less[Len(s)] = <<>> /\ less[h + 1] = rest[h + 1]
    BY <1>2, <1>4, <2>3
  <2>5. ASSUME NEW i \in (h + 1 + 1)..Len(s)
        PROVE  less[i - 1] = Frame(s[i], i) \o less[i]
    <3>1. i \in (h + 1)..Len(s) /\ i - 1 \in (h + 1)..Len(s)
      BY <1>0
    <3>2. less[i - 1] = rest[i - 1] /\ less[i] = rest[i]
      BY <3>1
    <3> QED BY <1>2, <3>1, <3>2
  <2> HIDE DEF less
  <2>6. Follow(s, h + 1, less)
    BY <2>2, <2>4, <2>5 DEF Follow
  <2> QED BY <2>4, <2>6 DEF Pending
<1> QED BY <1>3, <1>8, <1>9

-----------------------------------------------------------------------------
(* The inductive invariant.                                                *)

Results == [seqno : Nat, buffer : Seq(Nat)]

(* The services saw the first requests; the stream holds the others.       *)
RequestsInv ==
  /\ sent \in Seq(Sendable)
  /\ handled \in Seq(Sendable)
  /\ Len(handled) <= Len(sent)
  /\ \A i \in 1..Len(handled) : handled[i] = sent[i]
  /\ server \in {"armed", "aborted"}
  /\ Pending(sent, Len(handled), up)

(* What the services returned, in order of the requests.                   *)
AnswersInv ==
  /\ \A id \in DOMAIN dict : dict[id] \in Seq(1..255)
  /\ answers \in Seq(Sendable)
  /\ Len(answers) = Len(handled)
  /\ \A i \in 1..Len(answers) : answers[i].type = RspType(handled[i].type)

(* res holds answer number k, with anything after its terminator.          *)
Holds(res, k, rsp) ==
  /\ res.seqno = k
  /\ \E x \in Seq(Nat) : res.buffer = PackProtoStruct(rsp) \o x

(* The callbacks were given the first answers, the others are under way;   *)
(* the one that made the server abort is not.                              *)
ResultsInv ==
  /\ back \in Seq(Sendable)
  /\ down \in Seq(Results)
  /\ Len(back) + Len(down) <= Len(answers)
  /\ server = "armed" => Len(back) + Len(down) = Len(answers)
  /\ \A i \in 1..Len(back) : back[i] = answers[i]
  /\ \A j \in 1..Len(down) : Holds(down[j], Len(back) + j, answers[Len(back) + j])

WireInv == RequestsInv /\ AnswersInv /\ ResultsInv

LEMMA InitWire == Init => WireInv
<1> SUFFICES ASSUME Init PROVE WireInv
  OBVIOUS
<1>1. RequestsInv
  <2>1. Follow(<<>>, 0, [i \in 0..0 |-> <<>>])
    BY DEF Follow
  <2>2. Pending(<<>>, 0, <<>>)
    BY <2>1 DEF Pending
  <2> QED BY <2>2 DEF Init, RequestsInv
<1>2. AnswersInv
  BY DEF Init, AnswersInv
<1>3. ResultsInv
  BY DEF Init, ResultsInv
<1> QED BY <1>1, <1>2, <1>3 DEF WireInv

(* CallRPCAsync appends a frame.                                           *)
LEMMA CallKeeps ==
  ASSUME WireInv, NEW m \in Sendable, CallRPCAsync(m)
  PROVE  WireInv'
<1>1. /\ sent' = Append(sent, m)
      /\ up' = up \o Frame(m, Len(sent) + 1)
      /\ UNCHANGED <<handled, dict, server, answers, down, back>>
  BY DEF CallRPCAsync, Frame
<1>2. RequestsInv /\ AnswersInv /\ ResultsInv
  BY DEF WireInv
<1>3. RequestsInv'
  <2>1. sent \in Seq(Sendable) /\ handled \in Seq(Sendable)
        /\ Len(handled) \in 0..Len(sent) /\ Pending(sent, Len(handled), up)
    BY <1>2 DEF RequestsInv
  <2>2. Pending(sent', Len(handled), up')
    BY <1>1, <2>1, PendingAppend
  <2>3. sent' \in Seq(Sendable) /\ Len(sent') = Len(sent) + 1
        /\ \A i \in 1..Len(sent) : sent'[i] = sent[i]
    BY <1>1, <2>1
  <2>4. Len(handled) \in Nat /\ Len(sent) \in Nat /\ Len(handled) <= Len(sent)
    BY <2>1
  <2>5. \A i \in 1..Len(handled) : handled[i] = sent'[i]
    <3>1. \A i \in 1..Len(handled) : i \in 1..Len(sent) /\ handled[i] = sent[i]
      BY <1>2, <2>4 DEF RequestsInv
    <3> QED BY <2>3, <3>1
  <2>6. Len(handled) <= Len(sent')
    BY <2>3, <2>4
  <2>7. handled' = handled /\ server' = server /\ server \in {"armed", "aborted"}
    BY <1>1, <1>2 DEF RequestsInv
  <2> QED BY <2>1, <2>2, <2>3, <2>5, <2>6, <2>7 DEF RequestsInv
<1>4. AnswersInv' /\ ResultsInv'
  BY <1>1, <1>2 DEF AnswersInv, ResultsInv
<1> QED BY <1>3, <1>4 DEF WireInv

(* recv finds a header and its body, and what was sent is what Handle is   *)
(* called with.                                                            *)
LEMMA NextRequest ==
  ASSUME RequestsInv, up # <<>>
  PROVE  LET h == Len(handled)
             length == Head(up).body_length
             body == [i \in 1..length |-> up[i + 1].byte]
         IN  /\ Framed
             /\ h + 1 \in 1..Len(sent)
             /\ Head(up).seqno = h + 1
             /\ ParseProtoStruct(Head(up).type, Append(body, 0)) = sent[h + 1]
             /\ Pending(sent, h + 1, SubSeq(up, length + 2, Len(up)))
<1> DEFINE h == Len(handled)
           length == Head(up).body_length
           body == [i \in 1..length |-> up[i + 1].byte]
<1>0. sent \in Seq(Sendable) /\ h \in 0..Len(sent) /\ Pending(sent, h, up)
      /\ h \in Nat /\ Len(sent) \in Nat
  BY DEF RequestsInv
<1>1. h < Len(sent)
  BY <1>0, PendingFirst
<1>2. PICK r : StartsWith(up, sent[h + 1], h + 1, r) /\ Pending(sent, h + 1, r)
  BY <1>0, PendingFirst
<1>3. h + 1 \in 1..Len(sent)
  BY <1>0, <1>1
<1>4. PICK m \in Sendable : m = sent[h + 1]
  BY <1>0, <1>3, ElementOfSeq
<1> DEFINE b == PackProtoStruct(m)
<1>5. b \in Seq(Nat) /\ Len(b) \in Nat \ {0}
  BY Packed
<1>6. /\ up \in Seq(Units) /\ Head(up) = Header(m.type, h + 1, Len(b))
      /\ Len(b) < Len(up)
      /\ \A j \in 1..Len(b) : up[j + 1] = [kind |-> "byte", byte |-> b[j]]
      /\ SubSeq(up, Len(b) + 2, Len(up)) = r
  BY <1>2, <1>4, Zenon DEF StartsWith
<1> HIDE DEF b, h
<1>7. /\ Head(up).kind = "header" /\ Head(up).type = m.type
      /\ Head(up).seqno = h + 1 /\ length = Len(b)
  BY <1>6 DEF Header
<1>8. \A j \in 1..Len(b) : up[j + 1].kind = "byte" /\ up[j + 1].byte = b[j]
  <2>1. TAKE j \in 1..Len(b)
  <2>2. up[j + 1] = [kind |-> "byte", byte |-> b[j]]
    BY <1>6
  <2> QED BY <2>2
<1> HIDE DEF length
<1>9. Framed
  BY <1>6, <1>7, <1>8 DEF Framed, IsHeader, length
<1>10. body = b
  <2>1. body = [i \in 1..Len(b) |-> b[i]]
    BY <1>7, <1>8
  <2> HIDE DEF body
  <2> QED BY <1>5, <2>1
<1> HIDE DEF body
<1>11. ParseProtoStruct(Head(up).type, Append(body, 0)) = m
  <2>1. Append(b, 0) = b \o <<0>> /\ <<0>> \in Seq(Nat)
    BY <1>5, AppendIsConcat
  <2>2. ParseProtoStruct(m.type, b \o <<0>>) = m
    BY <2>1, PackedParsed DEF b
  <2> QED BY <1>7, <1>10, <2>1, <2>2
<1>12. Pending(sent, h + 1, SubSeq(up, length + 2, Len(up)))
  BY <1>2, <1>6, <1>7
<1> QED BY <1>3, <1>4, <1>7, <1>9, <1>11, <1>12, Zenon DEF h, length, body

(* The services return what can be sent.                                   *)
LEMMA NotFoundText == NotFound \in Seq(1..255)
<1>1. /\ 110 \in 1..255 /\ 111 \in 1..255 /\ 116 \in 1..255 /\ 32 \in 1..255
      /\ 102 \in 1..255 /\ 117 \in 1..255 /\ 100 \in 1..255
  OBVIOUS
<1> QED BY <1>1 DEF NotFound

LEMMA ResponsesSendable ==
  /\ \A name \in Seq(1..255) : Found(name) \in Sendable
  /\ \A code \in Nat : Code(code) \in Sendable
<1>1. ASSUME NEW name \in Seq(1..255) PROVE Found(name) \in Sendable
  <2>1. name \in Seq(Nat)
    BY TextClean DEF Clean
  <2> QED BY <2>1 DEF Found, Sendable, Messages
<1>2. ASSUME NEW code \in Nat PROVE Code(code) \in Sendable
  <2>1. <<>> \in Seq(Nat) /\ <<>> \in Seq(1..255)
    OBVIOUS
  <2> QED BY <2>1 DEF Code, Sendable, Messages
<1> QED BY <1>1, <1>2

LEMMA RequestsSendable ==
  /\ \A id \in Ids : Get(id) \in Sendable
  /\ \A id \in Ids, name \in Names : Set(id, name) \in Sendable
<1>0. \A id \in Ids : id \in Nat
  BY WireAssumption
<1>1. ASSUME NEW id \in Ids PROVE Get(id) \in Sendable
  <2>1. <<>> \in Seq(Nat) /\ <<>> \in Seq(1..255)
    OBVIOUS
  <2> QED BY <1>0, <2>1 DEF Get, Sendable, Messages
<1>2. ASSUME NEW id \in Ids, NEW name \in Names PROVE Set(id, name) \in Sendable
  <2>1. name \in Seq(1..255)
    BY WireAssumption
  <2>2. name \in Seq(Nat)
    BY <2>1, TextClean DEF Clean
  <2> QED BY <1>0, <2>1, <2>2 DEF Set, Sendable, Messages
<1> QED BY <1>1, <1>2

(* A service appends one answer, of the type of the request.               *)
LEMMA Served ==
  ASSUME AnswersInv, NEW req \in Sendable, Serve(req)
  PROVE  /\ \E rsp \in Sendable : /\ answers' = Append(answers, rsp)
                                  /\ rsp.type = RspType(req.type)
         /\ \A id \in DOMAIN dict' : dict'[id] \in Seq(1..255)
<1>0. \A id \in DOMAIN dict : dict[id] \in Seq(1..255)
  BY DEF AnswersInv
<1>1. CASE req.type = "GetValueReq"
  <2> DEFINE name == IF req.int \in DOMAIN dict THEN dict[req.int] ELSE NotFound
  <2>1. answers' = Append(answers, Found(name)) /\ dict' = dict
    BY <1>1, Zenon DEF Serve
  <2>2. name \in Seq(1..255)
    BY <1>0, NotFoundText, Zenon
  <2> HIDE DEF name
  <2>3. Found(name) \in Sendable
    BY <2>2, ResponsesSendable
  <2>4. Found(name).type = RspType(req.type)
    BY <1>1 DEF Found, RspType
  <2> QED BY <1>0, <2>1, <2>3, <2>4
<1>2. CASE req.type # "GetValueReq"
  <2> DEFINE code == IF req.int \in DOMAIN dict THEN 1 ELSE 2
  <2>1. /\ answers' = Append(answers, Code(code))
        /\ dict' = [id \in DOMAIN dict \cup {req.int} |->
                      IF id = req.int THEN req.str ELSE dict[id]]
    BY <1>2, Zenon DEF Serve
  <2>2. code \in Nat
    OBVIOUS
  <2> HIDE DEF code
  <2>3. Code(code) \in Sendable
    BY <2>2, ResponsesSendable
  <2>4. Code(code).type = RspType(req.type)
    BY <1>2 DEF Code, RspType
  <2>5. req.str \in Seq(1..255)
    BY DEF Sendable
  <2>6. ASSUME NEW id \in DOMAIN dict' PROVE dict'[id] \in Seq(1..255)
    <3>1. id \in DOMAIN dict \cup {req.int}
      BY <2>1, <2>6, Zenon
    <3>2. dict'[id] = IF id = req.int THEN req.str ELSE dict[id]
      BY <2>1, <3>1, Zenon
    <3> QED BY <1>0, <2>5, <3>1, <3>2, Zenon
  <2> QED BY <2>1, <2>3, <2>4, <2>6
<1> QED BY <1>1, <1>2

LEMMA LeftoverBytes == \A x \in Leftovers : x \in Seq(Nat)
<1>1. ASSUME NEW x \in Leftovers PROVE x \in Seq(Nat)
  <2>1. x \in Seq(0..255) /\ 0..255 \subseteq Nat
    BY WireAssumption
  <2> QED BY <2>1, SeqMonotonic
<1> QED BY <1>1

(* HandleReadEvent: the next request, its answer, and the result under its *)
(* seqno.                                                                  *)
LEMMA HandleKeeps ==
  ASSUME WireInv, NEW leftover \in Leftovers, HandleReadEvent(leftover)
  PROVE  WireInv'
<1>0. RequestsInv /\ AnswersInv /\ ResultsInv
  BY DEF WireInv
<1> DEFINE length == Head(up).body_length
           body == [i \in 1..length |-> up[i + 1].byte]
           req == ParseProtoStruct(Head(up).type, Append(body, 0))
<1>1. server = "armed" /\ up # <<>> /\ UNCHANGED <<sent, back>>
  BY DEF HandleReadEvent
<1>2. /\ Framed /\ Len(handled) + 1 \in 1..Len(sent)
      /\ Head(up).seqno = Len(handled) + 1 /\ req = sent[Len(handled) + 1]
      /\ Pending(sent, Len(handled) + 1, SubSeq(up, length + 2, Len(up)))
  BY <1>0, <1>1, NextRequest, Zenon
<1>3. /\ up' = SubSeq(up, length + 2, Len(up))
      /\ handled' = Append(handled, req)
      /\ Serve(req)
      /\ Reply(answers'[Len(answers')], Head(up).seqno, leftover)
  BY <1>2, Zenon DEF HandleReadEvent
<1> HIDE DEF req, body, length
<1>4. PICK h \in Nat : h = Len(handled) /\ handled \in Seq(Sendable)
  BY <1>0 DEF RequestsInv
<1>5. req \in Sendable
  BY <1>0, <1>2, ElementOfSeq DEF RequestsInv
<1>6. PICK rsp \in Sendable : /\ answers' = Append(answers, rsp)
                              /\ rsp.type = RspType(req.type)
  BY <1>0, <1>3, <1>5, Served
<1>7. /\ handled' \in Seq(Sendable) /\ Len(handled') = h + 1
      /\ handled'[h + 1] = req /\ \A i \in 1..h : handled'[i] = handled[i]
  BY <1>3, <1>4, <1>5
<1>8. /\ answers \in Seq(Sendable) /\ Len(answers) = h
      /\ answers' \in Seq(Sendable) /\ Len(answers') = h + 1
      /\ answers'[h + 1] = rsp /\ \A i \in 1..h : answers'[i] = answers[i]
  <2>1. answers \in Seq(Sendable) /\ Len(answers) = h
    BY <1>0, <1>4 DEF AnswersInv
  <2> QED BY <1>6, <2>1
<1>9. \A i \in 1..(h + 1) : i = h + 1 \/ i \in 1..h
  BY <1>4
<1>10. /\ \/ /\ down' = Append(down, ToRpcResult(rsp, h + 1, leftover))
             /\ server' = server
          \/ /\ down' = down
             /\ server' = "aborted"
  BY <1>2, <1>3, <1>4, <1>8 DEF Reply
<1>11. RequestsInv'
  <2>1. \A i \in 1..(h + 1) : handled'[i] = sent[i]
    <3>1. \A i \in 1..h : handled[i] = sent[i]
      BY <1>0, <1>4 DEF RequestsInv
    <3>2. req = sent[h + 1]
      BY <1>2, <1>4
    <3> QED BY <1>7, <1>9, <3>1, <3>2
  <2>2. Pending(sent, h + 1, up')
    BY <1>2, <1>3, <1>4
  <2>3. server' \in {"armed", "aborted"}
    BY <1>1, <1>10
  <2>4. sent' = sent /\ sent \in Seq(Sendable) /\ h + 1 <= Len(sent)
    <3>1. h + 1 \in 1..Len(sent) /\ sent \in Seq(Sendable)
      BY <1>0, <1>2, <1>4 DEF RequestsInv
    <3> QED BY <1>1, <3>1
  <2> QED BY <1>7, <2>1, <2>2, <2>3, <2>4 DEF RequestsInv
<1>12. AnswersInv'
  <2>1. \A i \in 1..(h + 1) : answers'[i].type = RspType(handled'[i].type)
    <3>1. \A i \in 1..h : answers[i].type = RspType(handled[i].type)
      BY <1>0, <1>8 DEF AnswersInv
    <3> QED BY <1>6, <1>7, <1>8, <1>9, <3>1
  <2>2. \A id \in DOMAIN dict' : dict'[id] \in Seq(1..255)
    BY <1>0, <1>3, <1>5, Served
  <2> QED BY <1>7, <1>8, <2>1, <2>2 DEF AnswersInv
<1>13. ResultsInv'
  <2>1. PICK a \in Nat, d \in Nat :
          a = Len(back) /\ d = Len(down) /\ a + d = h
    BY <1>0, <1>1, <1>8 DEF ResultsInv
  <2>2. /\ back \in Seq(Sendable) /\ down \in Seq(Results) /\ back' = back
        /\ \A i \in 1..a : back[i] = answers[i]
        /\ \A j \in 1..d : Holds(down[j], a + j, answers[a + j])
    BY <1>0, <1>1, <2>1 DEF ResultsInv
  <2>3. \A i \in 1..a : back'[i] = answers'[i]
    <3>1. \A i \in 1..a : i \in 1..h
      BY <2>1
    <3> QED BY <1>8, <2>2, <3>1
  <2>4. \A j \in 1..d : Holds(down[j], a + j, answers'[a + j])
    <3>1. \A j \in 1..d : a + j \in 1..h
      BY <2>1
    <3> QED BY <1>8, <2>2, <3>1
  <2>5. CASE down' = down /\ server' = "aborted"
    <3>1. a + d <= h + 1
      BY <2>1
    <3> QED BY <1>8, <2>1, <2>2, <2>3, <2>4, <2>5, <3>1 DEF ResultsInv
  <2>6. CASE /\ down' = Append(down, ToRpcResult(rsp, h + 1, leftover))
             /\ server' = server
    <3> DEFINE res == ToRpcResult(rsp, h + 1, leftover)
    <3>1. leftover \in Seq(Nat) /\ PackProtoStruct(rsp) \in Seq(Nat)
      BY LeftoverBytes, Packed
    <3>2. PackProtoStruct(rsp) \o leftover \in Seq(Nat)
      BY <3>1, ConcatProperties
    <3>3. /\ res.seqno = h + 1 /\ res.buffer = PackProtoStruct(rsp) \o leftover
          /\ res \in Results
      BY <3>2 DEF ToRpcResult, Results
    <3> HIDE DEF res
    <3>4. Holds(res, h + 1, rsp)
      BY <3>1, <3>3 DEF Holds
    <3>5. /\ down' \in Seq(Results) /\ Len(down') = d + 1
          /\ down'[d + 1] = res /\ \A j \in 1..d : down'[j] = down[j]
      BY <2>1, <2>2, <2>6, <3>3 DEF res
    <3>6. ASSUME NEW j \in 1..(d + 1) PROVE Holds(down'[j], a + j, answers'[a + j])
      <4>1. CASE j = d + 1
        <5>1. a + j = h + 1
          BY <2>1, <4>1
        <5> QED BY <1>8, <3>4, <3>5, <4>1, <5>1
      <4>2. CASE j # d + 1
        <5>1. j \in 1..d
          BY <2>1, <4>2
        <5> QED BY <2>4, <3>5, <5>1
      <4> QED BY <4>1, <4>2
    <3>7. a + (d + 1) = h + 1
      BY <2>1
    <3>8. Len(back') = a /\ a + (d + 1) <= h + 1
      BY <2>1, <2>2, <3>7
    <3> QED BY <1>8, <2>2, <2>3, <3>5, <3>6, <3>7, <3>8 DEF ResultsInv
  <2> QED BY <1>10, <2>5, <2>6
<1> QED BY <1>11, <1>12, <1>13 DEF WireInv

(* The callback of the first result knows its type.                        *)
LEMMA ExecKeeps ==
  ASSUME WireInv, Exec
  PROVE  WireInv'
<1>0. RequestsInv /\ AnswersInv /\ ResultsInv
  BY DEF WireInv
<1> DEFINE res == Head(down)
           req == ParseProtoStruct(RspType(sent[res.seqno].type), res.buffer)
<1>1. /\ down # <<>> /\ back' = Append(back, req) /\ down' = Tail(down)
      /\ UNCHANGED <<sent, up, handled, dict, server, answers>>
  BY DEF Exec
<1>2. /\ back \in Seq(Sendable) /\ down \in Seq(Results)
      /\ answers \in Seq(Sendable) /\ Len(answers) = Len(handled)
      /\ \A i \in 1..Len(back) : back[i] = answers[i]
      /\ \A j \in 1..Len(down) :
           Holds(down[j], Len(back) + j, answers[Len(back) + j])
      /\ Len(back) + Len(down) <= Len(answers)
      /\ server = "armed" => Len(back) + Len(down) = Len(answers)
  BY <1>0 DEF ResultsInv, AnswersInv
<1>3. PICK a \in Nat, d \in Nat, n \in Nat :
        a = Len(back) /\ d = Len(down) /\ n = Len(answers)
  BY <1>2
<1>4. d > 0 /\ a + 1 \in 1..n /\ 1 \in 1..d /\ res = down[1]
  BY <1>1, <1>2, <1>3
<1> HIDE DEF res
<1>5. Holds(res, a + 1, answers[a + 1])
  BY <1>2, <1>3, <1>4
<1>6. PICK rsp \in Sendable : rsp = answers[a + 1]
  BY <1>2, <1>3, <1>4, ElementOfSeq
<1>7. res.seqno = a + 1 /\ \E x \in Seq(Nat) : res.buffer = PackProtoStruct(rsp) \o x
  BY <1>5, <1>6, Zenon DEF Holds
<1>8. RspType(sent[a + 1].type) = rsp.type
  <2>1. answers[a + 1].type = RspType(handled[a + 1].type)
    BY <1>0, <1>3, <1>4 DEF AnswersInv
  <2>2. handled[a + 1] = sent[a + 1]
    BY <1>0, <1>2, <1>3, <1>4 DEF RequestsInv
  <2> QED BY <1>6, <2>1, <2>2
<1>9. req = rsp
  <2>1. PICK x \in Seq(Nat) : res.buffer = PackProtoStruct(rsp) \o x
    BY <1>7
  <2> QED BY <1>7, <1>8, <2>1, PackedParsed
<1> HIDE DEF req
<1>10. /\ back' \in Seq(Sendable) /\ Len(back') = a + 1
       /\ \A i \in 1..(a + 1) : back'[i] = answers[i]
  <2>1. back' = Append(back, rsp)
    BY <1>1, <1>9
  <2>2. /\ back' \in Seq(Sendable) /\ Len(back') = a + 1
        /\ back'[a + 1] = rsp /\ \A i \in 1..a : back'[i] = back[i]
    BY <1>2, <1>3, <2>1
  <2>3. \A i \in 1..(a + 1) : i = a + 1 \/ i \in 1..a
    BY <1>3
  <2> QED BY <1>2, <1>3, <1>6, <2>2, <2>3
<1>11. /\ down' \in Seq(Results) /\ Len(down') = d - 1
       /\ \A j \in 1..(d - 1) : down'[j] = down[j + 1]
  BY <1>1, <1>2, <1>3
<1>12. ASSUME NEW j \in 1..(d - 1)
       PROVE  Holds(down'[j], a + 1 + j, answers[a + 1 + j])
  <2>1. j + 1 \in 1..d /\ a + (j + 1) = a + 1 + j
    BY <1>3
  <2>2. Holds(down[j + 1], a + (j + 1), answers[a + (j + 1)])
    BY <1>2, <1>3, <2>1
  <2> QED BY <1>11, <2>1, <2>2
<1>13. /\ a + 1 + (d - 1) <= n
       /\ server = "armed" => a + 1 + (d - 1) = n
  BY <1>2, <1>3
<1>14. ResultsInv'
  <2>1. answers' = answers /\ server' = server
    BY <1>1
  <2> QED BY <1>3, <1>10, <1>11, <1>12, <1>13, <2>1 DEF ResultsInv
<1>15. RequestsInv' /\ AnswersInv'
  BY <1>0, <1>1 DEF RequestsInv, AnswersInv
<1> QED BY <1>14, <1>15 DEF WireInv

LEMMA StutterKeeps == WireInv /\ UNCHANGED vars => WireInv'
BY DEF WireInv, RequestsInv, AnswersInv, ResultsInv, vars

(* Every handler keeps stream, answers and results in step.                *)
THEOREM WireInductive == Spec => []WireInv
<1>1. ASSUME WireInv, [Next]_vars PROVE WireInv'
  <2>1. ASSUME NEW id \in Ids, CallRPCAsync(Get(id)) PROVE WireInv'
    BY <1>1, <2>1, CallKeeps, RequestsSendable
  <2>2. ASSUME NEW id \in Ids, NEW name \in Names, CallRPCAsync(Set(id, name))
        PROVE  WireInv'
    BY <1>1, <2>2, CallKeeps, RequestsSendable
  <2>3. ASSUME NEW leftover \in Leftovers, HandleReadEvent(leftover) PROVE WireInv'
    BY <1>1, <2>3, HandleKeeps
  <2> QED BY <1>1, <2>1, <2>2, <2>3, ExecKeeps, StutterKeeps, Zenon DEF Next
<1> QED BY InitWire, <1>1, PTL DEF Spec

LEMMA PrefixOf ==
  ASSUME NEW S, NEW s \in Seq(S), NEW t \in Seq(S), Len(s) <= Len(t),
         \A i \in 1..Len(s) : s[i] = t[i]
  PROVE  Prefix(s, t)
<1>1. Len(s) \in Nat /\ Len(t) \in Nat
  OBVIOUS
<1>2. \A i \in 1..Len(s) : t[i] \in S
  BY <1>1
<1>3. /\ SubSeq(t, 1, Len(s)) \in Seq(S) /\ Len(SubSeq(t, 1, Len(s))) = Len(s)
      /\ \A i \in 1..Len(s) : SubSeq(t, 1, Len(s))[i] = t[i]
  BY <1>1, <1>2
<1>4. s = SubSeq(t, 1, Len(s))
  BY <1>3, SeqEqual
<1> QED BY <1>4 DEF Prefix

(* For all ids, all names without zero bytes and any number of calls of at *)
(* most 480 bytes (a limit that CallRPCAsync does not check): no encoding  *)
(* is cut by strcpy, body_length leads from frame to frame, and the        *)
(* services are called with exactly the requests that were made.           *)
THEOREM RequestsArrive == Spec => []RequestsIntact
<1>1. WireInv => RequestsIntact
  <2> SUFFICES ASSUME WireInv PROVE RequestsIntact
    OBVIOUS
  <2>1. RequestsInv
    BY DEF WireInv
  <2>2. Prefix(handled, sent)
    BY <2>1, PrefixOf DEF RequestsInv
  <2>3. server # "bad packet"
    BY <2>1 DEF RequestsInv
  <2> QED BY <2>2, <2>3 DEF RequestsIntact
<1> QED BY <1>1, WireInductive, PTL

(* For all of these, callbacks are given exactly what the services         *)
(* returned, in order, whatever the rest of return_buffer holds.           *)
THEOREM ResultsArrive == Spec => []ResultsIntact
<1>1. WireInv => ResultsIntact
  <2> SUFFICES ASSUME WireInv PROVE ResultsIntact
    OBVIOUS
  <2>1. ResultsInv /\ AnswersInv
    BY DEF WireInv
  <2>2. back \in Seq(Sendable) /\ answers \in Seq(Sendable)
        /\ \A i \in 1..Len(back) : back[i] = answers[i]
    BY <2>1 DEF ResultsInv, AnswersInv
  <2>3. Len(back) <= Len(answers)
    <3>1. down \in Seq(Results) /\ Len(back) + Len(down) <= Len(answers)
      BY <2>1 DEF ResultsInv
    <3>2. Len(down) \in Nat /\ Len(back) \in Nat /\ Len(answers) \in Nat
      BY <2>2, <3>1
    <3> QED BY <3>1, <3>2
  <2>4. Prefix(back, answers)
    BY <2>2, <2>3, PrefixOf
  <2> QED BY <2>4 DEF ResultsIntact
<1> QED BY <1>1, WireInductive, PTL

=============================================================================
