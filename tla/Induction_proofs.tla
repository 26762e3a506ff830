-------------------------- MODULE Induction_proofs --------------------------
(***************************************************************************)
(* Induction and recursion over the naturals, about sets and functions      *)
(* instead of operators: a predicate is the set of the numbers that satisfy *)
(* it, and a step of a recursion is a function.                             *)
(***************************************************************************)
EXTENDS Integers, WellFoundedInduction, TLAPS

\* Every non-empty set of naturals has a least element.
LEMMA LeastNatural ==
  ASSUME NEW T, T \subseteq Nat, T # {}
  PROVE  \E x \in T : \A y \in T : x <= y
<1> DEFINE Less == {p \in Nat \X Nat : p[1] < p[2]}
<1>1. IsWellFoundedOn(Less, Nat)
  BY NatLessThanWellFounded DEF OpToRel
<1>2. PICK x \in T : \A y \in T : ~(<<y, x>> \in Less)
  <2> HIDE DEF Less
  <2> QED
    BY <1>1, WFMin
<1>3. ASSUME NEW y \in T
      PROVE  x <= y
  <2>1. ~(x > y)
    <3>1. <<y, x>> \in Nat \X Nat /\ <<y, x>>[1] = y /\ <<y, x>>[2] = x
      OBVIOUS
    <3> QED
      BY <1>2, <3>1
  <2> QED
    BY <2>1
<1> QED
  BY <1>3

\* Induction: a set with 0 and every successor holds all naturals.
LEMMA SetInduction ==
  ASSUME NEW P, 0 \in P, \A n \in Nat : n \in P => n + 1 \in P
  PROVE  \A n \in Nat : n \in P
<1> SUFFICES ASSUME Nat \ P # {}
             PROVE  FALSE
  OBVIOUS
<1>1. PICK x \in Nat \ P : \A y \in Nat \ P : x <= y
  BY LeastNatural
<1>2. x - 1 \in Nat /\ x - 1 \notin P
  BY <1>1
<1> QED
  BY <1>1, <1>2

\* f starts with b and goes on by step.  It stays folded where the lemma is cited.
Follows(f, b, step) ==
    /\ f[0] = b
    /\ \A n \in Nat \ {0} : f[n] = step[<<f[n - 1], n>>]

\* A step applied again and again defines a function.
LEMMA RecursionDefines ==
  ASSUME NEW S, NEW b \in S, NEW step \in [S \X Nat -> S]
  PROVE  \E f \in [Nat -> S] : Follows(f, b, step)
<1> DEFINE Good(g, n) == /\ g \in [0 .. n -> S]
                         /\ g[0] = b
                         /\ \A k \in 1 .. n : g[k] = step[<<g[k - 1], k>>]
<1>1. \A n \in Nat : \E g : Good(g, n)
  <2> DEFINE P == {n \in Nat : \E g : Good(g, n)}
  <2>1. 0 \in P
    <3>1. Good([k \in 0 .. 0 |-> b], 0)
      OBVIOUS
    <3> QED
      BY <3>1
  <2>2. ASSUME NEW n \in Nat, n \in P
        PROVE  n + 1 \in P
    <3>1. PICK g : Good(g, n)
      BY <2>2
    <3> DEFINE h == [k \in 0 .. n + 1 |->
                        IF k = n + 1 THEN step[<<g[n], n + 1>>] ELSE g[k]]
    <3>2. step[<<g[n], n + 1>>] \in S
      BY <3>1
    <3>3. h \in [0 .. n + 1 -> S]
      BY <3>1, <3>2
    <3>4. h[0] = b
      BY <3>1
    <3>5. ASSUME NEW k \in 1 .. n + 1
          PROVE  h[k] = step[<<h[k - 1], k>>]
      <4>1. CASE k = n + 1
        <5>1. h[n + 1] = step[<<g[n], n + 1>>] /\ h[n] = g[n]
          OBVIOUS
        <5>2. k - 1 = n
          BY <4>1
        <5> HIDE DEF h
        <5> QED
          BY <4>1, <5>1, <5>2
      <4>2. CASE k \in 1 .. n
        <5>1. h[k] = g[k] /\ h[k - 1] = g[k - 1]
          BY <4>2
        <5> QED
          BY <5>1, <4>2, <3>1
      <4> QED
        BY <4>1, <4>2
    <3> HIDE DEF h
    <3>6. Good(h, n + 1)
      BY <3>3, <3>4, <3>5
    <3> QED
      BY <3>6
  <2> HIDE DEF P
  <2>3. \A n \in Nat : n \in P
    BY <2>1, <2>2, SetInduction
  <2> QED
    BY <2>3 DEF P
<1>2. ASSUME NEW m \in Nat, NEW n \in Nat, NEW g, NEW h, Good(g, m), Good(h, n)
      PROVE  \A k \in Nat : k <= m /\ k <= n => g[k] = h[k]
  <2> DEFINE P == {k \in Nat : k <= m /\ k <= n => g[k] = h[k]}
  <2>1. 0 \in P
    BY <1>2
  <2>2. ASSUME NEW k \in Nat, k \in P
        PROVE  k + 1 \in P
    <3> SUFFICES ASSUME k + 1 <= m, k + 1 <= n
                 PROVE  g[k + 1] = h[k + 1]
      OBVIOUS
    <3>1. g[k] = h[k]
      BY <2>2
    <3>2. g[k + 1] = step[<<g[k], k + 1>>] /\ h[k + 1] = step[<<h[k], k + 1>>]
      <4>1. k + 1 \in 1 .. m /\ k + 1 \in 1 .. n /\ (k + 1) - 1 = k
        OBVIOUS
      <4> QED
        BY <4>1, <1>2
    <3> QED
      BY <3>1, <3>2
  <2> HIDE DEF P
  <2>3. \A k \in Nat : k \in P
    BY <2>1, <2>2, SetInduction
  <2> QED
    BY <2>3 DEF P
<1> DEFINE G == [n \in Nat |-> CHOOSE g : Good(g, n)]
           f == [n \in Nat |-> G[n][n]]
<1>3. \A n \in Nat : Good(G[n], n)
  <2> HIDE DEF Good
  <2> QED
    BY <1>1
<1> HIDE DEF G
<1>4. f \in [Nat -> S]
  <2> SUFFICES ASSUME NEW n \in Nat PROVE G[n][n] \in S
    OBVIOUS
  <2> QED
    BY <1>3
<1>5. f[0] = b
  BY <1>3
<1>6. ASSUME NEW n \in Nat, n # 0
      PROVE  f[n] = step[<<f[n - 1], n>>]
  <2>1. n - 1 \in Nat /\ n \in 1 .. n
    BY <1>6
  <2>2. G[n][n] = step[<<G[n][n - 1], n>>]
    BY <2>1, <1>3
  <2>3. G[n][n - 1] = G[n - 1][n - 1]
    <3>1. Good(G[n], n) /\ Good(G[n - 1], n - 1)
      BY <2>1, <1>3
    <3> HIDE DEF Good
    <3> QED
      BY <1>2, <2>1, <3>1
  <2> QED
    BY <2>1, <2>2, <2>3
<1> HIDE DEF f
<1> QED
  BY <1>4, <1>5, <1>6 DEF Follows

\* Induction as far as n.
LEMMA BoundedInduction ==
  ASSUME NEW P, NEW n \in Nat, 0 \in P, \A k \in 1 .. n : k - 1 \in P => k \in P
  PROVE  \A k \in 0 .. n : k \in P
<1> DEFINE Q == {k \in Nat : k <= n => k \in P}
<1>1. 0 \in Q
  OBVIOUS
<1>2. ASSUME NEW k \in Nat, k \in Q
      PROVE  k + 1 \in Q
  <2> SUFFICES ASSUME k + 1 <= n PROVE k + 1 \in P
    OBVIOUS
  <2>1. k \in P /\ k + 1 \in 1 .. n /\ (k + 1) - 1 = k
    BY <1>2
  <2> QED
    BY <2>1
<1> HIDE DEF Q
<1>3. \A k \in Nat : k \in Q
  BY <1>1, <1>2, SetInduction
<1> QED
  BY <1>3 DEF Q

\* The same as Follows for a function on 0 .. n.
FollowsUpTo(g, b, step, n) ==
    /\ g[0] = b
    /\ \A k \in 1 .. n : g[k] = step[<<g[k - 1], k>>]

\* A step applied n times defines a function on 0 .. n.
LEMMA RecursionUpTo ==
  ASSUME NEW S, NEW b \in S, NEW n \in Nat, NEW step \in [S \X (1 .. n) -> S]
  PROVE  \E g \in [0 .. n -> S] : FollowsUpTo(g, b, step, n)
<1> DEFINE more == [x \in S \X Nat |-> IF x[2] \in 1 .. n THEN step[x] ELSE b]
<1>1. more \in [S \X Nat -> S]
  <2>1. \A x \in S \X Nat : x[2] \in 1 .. n => x \in S \X (1 .. n)
    OBVIOUS
  <2> QED
    BY <2>1
<1>2. PICK f \in [Nat -> S] : Follows(f, b, more)
  <2> HIDE DEF more
  <2> QED
    BY <1>1, RecursionDefines
<1> DEFINE g == [k \in 0 .. n |-> f[k]]
<1>3. g \in [0 .. n -> S] /\ g[0] = b
  BY <1>2 DEF Follows
<1>4. ASSUME NEW k \in 1 .. n
      PROVE  g[k] = step[<<g[k - 1], k>>]
  <2>1. k \in Nat \ {0} /\ k - 1 \in Nat /\ g[k] = f[k] /\ g[k - 1] = f[k - 1]
    OBVIOUS
  <2>2. f[k] = more[<<f[k - 1], k>>] /\ f[k - 1] \in S
    BY <1>2, <2>1 DEF Follows
  <2>3. <<f[k - 1], k>> \in S \X Nat
    BY <2>1, <2>2
  <2>4. more[<<f[k - 1], k>>] = step[<<f[k - 1], k>>]
    BY <2>3
  <2> HIDE DEF g, more
  <2> QED
    BY <2>1, <2>2, <2>4
<1> HIDE DEF g
<1> QED
  BY <1>3, <1>4 DEF FollowsUpTo
=============================================================================
