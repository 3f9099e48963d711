------------------------------ MODULE ListProofs ------------------------------
(***************************************************************************)
(* What the proofs about several components rest on: induction over the    *)
(* numbers, recursions over the numbers up to N, and the filter of a list. *)
(***************************************************************************)
EXTENDS Lists, WellFoundedInduction, TLAPS

-----------------------------------------------------------------------------
(* Induction, in a form that needs no operator for the formula proved: the *)
(* numbers for which it holds are a set.                                   *)
LEMMA NatSetMin ==
  ASSUME NEW T \in SUBSET Nat, T # {}
  PROVE  \E n \in T : \A m \in T : n <= m
<1> DEFINE R == OpToRel(<, Nat)
<1>1. IsWellFoundedOn(R, Nat)
  BY NatLessThanWellFounded
<1>2. \A x, y \in Nat : x < y => <<x, y>> \in R
  BY DEF OpToRel
<1> HIDE DEF R
<1>3. PICK x \in T : \A y \in T : ~(<<y, x>> \in R)
  BY <1>1, WFMin
<1>4. \A y \in T : ~(y < x)
  BY <1>2, <1>3
<1> QED
  BY <1>4

LEMMA NatSetInduction ==
  ASSUME NEW T, 0 \in T, \A n \in Nat : n \in T => n + 1 \in T
  PROVE  Nat \subseteq T
<1> SUFFICES ASSUME Nat \ T # {} PROVE FALSE
  OBVIOUS
<1>1. PICK n \in Nat \ T : \A m \in Nat \ T : n <= m
  BY NatSetMin
<1>2. n # 0 /\ n - 1 \in Nat /\ n - 1 \in T
  BY <1>1
<1> QED
  BY <1>1, <1>2

-----------------------------------------------------------------------------
(* A recursion over 0 .. N, with values in a set, has a solution.          *)
Recurs(N, V, base, G, f) ==
  f \in [0 .. N -> V] /\ f[0] = base /\ \A n \in 1 .. N : f[n] = G[n][f[n - 1]]

LEMMA Recursion ==
  ASSUME NEW N \in Nat, NEW V, NEW base \in V, NEW G \in [1 .. N -> [V -> V]]
  PROVE  \E f : Recurs(N, V, base, G, f)
<1> DEFINE Solves(f, k) == /\ f \in [0 .. k -> V] /\ f[0] = base
                           /\ \A n \in 1 .. k : f[n] = G[n][f[n - 1]]
           T == {k \in Nat : k <= N => \E f : Solves(f, k)}
<1>1. 0 \in T
  <2>1. Solves([n \in 0 .. 0 |-> base], 0)
    OBVIOUS
  <2> HIDE DEF Solves
  <2> QED
    BY <2>1
<1>2. ASSUME NEW k \in Nat, k \in T PROVE k + 1 \in T
  <2> SUFFICES ASSUME k + 1 <= N PROVE \E f : Solves(f, k + 1)
    OBVIOUS
  <2>1. PICK f : Solves(f, k)
    BY <1>2
  <2> DEFINE g == [n \in 0 .. k + 1 |-> IF n = k + 1 THEN G[k + 1][f[k]] ELSE f[n]]
  <2>2. /\ g[k + 1] = G[k + 1][f[k]]
        /\ \A n \in 0 .. k : g[n] = f[n]
    OBVIOUS
  <2>3. f[k] \in V /\ k + 1 \in 1 .. N
    BY <2>1
  <2>4. G[k + 1][f[k]] \in V
    BY <2>3
  <2>5. g \in [0 .. k + 1 -> V]
    BY <2>1, <2>4
  <2>6. ASSUME NEW n \in 1 .. k + 1 PROVE g[n] = G[n][g[n - 1]]
    <3>1. CASE n = k + 1
      BY <2>2, <3>1
    <3>2. CASE n # k + 1
      <4>1. n \in 1 .. k /\ n \in 0 .. k /\ n - 1 \in 0 .. k
        BY <3>2
      <4>2. g[n] = f[n] /\ g[n - 1] = f[n - 1] /\ f[n] = G[n][f[n - 1]]
        BY <4>1, <2>1, <2>2
      <4> QED
        BY <4>2
    <3> QED
      BY <3>1, <3>2
  <2>7. g[0] = base
    BY <2>1, <2>2
  <2>8. Solves(g, k + 1)
    <3> HIDE DEF g
    <3> QED
      BY <2>5, <2>6, <2>7
  <2> HIDE DEF Solves
  <2> QED
    BY <2>8
<1>3. Nat \subseteq T
  <2> HIDE DEF T
  <2> QED
    BY <1>1, <1>2, NatSetInduction
<1> QED
  BY <1>3 DEF Recurs

(* Among computes what its recursion says ...                              *)
LEMMA AmongRecursion ==
  ASSUME NEW U, NEW q \in Seq(U), NEW S
  PROVE  \E f : /\ f = [n \in 0 .. Len(q) |->
                          IF n = 0 THEN <<>>
                          ELSE IF q[n] \in S THEN Append(f[n - 1], q[n]) ELSE f[n - 1]]
                /\ Among(q, S) = f[Len(q)]
<1> DEFINE E(n, x) == IF q[n] \in S THEN Append(x, q[n]) ELSE x
           G == [n \in 1 .. Len(q) |-> [x \in Seq(U) |-> E(n, x)]]
           Rec(f) == f = [n \in 0 .. Len(q) |->
                            IF n = 0 THEN <<>>
                            ELSE IF q[n] \in S THEN Append(f[n - 1], q[n]) ELSE f[n - 1]]
<1>1. \A n \in 1 .. Len(q), x \in Seq(U) : E(n, x) \in Seq(U) /\ G[n][x] = E(n, x)
  OBVIOUS
<1>2. G \in [1 .. Len(q) -> [Seq(U) -> Seq(U)]] /\ <<>> \in Seq(U) /\ Len(q) \in Nat
  OBVIOUS
<1>3. PICK f \in [0 .. Len(q) -> Seq(U)] :
         f[0] = <<>> /\ \A n \in 1 .. Len(q) : f[n] = G[n][f[n - 1]]
  <2> DEFINE N == Len(q)
             V == Seq(U)
             base == <<>>
  <2>1. N \in Nat /\ base \in V /\ G \in [1 .. N -> [V -> V]]
    BY <1>2
  <2>2. \E f : Recurs(N, V, base, G, f)
    <3> HIDE DEF G, N, V, base
    <3> QED
      BY <2>1, Recursion
  <2> HIDE DEF G
  <2> QED
    BY <2>2 DEF Recurs
<1>4. \A n \in 0 .. Len(q) : f[n] = IF n = 0 THEN <<>> ELSE E(n, f[n - 1])
  <2> HIDE DEF G, E
  <2> QED
    BY <1>1, <1>3
<1>5. Rec(f)
  BY <1>3, <1>4
<1>6. Rec(CHOOSE g : Rec(g))
  <2> HIDE DEF Rec
  <2> QED
    BY <1>5
<1>7. Among(q, S) = (CHOOSE g : Rec(g))[Len(q)]
  BY DEF Among
<1> QED
  BY <1>6, <1>7

(* ... so its result has the elements of q that are in S, and no element   *)
(* twice that q has once.                                                  *)
LEMMA AmongFacts ==
  ASSUME NEW U, NEW q \in Seq(U), NEW S
  PROVE  /\ Among(q, S) \in Seq(U)
         /\ \A n \in DOMAIN Among(q, S) :
              Among(q, S)[n] \in S /\ \E m \in DOMAIN q : q[m] = Among(q, S)[n]
         /\ \A m \in DOMAIN q : q[m] \in S => \E n \in DOMAIN Among(q, S) : Among(q, S)[n] = q[m]
         /\ (\A m, n \in DOMAIN q : q[m] = q[n] => m = n)
            => \A m, n \in DOMAIN Among(q, S) : Among(q, S)[m] = Among(q, S)[n] => m = n
<1>1. PICK f : /\ f = [n \in 0 .. Len(q) |->
                          IF n = 0 THEN <<>>
                          ELSE IF q[n] \in S THEN Append(f[n - 1], q[n]) ELSE f[n - 1]]
               /\ Among(q, S) = f[Len(q)]
  BY AmongRecursion
<1> DEFINE Good(r, k) ==
             /\ r \in Seq(U)
             /\ \A n \in 1 .. Len(r) : r[n] \in S /\ \E m \in 1 .. k : q[m] = r[n]
             /\ \A m \in 1 .. k : q[m] \in S => \E n \in 1 .. Len(r) : r[n] = q[m]
             /\ (\A m, n \in 1 .. Len(q) : q[m] = q[n] => m = n)
                => \A m, n \in 1 .. Len(r) : r[m] = r[n] => m = n
           T == {k \in Nat : k <= Len(q) => Good(f[k], k)}
<1>2. Len(q) \in Nat /\ f[0] = <<>>
  BY <1>1
<1>3. \A n \in 0 .. Len(q) : n # 0 =>
         f[n] = IF q[n] \in S THEN Append(f[n - 1], q[n]) ELSE f[n - 1]
  BY <1>1
<1>4. 0 \in T
  <2>1. <<>> \in Seq(U) /\ Len(<<>>) = 0
    OBVIOUS
  <2>2. Good(<<>>, 0)
    BY <2>1
  <2> HIDE DEF Good
  <2> QED
    BY <2>2, <1>2
<1>5. ASSUME NEW k \in Nat, k \in T PROVE k + 1 \in T
  <2> SUFFICES ASSUME k + 1 <= Len(q) PROVE Good(f[k + 1], k + 1)
    OBVIOUS
  <2>1. Good(f[k], k)
    <3> HIDE DEF Good
    <3> QED
      BY <1>5, <1>2
  <2>2. f[k + 1] = IF q[k + 1] \in S THEN Append(f[k], q[k + 1]) ELSE f[k]
    <3>1. k + 1 \in 0 .. Len(q) /\ k + 1 # 0 /\ (k + 1) - 1 = k
      BY <1>2
    <3> QED
      BY <3>1, <1>3
  <2>3. q[k + 1] \in U
    OBVIOUS
  <2> DEFINE r == f[k]
             e == q[k + 1]
             new == Append(r, e)
  <2>4. CASE e \notin S
    <3>1. f[k + 1] = r
      BY <2>2, <2>4
    <3> QED
      BY <2>1, <3>1, <2>4
  <2>5. CASE e \in S
    <3>1. f[k + 1] = new
      BY <2>2, <2>5
    <3>2. r \in Seq(U)
      BY <2>1
    <3>3. /\ new \in Seq(U) /\ Len(new) = Len(r) + 1 /\ Len(r) \in Nat
          /\ new[Len(r) + 1] = e /\ \A n \in 1 .. Len(r) : new[n] = r[n]
      BY <3>2, <2>3
    <3>4. \A n \in 1 .. Len(new) : n = Len(r) + 1 \/ n \in 1 .. Len(r)
      BY <3>3
    <3> HIDE DEF new, r
    <3>5. \A n \in 1 .. Len(new) : new[n] \in S /\ \E m \in 1 .. k + 1 : q[m] = new[n]
      <4> SUFFICES ASSUME NEW n \in 1 .. Len(new)
                   PROVE  new[n] \in S /\ \E m \in 1 .. k + 1 : q[m] = new[n]
        OBVIOUS
      <4>1. CASE n = Len(r) + 1
        <5>1. new[n] = e /\ k + 1 \in 1 .. k + 1
          BY <4>1, <3>3
        <5> QED
          BY <5>1, <2>5
      <4>2. CASE n \in 1 .. Len(r)
        <5>1. PICK m \in 1 .. k : q[m] = r[n]
          BY <4>2, <2>1 DEF r
        <5>2. r[n] \in S
          BY <4>2, <2>1 DEF r
        <5>3. m \in 1 .. k + 1 /\ new[n] = r[n]
          BY <4>2, <3>3
        <5> QED
          BY <5>1, <5>2, <5>3
      <4> QED
        BY <4>1, <4>2, <3>4
    <3>6. \A m \in 1 .. k + 1 : q[m] \in S => \E n \in 1 .. Len(new) : new[n] = q[m]
      <4> SUFFICES ASSUME NEW m \in 1 .. k + 1, q[m] \in S
                   PROVE  \E n \in 1 .. Len(new) : new[n] = q[m]
        OBVIOUS
      <4>1. CASE m = k + 1
        BY <4>1, <3>3
      <4>2. CASE m # k + 1
        <5>1. PICK n \in 1 .. Len(r) : r[n] = q[m]
          BY <4>2, <2>1 DEF r
        <5> QED
          BY <5>1, <3>3
      <4> QED
        BY <4>1, <4>2
    <3>7. ASSUME \A m, n \in 1 .. Len(q) : q[m] = q[n] => m = n
          PROVE  \A m, n \in 1 .. Len(new) : new[m] = new[n] => m = n
      <4>1. \A n \in 1 .. Len(r) : r[n] # e
        <5> SUFFICES ASSUME NEW n \in 1 .. Len(r), r[n] = e PROVE FALSE
          OBVIOUS
        <5>1. PICK m \in 1 .. k : q[m] = r[n]
          BY <2>1 DEF r
        <5> QED
          BY <5>1, <3>7
      <4>2. \A m, n \in 1 .. Len(r) : r[m] = r[n] => m = n
        BY <2>1, <3>7 DEF r
      <4> QED
        BY <4>1, <4>2, <3>3, <3>4
    <3> QED
      BY <3>1, <3>3, <3>5, <3>6, <3>7
  <2> QED
    BY <2>4, <2>5
<1>6. Nat \subseteq T
  <2> HIDE DEF T
  <2> QED
    BY <1>4, <1>5, NatSetInduction
<1>7. Good(f[Len(q)], Len(q)) /\ DOMAIN q = 1 .. Len(q)
  BY <1>6
<1>8. Among(q, S) \in Seq(U) /\ DOMAIN Among(q, S) = 1 .. Len(Among(q, S))
  <2>1. Among(q, S) \in Seq(U)
    BY <1>1, <1>7
  <2> QED
    BY <2>1
<1> QED
  BY <1>1, <1>7, <1>8
===============================================================================
