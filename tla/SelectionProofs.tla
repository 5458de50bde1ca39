--------------------------- MODULE SelectionProofs ---------------------------
(***************************************************************************)
(* What Kept returns, for every sequence: the elements at the positions    *)
(* kept, once each, in their order.                                        *)
(*                                                                         *)
(* The induction theorems of the library take an operator; here induction  *)
(* is over a set of numbers (NatSetInduction), which follows from the      *)
(* well-foundedness of the order of Nat.                                   *)
(***************************************************************************)
EXTENDS Selection, WellFoundedInduction, TLAPS

\* A set of numbers that is not empty has a least element.
LEMMA LeastOf ==
  ASSUME NEW S \in SUBSET Nat, S # {}
  PROVE  \E n \in S : \A m \in S : n <= m
<1> DEFINE R == OpToRel(<, Nat)
<1>1. IsWellFoundedOn(R, Nat)
  BY NatLessThanWellFounded DEF OpToRel
<1>2. \A x, y \in Nat : <<y, x>> \in R <=> y < x
  BY DEF OpToRel
<1> HIDE DEF R
<1>3. PICK x \in S : \A y \in S : ~ (<<y, x>> \in R)
  BY <1>1, WFMin
<1>4. \A y \in S : x \in Nat /\ y \in Nat /\ ~ (y < x)
  BY <1>2, <1>3
<1>5. QED  BY <1>4

\* Induction over the natural numbers, for a set instead of an operator.
LEMMA NatSetInduction ==
  ASSUME NEW S \in SUBSET Nat, 0 \in S, \A n \in S : n + 1 \in S
  PROVE  \A n \in Nat : n \in S
<1> SUFFICES ASSUME Nat \ S # {}  PROVE FALSE
  OBVIOUS
<1>1. PICK n \in Nat \ S : \A m \in Nat \ S : n <= m
  BY LeastOf
<1>2. n # 0 /\ n - 1 \in Nat /\ ~(n <= n - 1)
  BY <1>1
<1>3. n - 1 \in S
  BY <1>1, <1>2
<1>4. QED  BY <1>1, <1>2, <1>3

\* The first n steps of the loop of Kept.
LoopTo(k, n, s, K) ==
  k = [m \in 0..n |->
        IF m = 0 THEN <<>>
        ELSE IF m \in K THEN Append(k[m - 1], s[m]) ELSE k[m - 1]]

\* The loop can be run for any number of steps.
LEMMA LoopRuns ==
  ASSUME NEW s, NEW K
  PROVE  \A n \in Nat : \E k : LoopTo(k, n, s, K)
<1> DEFINE S == {n \in Nat : \E k : LoopTo(k, n, s, K)}
<1>1. 0 \in S
  <2> DEFINE k == [m \in 0..0 |-> <<>>]
  <2>1. LoopTo(k, 0, s, K)
    <3>1. \A m \in 0..0 : m = 0
      OBVIOUS
    <3>2. QED  BY <3>1 DEF LoopTo
  <2>2. QED  BY <2>1
<1>2. ASSUME NEW n \in S  PROVE n + 1 \in S
  <2>1. n \in Nat /\ n + 1 \in Nat
    OBVIOUS
  <2>2. PICK k : LoopTo(k, n, s, K)
    OBVIOUS
  <2> DEFINE last == IF n + 1 \in K THEN Append(k[n], s[n + 1]) ELSE k[n]
             j == [m \in 0..(n + 1) |-> IF m = n + 1 THEN last ELSE k[m]]
             Step(f, m) == IF m = 0 THEN <<>>
                           ELSE IF m \in K THEN Append(f[m - 1], s[m]) ELSE f[m - 1]
  <2>3. \A m \in 0..n : m # n + 1 /\ m \in 0..(n + 1) /\ (m # 0 => m - 1 \in 0..n)
    BY <2>1
  <2>4. \A m \in 0..n : j[m] = k[m]
    BY <2>3
  <2>5. \A m \in 0..n : k[m] = Step(k, m)
    BY <2>2 DEF LoopTo
  <2>6. \A m \in 0..n : Step(j, m) = Step(k, m)
    BY <2>3, <2>4
  <2>7. n + 1 # 0 /\ n + 1 - 1 = n /\ n \in 0..n /\ n + 1 \in 0..(n + 1)
    BY <2>1
  <2>8. j[n + 1] = Step(j, n + 1)
    BY <2>4, <2>7
  <2>9. \A m \in 0..(n + 1) : m \in 0..n \/ m = n + 1
    BY <2>1
  <2>10. \A m \in 0..(n + 1) : j[m] = Step(j, m)
    BY <2>4, <2>5, <2>6, <2>8, <2>9
  <2>11. j = [m \in 0..(n + 1) |-> j[m]]
    OBVIOUS
  <2> HIDE DEF j
  <2>12. LoopTo(j, n + 1, s, K)
    BY <2>10, <2>11 DEF LoopTo
  <2>13. QED  BY <2>1, <2>12
<1> HIDE DEF S
<1>3. \A n \in Nat : n \in S
  <2>1. S \in SUBSET Nat
    BY DEF S
  <2>2. QED  BY <1>1, <1>2, <2>1, NatSetInduction
<1>4. QED  BY <1>3 DEF S

\* f gives the position in s of each element of r: those of K up to n.
Selects(f, r, n, s, K) ==
  /\ f \in [1..Len(r) -> K \cap 1..n]
  /\ \A m \in 1..Len(r) : r[m] = s[f[m]]
  /\ \A l, m \in 1..Len(r) : l < m => f[l] < f[m]
  /\ \A p \in K \cap 1..n : \E m \in 1..Len(r) : f[m] = p

\* After each step the loop has kept the positions it has passed.
LEMMA LoopSelects ==
  ASSUME NEW T, NEW s \in Seq(T), NEW K, NEW k, LoopTo(k, Len(s), s, K)
  PROVE  \A n \in 0..Len(s) : k[n] \in Seq(T) /\ \E f : Selects(f, k[n], n, s, K)
<1> DEFINE Good(n) == k[n] \in Seq(T) /\ \E f : Selects(f, k[n], n, s, K)
           S == {n \in Nat : n <= Len(s) => Good(n)}
<1>0. Len(s) \in Nat
  OBVIOUS
<1>1. 0 \in S
  <2>1. k[0] = <<>>
    BY <1>0 DEF LoopTo
  <2> DEFINE f == [m \in 1..0 |-> 0]
  <2>2. Selects(f, <<>>, 0, s, K)
    <3>1. Len(<<>>) = 0 /\ 1..0 = {}
      OBVIOUS
    <3>2. QED  BY <3>1 DEF Selects
  <2> HIDE DEF f
  <2>3. Good(0)
    <3>1. <<>> \in Seq(T)
      OBVIOUS
    <3>2. QED  BY <2>1, <2>2, <3>1, Zenon
  <2>4. QED  BY <2>3
<1>2. ASSUME NEW n \in S  PROVE n + 1 \in S
  <2> SUFFICES ASSUME n + 1 <= Len(s)  PROVE Good(n + 1)
    OBVIOUS
  <2>1. /\ n \in Nat /\ n <= Len(s) /\ n + 1 \in 0..Len(s) /\ n + 1 # 0 /\ n + 1 - 1 = n
        /\ n + 1 \in 1..Len(s)
    BY <1>0
  <2>2. k[n] \in Seq(T)
    BY <2>1
  <2>3. PICK f : Selects(f, k[n], n, s, K)
    BY <2>1
  <2>4. k[n + 1] = IF n + 1 \in K THEN Append(k[n], s[n + 1]) ELSE k[n]
    <3>1. \A m \in 0..Len(s) : k[m] = IF m = 0 THEN <<>>
                                      ELSE IF m \in K THEN Append(k[m - 1], s[m]) ELSE k[m - 1]
      BY DEF LoopTo
    <3>2. QED  BY <2>1, <3>1
  <2> DEFINE r == k[n]
             q == k[n + 1]
  <2> HIDE DEF r, q
  <2>5. CASE n + 1 \notin K
    <3>1. K \cap 1..(n + 1) = K \cap 1..n
      BY <2>1, <2>5
    <3>2. Selects(f, k[n], n + 1, s, K)
      BY <2>3, <3>1 DEF Selects
    <3>3. QED  BY <2>2, <2>4, <2>5, <3>2
  <2>6. CASE n + 1 \in K
    <3>1. q = Append(r, s[n + 1]) /\ r \in Seq(T) /\ s[n + 1] \in T
      BY <2>1, <2>2, <2>4, <2>6 DEF r, q
    <3>2. /\ q \in Seq(T) /\ Len(q) = Len(r) + 1 /\ Len(r) \in Nat
          /\ q[Len(r) + 1] = s[n + 1]
          /\ \A m \in 1..Len(r) : q[m] = r[m]
      BY <3>1
    <3> DEFINE g == [m \in 1..Len(q) |-> IF m = Len(q) THEN n + 1 ELSE f[m]]
    <3>3. /\ \A m \in 1..Len(r) : m \in 1..Len(q) /\ m # Len(q) /\ g[m] = f[m]
          /\ \A m \in 1..Len(q) : m \in 1..Len(r) \/ m = Len(q)
          /\ Len(q) \in 1..Len(q) /\ g[Len(q)] = n + 1
      BY <3>2
    <3>4. /\ f \in [1..Len(r) -> K \cap 1..n]
          /\ \A m \in 1..Len(r) : r[m] = s[f[m]]
          /\ \A l, m \in 1..Len(r) : l < m => f[l] < f[m]
          /\ \A p \in K \cap 1..n : \E m \in 1..Len(r) : f[m] = p
      BY <2>3 DEF Selects, r
    <3>5. g \in [1..Len(q) -> K \cap 1..(n + 1)]
      <4>1. \A m \in 1..Len(q) : g[m] \in K \cap 1..(n + 1)
        BY <2>1, <2>6, <3>3, <3>4
      <4>2. QED  BY <4>1
    <3> HIDE DEF g
    <3>6. \A m \in 1..Len(q) : q[m] = s[g[m]]
      BY <3>2, <3>3, <3>4
    <3>7. \A l, m \in 1..Len(q) : l < m => g[l] < g[m]
      <4> SUFFICES ASSUME NEW l \in 1..Len(q), NEW m \in 1..Len(q), l < m  PROVE g[l] < g[m]
        OBVIOUS
      <4>1. l \in 1..Len(r) /\ f[l] \in 1..n
        <5>1. l \in 1..Len(r)
          <6>1. l # Len(q)
            BY <3>2
          <6>2. QED  BY <3>3, <6>1
        <5>2. QED  BY <3>4, <5>1
      <4>2. CASE m = Len(q)
        BY <2>1, <3>3, <4>1, <4>2
      <4>3. CASE m \in 1..Len(r)
        BY <3>3, <3>4, <4>1, <4>3
      <4>4. QED  BY <3>3, <4>2, <4>3
    <3>8. \A p \in K \cap 1..(n + 1) : \E m \in 1..Len(q) : g[m] = p
      <4> SUFFICES ASSUME NEW p \in K \cap 1..(n + 1)  PROVE \E m \in 1..Len(q) : g[m] = p
        OBVIOUS
      <4>1. CASE p = n + 1
        BY <3>3, <4>1
      <4>2. CASE p # n + 1
        <5>1. p \in K \cap 1..n
          BY <2>1, <4>2
        <5>2. QED  BY <3>3, <3>4, <5>1
      <4>3. QED  BY <4>1, <4>2
    <3>9. Selects(g, q, n + 1, s, K)
      BY <3>5, <3>6, <3>7, <3>8 DEF Selects
    <3>10. QED  BY <3>2, <3>9 DEF q
  <2>7. QED  BY <2>5, <2>6
<1>3. \A n \in Nat : n \in S
  <2> HIDE DEF S
  <2>1. S \in SUBSET Nat
    BY DEF S
  <2>2. QED  BY <1>1, <1>2, <2>1, NatSetInduction
<1>4. QED  BY <1>0, <1>3

\* What Kept returns: there is a map of its positions to those kept, one to
\* one and in order.
THEOREM KeptSelects ==
  ASSUME NEW T, NEW s \in Seq(T), NEW K
  PROVE  Kept(s, K) \in Seq(T) /\ \E f : Selects(f, Kept(s, K), Len(s), s, K)
<1>1. Kept(s, K) = (CHOOSE k : LoopTo(k, Len(s), s, K))[Len(s)]
  BY DEF Kept, LoopTo
<1>2. PICK k : LoopTo(k, Len(s), s, K) /\ Kept(s, K) = k[Len(s)]
  <2>1. \E k : LoopTo(k, Len(s), s, K)
    <3>1. Len(s) \in Nat
      OBVIOUS
    <3>2. QED  BY <3>1, LoopRuns, Zenon
  <2>2. QED  BY <1>1, <2>1
<1>3. QED  BY <1>2, LoopSelects
=============================================================================
