----------------------------- MODULE Induction -----------------------------
(***************************************************************************)
(* Induction, and recursion, over the natural numbers in the form that     *)
(* the proofs about texts use: about a set, or a function, in place of a   *)
(* predicate.                                                              *)
(***************************************************************************)
EXTENDS Integers, WellFoundedInduction, TLAPS

LEMMA NatWellFounded == IsWellFoundedOn({pair \in Nat \X Nat : pair[1] < pair[2]}, Nat)
  BY NatLessThanWellFounded DEF OpToRel

\* A set with 0 and with the successor of each of its numbers has them all.
LEMMA SetInduction ==
  ASSUME NEW S, 0 \in S, \A n \in Nat : n \in S => n + 1 \in S
  PROVE  Nat \subseteq S
<1> DEFINE R == {pair \in Nat \X Nat : pair[1] < pair[2]}
           T == Nat \ S
<1>1. IsWellFoundedOn(R, Nat)
  BY NatWellFounded
<1>2. SUFFICES ASSUME T # {} PROVE FALSE
  OBVIOUS
<1>3. PICK x \in T : \A y \in T : ~(<<y, x>> \in R)
  <2>1. T \subseteq Nat
    OBVIOUS
  <2> HIDE DEF R, T
  <2> QED BY <1>1, <1>2, <2>1, WFMin
<1>4. x \in Nat /\ x \notin S
  OBVIOUS
<1>5. x # 0
  BY <1>4
<1>6. x - 1 \in Nat /\ x = (x - 1) + 1 /\ x - 1 < x
  BY <1>4, <1>5, SMT
<1>7. x - 1 \notin S
  BY <1>4, <1>6
<1>8. x - 1 \in T /\ <<x - 1, x>> \in R
  BY <1>4, <1>6, <1>7
<1> QED BY <1>3, <1>8

\* The functions that follow the rule G as far as the arguments below a rank go.
UpTo(D, S, rank, G, n) ==
    {f \in [D -> S] : \A x \in D : rank[x] < n => f[x] = G[<<x, f>>]}

\* A rule G that gives values in S, looks only at arguments of lower rank, and
\* a function that follows it.
Into(D, S, G) == \A x \in D, f \in [D -> S] : G[<<x, f>>] \in S
Below(D, S, rank, G) ==
    \A x \in D, f, g \in [D -> S] :
        (\A y \in D : rank[y] < rank[x] => f[y] = g[y]) => G[<<x, f>>] = G[<<x, g>>]
Follows(f, D, G) == f = [x \in D |-> G[<<x, f>>]]

\* Two functions that follow a rule up to a rank agree up to there.
LEMMA UniqueUpTo ==
  ASSUME NEW D, NEW S, NEW rank \in [D -> Nat], NEW G,
         Below(D, S, rank, G),
         NEW n \in Nat, NEW f \in UpTo(D, S, rank, G, n), NEW g \in UpTo(D, S, rank, G, n)
  PROVE  \A x \in D : rank[x] < n => f[x] = g[x]
<1>b. \A x \in D, f1, g1 \in [D -> S] :
         (\A y \in D : rank[y] < rank[x] => f1[y] = g1[y]) => G[<<x, f1>>] = G[<<x, g1>>]
  BY Zenon DEF Below
<1> DEFINE Agree == {m \in Nat : \A x \in D : rank[x] < m /\ rank[x] < n => f[x] = g[x]}
<1>1. f \in [D -> S] /\ g \in [D -> S]
  BY DEF UpTo
<1>2. 0 \in Agree
  BY SMT
<1>3. ASSUME NEW m \in Nat, m \in Agree PROVE m + 1 \in Agree
  <2>1. SUFFICES ASSUME NEW x \in D, rank[x] < m + 1, rank[x] < n PROVE f[x] = g[x]
    BY SMT
  <2>2. \A y \in D : rank[y] < rank[x] => f[y] = g[y]
    BY <1>3, <2>1, SMT
  <2>3. G[<<x, f>>] = G[<<x, g>>]
    BY <1>1, <1>b, <2>2
  <2>4. f[x] = G[<<x, f>>] /\ g[x] = G[<<x, g>>]
    BY <2>1 DEF UpTo
  <2> QED BY <2>3, <2>4
<1>4. n \in Agree
  <2> HIDE DEF Agree
  <2> QED BY <1>2, <1>3, SetInduction
<1> QED BY <1>4

\* There is one for every rank.
LEMMA ExistsUpTo ==
  ASSUME NEW D, NEW S, S # {}, NEW rank \in [D -> Nat], NEW G,
         Into(D, S, G), Below(D, S, rank, G),
         NEW n \in Nat
  PROVE  UpTo(D, S, rank, G, n) # {}
<1>a. \A x \in D, f \in [D -> S] : G[<<x, f>>] \in S
  BY Zenon DEF Into
<1>b. \A x \in D, f, g \in [D -> S] :
         (\A y \in D : rank[y] < rank[x] => f[y] = g[y]) => G[<<x, f>>] = G[<<x, g>>]
  BY Zenon DEF Below
<1> DEFINE There == {m \in Nat : UpTo(D, S, rank, G, m) # {}}
<1>1. 0 \in There
  <2>1. PICK s : s \in S
    OBVIOUS
  <2>2. \A x \in D : ~(rank[x] < 0)
    BY SMT
  <2>3. [x \in D |-> s] \in UpTo(D, S, rank, G, 0)
    BY <2>1, <2>2 DEF UpTo
  <2> QED BY <2>3
<1>2. ASSUME NEW m \in Nat, m \in There PROVE m + 1 \in There
  <2>1. PICK f : f \in UpTo(D, S, rank, G, m)
    BY <1>2
  <2>2. f \in [D -> S] /\ \A x \in D : rank[x] < m => f[x] = G[<<x, f>>]
    BY <2>1 DEF UpTo
  <2> DEFINE h == [x \in D |-> IF rank[x] = m THEN G[<<x, f>>] ELSE f[x]]
  <2>3. h \in [D -> S]
    BY <1>a, <2>2
  <2>4. ASSUME NEW x \in D, rank[x] < m + 1 PROVE h[x] = G[<<x, h>>]
    <3>1. \A y \in D : rank[y] < rank[x] => f[y] = h[y]
      BY <2>4, SMT
    <3>2. G[<<x, f>>] = G[<<x, h>>]
      <4> HIDE DEF h
      <4> QED BY <1>b, <2>2, <2>3, <3>1
    <3>3. h[x] = G[<<x, f>>]
      <4>1. rank[x] = m \/ rank[x] < m
        BY <2>4, SMT
      <4>2. CASE rank[x] = m
        BY <4>2
      <4>3. CASE rank[x] < m
        <5>1. rank[x] # m
          BY <4>3, SMT
        <5> QED BY <2>2, <4>3, <5>1
      <4> QED BY <4>1, <4>2, <4>3
    <3> QED BY <3>2, <3>3
  <2>5. h \in UpTo(D, S, rank, G, m + 1)
    <3> HIDE DEF h
    <3> QED BY <2>3, <2>4 DEF UpTo
  <2> QED BY <2>5, SMT
<1>3. n \in There
  <2> HIDE DEF There
  <2> QED BY <1>1, <1>2, SetInduction
<1> QED BY <1>3

\* Such a rule defines a function.
LEMMA Recursion ==
  ASSUME NEW D, NEW S, S # {}, NEW rank \in [D -> Nat], NEW G,
         Into(D, S, G), Below(D, S, rank, G)
  PROVE  \E f \in [D -> S] : Follows(f, D, G)
<1> DEFINE F(n) == CHOOSE f : f \in UpTo(D, S, rank, G, n)
           h == [x \in D |-> F(rank[x] + 1)[x]]
<1>a. \A x \in D, f \in [D -> S] : G[<<x, f>>] \in S
  BY Zenon DEF Into
<1>b. \A x \in D, f, g \in [D -> S] :
         (\A y \in D : rank[y] < rank[x] => f[y] = g[y]) => G[<<x, f>>] = G[<<x, g>>]
  BY Zenon DEF Below
<1>0. \A n \in Nat : \A f, g \in UpTo(D, S, rank, G, n) : \A x \in D : rank[x] < n => f[x] = g[x]
  <2> HIDE DEF F, h
  <2> SUFFICES ASSUME NEW n \in Nat, NEW f \in UpTo(D, S, rank, G, n), NEW g \in UpTo(D, S, rank, G, n)
               PROVE  \A x \in D : rank[x] < n => f[x] = g[x]
    OBVIOUS
  <2> QED BY UniqueUpTo
<1>1. ASSUME NEW n \in Nat PROVE F(n) \in UpTo(D, S, rank, G, n)
  <2>1. UpTo(D, S, rank, G, n) # {}
    BY ExistsUpTo
  <2> QED BY <2>1
<1>2. ASSUME NEW x \in D PROVE F(rank[x] + 1) \in [D -> S] /\ F(rank[x] + 1)[x] = G[<<x, F(rank[x] + 1)>>]
  <2>1. rank[x] + 1 \in Nat /\ rank[x] < rank[x] + 1
    BY SMT
  <2>2. F(rank[x] + 1) \in UpTo(D, S, rank, G, rank[x] + 1)
    BY <1>1, <2>1
  <2> HIDE DEF F
  <2> QED BY <2>1, <2>2 DEF UpTo
<1>3. h \in [D -> S]
  <2> HIDE DEF F
  <2> QED BY <1>2
<1>4. ASSUME NEW x \in D PROVE h[x] = G[<<x, h>>]
  <2> DEFINE f == F(rank[x] + 1)
  <2>1. ASSUME NEW y \in D, rank[y] < rank[x] PROVE f[y] = h[y]
    <3> DEFINE g == F(rank[y] + 1)
    <3>1. rank[y] + 1 \in Nat /\ rank[x] + 1 \in Nat /\ rank[y] < rank[y] + 1
      BY SMT
    <3>2. g \in UpTo(D, S, rank, G, rank[y] + 1) /\ f \in UpTo(D, S, rank, G, rank[x] + 1)
      BY <1>1, <3>1
    <3>3. h[y] = g[y]
      OBVIOUS
    <3> HIDE DEF F, h, f, g
    <3>4. f \in UpTo(D, S, rank, G, rank[y] + 1)
      <4>1. \A z \in D : rank[z] < rank[y] + 1 => rank[z] < rank[x] + 1
        BY <2>1, SMT
      <4> QED BY <3>2, <4>1 DEF UpTo
    <3>5. \A z \in D : rank[z] < rank[y] + 1 => f[z] = g[z]
      <4> DEFINE n == rank[y] + 1
      <4>1. n \in Nat /\ g \in UpTo(D, S, rank, G, n) /\ f \in UpTo(D, S, rank, G, n)
        BY <3>1, <3>2, <3>4
      <4> HIDE DEF n
      <4>2. \A z \in D : rank[z] < n => f[z] = g[z]
        BY <4>1, <1>0
      <4> QED BY <4>2 DEF n
    <3> QED BY <3>1, <3>3, <3>5
  <2>2. h[x] = f[x] /\ f \in [D -> S] /\ f[x] = G[<<x, f>>]
    BY <1>2
  <2> HIDE DEF F, h, f
  <2> QED BY <1>b, <1>3, <2>1, <2>2
<1>5. h = [x \in D |-> G[<<x, h>>]]
  <2> DEFINE k == [x \in D |-> G[<<x, h>>]]
  <2>1. DOMAIN h = D /\ DOMAIN k = D /\ h = [x \in D |-> h[x]]
    OBVIOUS
  <2> HIDE DEF h
  <2> QED BY <1>4, <2>1
<1> HIDE DEF h
<1> QED BY <1>3, <1>5, Zenon DEF Follows

\* The case of a function of each number up to n and of what it is before it.
Chained(f, n, b, G) == f = [k \in 0..n |-> IF k = 0 THEN b ELSE G[<<f[k - 1], k>>]]
Steps(n, S, G) == \A k \in 1..n, x \in S : G[<<x, k>>] \in S

LEMMA Chain ==
  ASSUME NEW n \in Nat, NEW S, NEW b \in S, NEW G, Steps(n, S, G)
  PROVE  \E f \in [0..n -> S] : Chained(f, n, b, G)
<1>0. \A k \in 1..n, x \in S : G[<<x, k>>] \in S
  BY Zenon DEF Steps
<1> DEFINE D == 0..n
           rank == [k \in D |-> k]
           H == [x \in D \X [D -> S] |-> IF x[1] = 0 THEN b ELSE G[<<x[2][x[1] - 1], x[1]>>]]
<1>1. rank \in [D -> Nat] /\ S # {}
  OBVIOUS
<1>2. \A k \in D, f \in [D -> S] : H[<<k, f>>] = IF k = 0 THEN b ELSE G[<<f[k - 1], k>>]
  OBVIOUS
<1>3. \A k \in D : k # 0 => k \in 1..n /\ k - 1 \in D /\ rank[k - 1] < rank[k]
  OBVIOUS
<1> HIDE DEF D, rank, H
<1>4. Into(D, S, H)
  <2>1. \A k \in D, f \in [D -> S] : H[<<k, f>>] \in S
    <3> SUFFICES ASSUME NEW k \in D, NEW f \in [D -> S] PROVE H[<<k, f>>] \in S
      OBVIOUS
    <3>1. CASE k = 0
      BY <1>2, <3>1
    <3>2. CASE k # 0
      BY <1>0, <1>2, <1>3, <3>2
    <3> QED BY <3>1, <3>2
  <2> QED BY <2>1, Zenon DEF Into
<1>5. Below(D, S, rank, H)
  <2> SUFFICES ASSUME NEW k \in D, NEW f \in [D -> S], NEW g \in [D -> S],
                      \A y \in D : rank[y] < rank[k] => f[y] = g[y]
               PROVE  H[<<k, f>>] = H[<<k, g>>]
    BY Zenon DEF Below
  <2>1. k # 0 => f[k - 1] = g[k - 1]
    BY <1>3
  <2>2. CASE k = 0
    BY <1>2, <2>2
  <2>3. CASE k # 0
    <3>1. H[<<k, f>>] = G[<<f[k - 1], k>>] /\ H[<<k, g>>] = G[<<g[k - 1], k>>]
      BY <1>2, <2>3
    <3> QED BY <2>1, <2>3, <3>1
  <2> QED BY <2>2, <2>3
<1>6. \E f \in [D -> S] : Follows(f, D, H)
  BY <1>1, <1>4, <1>5, Recursion
<1>7. PICK f \in [D -> S] : f = [k \in D |-> H[<<k, f>>]]
  BY <1>6, Zenon DEF Follows
<1>8. [k \in D |-> H[<<k, f>>]] = [k \in D |-> IF k = 0 THEN b ELSE G[<<f[k - 1], k>>]]
  BY <1>2
<1>9. f = [k \in 0..n |-> IF k = 0 THEN b ELSE G[<<f[k - 1], k>>]]
  BY <1>7, <1>8 DEF D
<1> QED BY <1>7, <1>9, Zenon DEF D, Chained
=============================================================================
