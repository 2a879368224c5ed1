---------------------------- MODULE Induction ----------------------------
(***************************************************************************)
(* What the proofs need of the naturals: the searches of the kernel (the   *)
(* first free slot, pipe, descriptor, frame) return the least element of a *)
(* set, and its loops over a table are functions that are defined by       *)
(* recursion.                                                              *)
(***************************************************************************)
EXTENDS Integers, WellFoundedInduction, TLAPS

Less == {p \in Nat \X Nat : p[1] < p[2]}

\* The order on the naturals, as a relation, has no descending chain.
LEMMA LessWellFounded == IsWellFoundedOn(Less, Nat)
BY NatLessThanWellFounded, Zenon DEF OpToRel, Less

\* A non-empty set of naturals has a least element.
LEMMA LeastNatural ==
  ASSUME NEW S \in SUBSET Nat, S # {}
  PROVE  \E m \in S : \A k \in S : m <= k
<1>1. PICK m \in S : \A k \in S : ~ (<<k, m>> \in Less)
  BY LessWellFounded, WFMin
<1>2. \A k, n \in Nat : k < n => <<k, n>> \in Less
  BY DEF Less
<1>3. \A k \in S : ~(k < m)
  BY <1>1, <1>2
<1>4. ASSUME NEW k \in S
      PROVE  m <= k
  <2>1. k \in Nat /\ m \in Nat
    OBVIOUS
  <2>2. QED
    BY <1>3, <2>1
<1>5. QED
  BY <1>4

\* Induction, for a set: what is true of 0 and of every n after n - 1.
LEMMA InductionUpTo ==
  ASSUME NEW N \in Nat, NEW S, 0 \in S, \A n \in 1..N : n - 1 \in S => n \in S
  PROVE  \A n \in 0..N : n \in S
<1> DEFINE Out == {n \in 0..N : n \notin S}
<1>1. SUFFICES ASSUME Out # {} PROVE FALSE
  OBVIOUS
<1>2. Out \in SUBSET Nat
  OBVIOUS
<1>3. PICK m \in Out : \A k \in Out : m <= k
  <2> HIDE DEF Out
  <2> QED
    BY <1>1, <1>2, LeastNatural
<1>4. m \in 1..N /\ m - 1 \in 0..N
  OBVIOUS
<1>5. m - 1 \notin Out
  BY <1>3, <1>4
<1>6. QED
  BY <1>4, <1>5

\* f takes the first value a, and from each value the step of G to the next.
Follows(f, N, V, a, G) ==
  f \in [0..N -> V] /\ f[0] = a /\ \A n \in 1..N : f[n] = G[n][f[n - 1]]

\* There is a function with a given first value and a given step to each value from
\* the one before.
LEMMA RecursiveFunction ==
  ASSUME NEW N, N \in Nat, NEW V, NEW a, a \in V, NEW G, G \in [1..N -> [V -> V]]
  PROVE  \E f : Follows(f, N, V, a, G)
<1> DEFINE UpTo(n) == {f \in [0..N -> V] :
                         f[0] = a /\ \A k \in 1..N : k <= n => f[k] = G[k][f[k - 1]]}
           Defined == {n \in 0..N : UpTo(n) # {}}
<1>1. 0 \in Defined
  <2>1. [k \in 0..N |-> a] \in UpTo(0)
    OBVIOUS
  <2>2. QED
    BY <2>1
<1>2. ASSUME NEW n \in 1..N, n - 1 \in Defined
      PROVE  n \in Defined
  <2>1. PICK f \in UpTo(n - 1) : TRUE
    BY <1>2
  <2> DEFINE g == [f EXCEPT ![n] = G[n][f[n - 1]]]
  <2>2. f \in [0..N -> V] /\ f[0] = a /\ \A k \in 1..N : k <= n - 1 => f[k] = G[k][f[k - 1]]
    BY <2>1
  <2>3. n - 1 \in 0..N /\ G[n][f[n - 1]] \in V
    BY <2>2
  <2>4. g \in [0..N -> V] /\ g[n] = G[n][f[n - 1]] /\ \A k \in 0..N : k # n => g[k] = f[k]
    BY <2>2, <2>3
  <2> HIDE DEF g
  <2>5. g[0] = a
    BY <2>2, <2>4
  <2>6. ASSUME NEW k \in 1..N, k <= n PROVE g[k] = G[k][g[k - 1]]
    <3>1. k - 1 \in 0..N /\ k - 1 # n /\ g[k - 1] = f[k - 1]
      BY <2>4, <2>6
    <3>2. CASE k = n
      BY <2>4, <3>1, <3>2
    <3>3. CASE k # n
      BY <2>2, <2>4, <2>6, <3>1, <3>3
    <3>4. QED
      BY <3>2, <3>3
  <2>7. g \in UpTo(n)
    BY <2>4, <2>5, <2>6
  <2>8. QED
    BY <2>7
<1>3. \A n \in 0..N : n \in Defined
  <2> HIDE DEF Defined
  <2> QED
    BY <1>1, <1>2, InductionUpTo
<1>4. QED
  BY <1>3 DEF Follows

\* The turns G of a loop lead from values of the kind W[n - 1] to those of the kind W[n].
TurnsWithin(N, W, G) == \A n \in 1..N : \A v \in W[n - 1] : G[n][v] \in W[n]
RunsWithin(f, N, W, a, G) ==
  /\ f = [n \in 0..N |-> IF n = 0 THEN a ELSE G[n][f[n - 1]]]
  /\ \A n \in 0..N : f[n] \in W[n]

\* The function of such a loop exists, and its values are of these kinds.
LEMMA LoopWithin ==
  ASSUME NEW N \in Nat, NEW W, NEW a, a \in W[0], NEW G, TurnsWithin(N, W, G)
  PROVE  \E f : RunsWithin(f, N, W, a, G)
<1> USE DEF TurnsWithin, RunsWithin
<1> DEFINE V == UNION {W[n] : n \in 0..N}
           H == [n \in 1..N |-> [v \in V |-> IF v \in W[n - 1] THEN G[n][v] ELSE a]]
<1>1. a \in V /\ H \in [1..N -> [V -> V]]
  <2>1. a \in V
    OBVIOUS
  <2>2. ASSUME NEW n \in 1..N, NEW v \in V
        PROVE  (IF v \in W[n - 1] THEN G[n][v] ELSE a) \in V
    <3>1. CASE v \in W[n - 1]
      <4>1. G[n][v] \in W[n] /\ n \in 0..N
        BY <3>1
      <4>2. QED
        BY <3>1, <4>1
    <3>2. CASE v \notin W[n - 1]
      BY <2>1, <3>2
    <3>3. QED
      BY <3>1, <3>2
  <2> HIDE DEF V
  <2>3. QED
    BY <2>1, <2>2
<1>2. PICK f : Follows(f, N, V, a, H)
  <2> HIDE DEF H, V
  <2> QED
    BY <1>1, RecursiveFunction, Zenon
<1>3. \A n \in 1..N : n - 1 \in 0..N /\ f[n - 1] \in V
  <2> HIDE DEF V, H
  <2> QED
    BY <1>2 DEF Follows
<1>4. \A n \in 1..N : f[n] = IF f[n - 1] \in W[n - 1] THEN G[n][f[n - 1]] ELSE a
  <2>1. \A n \in 1..N : f[n] = H[n][f[n - 1]]
    <3> HIDE DEF V, H
    <3> QED
      BY <1>2 DEF Follows
  <2> HIDE DEF V
  <2>2. QED
    BY <1>3, <2>1
<1>5. f[0] = a /\ f = [n \in 0..N |-> f[n]]
  <2> HIDE DEF V, H
  <2> QED
    BY <1>2 DEF Follows
<1>6. \A n \in 0..N : f[n] \in W[n]
  <2> DEFINE S == {n \in 0..N : f[n] \in W[n]}
  <2>1. 0 \in S
    BY <1>5
  <2>2. ASSUME NEW n \in 1..N, n - 1 \in S PROVE n \in S
    BY <1>4, <2>2
  <2> HIDE DEF S
  <2>3. \A n \in 0..N : n \in S
    BY <2>1, <2>2, InductionUpTo
  <2>4. QED
    BY <2>3 DEF S
<1>7. \A n \in 1..N : f[n] = G[n][f[n - 1]]
  BY <1>3, <1>4, <1>6
<1>8. f = [n \in 0..N |-> IF n = 0 THEN a ELSE G[n][f[n - 1]]]
  <2>1. \A n \in 0..N : f[n] = IF n = 0 THEN a ELSE G[n][f[n - 1]]
    <3>1. \A n \in 0..N : n # 0 => n \in 1..N
      OBVIOUS
    <3>2. QED
      BY <1>5, <1>7, <3>1
  <2>2. QED
    BY <1>5, <2>1
<1>9. QED
  BY <1>6, <1>8
====
