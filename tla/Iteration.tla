------------------------------ MODULE Iteration ------------------------------
(***************************************************************************)
(* Facts about counting that several proofs rest on: a set of numbers has  *)
(* a least element, a bounded one a greatest, and what is built up step by *)
(* step from a beginning exists.  Induction is by the least counterexample,*)
(* because a theorem with an operator for a parameter is of no use to the  *)
(* provers; for the same reason a step is a function here.                 *)
(***************************************************************************)
EXTENDS Naturals, WellFoundedInduction, TLAPS

LEMMA LeastElement ==
    ASSUME NEW S, S \subseteq Nat, S # {}
    PROVE  \E n \in S : \A m \in S : n <= m
  <1> DEFINE Less == {p \in Nat \X Nat : p[1] < p[2]}
  <1>1. IsWellFoundedOn(Less, Nat)
    BY NatLessThanWellFounded DEF OpToRel
  <1>2. PICK n \in S : \A m \in S : <<m, n>> \notin Less
    <2> HIDE DEF Less
    <2> QED
      BY <1>1, WFMin
  <1>3. \A m \in S : ~(m < n)
    BY <1>2
  <1> QED
    BY <1>3

LEMMA GreatestElement ==
    ASSUME NEW n \in Nat, NEW S, S \subseteq 0..n, S # {}
    PROVE  \E m \in S : \A k \in S : m >= k
  <1> DEFINE Below == {n - k : k \in S}
  <1>1. Below \subseteq Nat /\ Below # {}
    <2>1. \A k \in S : n - k \in Nat
      OBVIOUS
    <2> QED
      BY <2>1
  <1>2. PICK least \in Below : \A k \in Below : least <= k
    BY <1>1, LeastElement
  <1>3. PICK m \in S : least = n - m
    OBVIOUS
  <1>4. ASSUME NEW k \in S PROVE m >= k
    <2>1. n - m <= n - k
      BY <1>2, <1>3
    <2> QED
      BY <2>1
  <1> QED
    BY <1>4

(* What n steps lead to, from a beginning.                                 *)
Steps(g, n, base, step) ==
    /\ g[0] = base
    /\ \A k \in 1..n : g[k] = step[<<g[k - 1], k>>]

LEMMA IterationExists ==
    ASSUME NEW D, NEW base \in D, NEW n \in Nat, NEW step \in [D \X (1..n) -> D]
    PROVE  \E g \in [0..n -> D] : Steps(g, n, base, step)
  <1> DEFINE Reached(m) == \E g \in [0..m -> D] : Steps(g, m, base, step)
             Failing == {m \in 0..n : ~Reached(m)}
  <1>1. Reached(0)
    <2> DEFINE g == [k \in 0..0 |-> base]
    <2>1. g \in [0..0 -> D] /\ g[0] = base /\ 1..0 = {}
      OBVIOUS
    <2> QED
      BY <2>1 DEF Steps
  <1>2. ASSUME NEW m \in 1..n, Reached(m - 1)
        PROVE  Reached(m)
    <2>1. PICK g \in [0..(m - 1) -> D] : Steps(g, m - 1, base, step)
      BY <1>2
    <2>2. m \in Nat /\ m # 0 /\ m - 1 \in 0..(m - 1) /\ 0 \in 0..(m - 1)
      OBVIOUS
    <2> DEFINE next == step[<<g[m - 1], m>>]
               h == [k \in 0..m |-> IF k = m THEN next ELSE g[k]]
    <2>3. next \in D
      BY <2>2
    <2> HIDE DEF next
    <2>4. h \in [0..m -> D]
      BY <2>2, <2>3
    <2>5. h[m] = next /\ \A k \in 0..(m - 1) : h[k] = g[k]
      BY <2>2
    <2> HIDE DEF h
    <2>6. ASSUME NEW k \in 1..m PROVE h[k] = step[<<h[k - 1], k>>]
      <3>1. k - 1 \in 0..(m - 1)
        BY <2>2
      <3>2. CASE k = m
        BY <2>5, <3>1, <3>2 DEF next
      <3>3. CASE k # m
        <4>1. k \in 1..(m - 1) /\ k \in 0..(m - 1)
          BY <2>2, <3>3
        <4> QED
          BY <2>1, <2>5, <3>1, <4>1 DEF Steps
      <3> QED
        BY <3>2, <3>3
    <2>7. h[0] = base
      BY <2>1, <2>2, <2>5 DEF Steps
    <2> QED
      BY <2>4, <2>6, <2>7 DEF Steps
  <1> HIDE DEF Reached
  <1>3. ASSUME NEW m \in Failing, \A k \in Failing : m <= k
        PROVE  FALSE
    <2>1. m \in 1..n /\ m - 1 \in 0..n /\ ~(m <= m - 1)
      BY <1>1
    <2>2. Reached(m - 1)
      BY <1>3, <2>1
    <2> QED
      BY <1>2, <2>1, <2>2
  <1>4. Failing \subseteq Nat
    OBVIOUS
  <1> HIDE DEF Failing
  <1>5. Failing = {}
    BY <1>3, <1>4, LeastElement
  <1>6. Reached(n)
    BY <1>5 DEF Failing
  <1> QED
    BY <1>6 DEF Reached
=============================================================================
