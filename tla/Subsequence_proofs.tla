------------------------- MODULE Subsequence_proofs -------------------------
(***************************************************************************)
(* What Where computes, for every sequence and every set of places.        *)
(***************************************************************************)
EXTENDS Subsequence, WellFoundedInduction, TLAPS

\* w is the recursive function of Where on the first N places.
Unfolds(w, s, I, N) ==
    w = [n \in 0..N |->
            IF n = 0 THEN <<>>
            ELSE IF n \in I THEN Append(w[n - 1], s[n]) ELSE w[n - 1]]

LEMMA WhereUnfold ==
  ASSUME NEW s, NEW I
  PROVE  Where(s, I) = (CHOOSE w : Unfolds(w, s, I, Len(s)))[Len(s)]
BY DEF Where, Unfolds

\* Every set of numbers has a least one: what an induction needs.
LEMMA NatMin ==
  ASSUME NEW S \in SUBSET Nat, S # {}
  PROVE  \E n \in S : \A m \in S : n <= m
<1>1. PICK n \in S : \A m \in S : ~(<<m, n>> \in OpToRel(<, Nat))
  BY WFMin, NatLessThanWellFounded
<1>2. \A m \in S : ~(m < n)
  BY <1>1 DEF OpToRel
<1> QED BY <1>2

\* The recursion has a solution, by induction on the length.
LEMMA UnfoldsExists ==
  ASSUME NEW T, NEW s \in Seq(T), NEW I
  PROVE  \E w : Unfolds(w, s, I, Len(s)) /\ w \in [0..Len(s) -> Seq(T)]
<1> DEFINE Bad == {n \in 0..Len(s) :
                     ~\E w : Unfolds(w, s, I, n) /\ w \in [0..n -> Seq(T)]}
<1>1. Bad = {}
  <2> SUFFICES ASSUME Bad # {} PROVE FALSE
    OBVIOUS
  <2>0. Bad \in SUBSET Nat
    OBVIOUS
  <2> HIDE DEF Bad
  <2>1. PICK n \in Bad : \A m \in Bad : n <= m
    BY <2>0, NatMin
  <2> USE DEF Bad
  <2>2. n \in 0..Len(s) /\ Len(s) \in Nat
    OBVIOUS
  <2>3. CASE n = 0
    <3> DEFINE w == [m \in 0..0 |-> <<>>]
    <3>1. Unfolds(w, s, I, 0) /\ w \in [0..0 -> Seq(T)]
      BY DEF Unfolds
    <3> QED BY <2>1, <2>3, <3>1
  <2>4. CASE n # 0
    <3>1. n - 1 \in 0..Len(s) /\ n - 1 \notin Bad
      BY <2>1, <2>2, <2>4, SMTT(30)
    <3>2. PICK v : Unfolds(v, s, I, n - 1) /\ v \in [0..(n - 1) -> Seq(T)]
      BY <3>1
    <3> DEFINE next == IF n \in I THEN Append(v[n - 1], s[n]) ELSE v[n - 1]
               w == [m \in 0..n |-> IF m = n THEN next ELSE v[m]]
    <3>3. n - 1 \in 0..(n - 1) /\ v[n - 1] \in Seq(T) /\ s[n] \in T /\ next \in Seq(T)
      BY <2>2, <2>4, <3>2
    <3> HIDE DEF next
    <3>4. w \in [0..n -> Seq(T)]
      BY <2>2, <2>4, <3>2, <3>3
    <3>5. \A m \in 0..n : w[m] = IF m = 0 THEN <<>>
                ELSE IF m \in I THEN Append(w[m - 1], s[m]) ELSE w[m - 1]
      <4> TAKE m \in 0..n
      <4>1. CASE m = n
        <5>1. w[m] = next /\ w[m - 1] = v[n - 1]
          BY <4>1, <2>2, <2>4
        <5> QED BY <4>1, <5>1, <2>4 DEF next
      <4>2. CASE m # n
        <5>1. m \in 0..(n - 1) /\ w[m] = v[m]
          BY <4>2, <2>2
        <5>2. m # 0 => w[m - 1] = v[m - 1]
          BY <5>1, <2>2
        <5>3. v[m] = IF m = 0 THEN <<>>
                ELSE IF m \in I THEN Append(v[m - 1], s[m]) ELSE v[m - 1]
          BY <3>2, <5>1 DEF Unfolds
        <5> QED BY <5>1, <5>2, <5>3
      <4> QED BY <4>1, <4>2
    <3>6. Unfolds(w, s, I, n)
      BY <3>5 DEF Unfolds
    <3> QED BY <2>1, <3>4, <3>6
  <2> QED BY <2>3, <2>4
<1>2. Len(s) \in 0..Len(s)
  OBVIOUS
<1> QED BY <1>1, <1>2

\* p gives the places in s, within I, of the elements of t.
Places(p, t, s, I) ==
    /\ p \in [1..Len(t) -> I]
    /\ \A m, n \in 1..Len(t) : m < n => p[m] < p[n]
    /\ \A i \in I : \E n \in 1..Len(t) : p[n] = i
    /\ \A n \in 1..Len(t) : t[n] = s[p[n]]

\* What Where computes: the elements at the places I, each once, in order.
LEMMA WherePlaces ==
  ASSUME NEW T, NEW s \in Seq(T), NEW I \in SUBSET (1..Len(s))
  PROVE  /\ Where(s, I) \in Seq(T)
         /\ \E p : Places(p, Where(s, I), s, I)
<1> DEFINE w == CHOOSE w : Unfolds(w, s, I, Len(s))
           N == Len(s)
<1>1. Unfolds(w, s, I, N)
  <2>1. \E v : Unfolds(v, s, I, Len(s))
    BY UnfoldsExists
  <2> QED BY <2>1
<1> HIDE DEF w
<1>2. N \in Nat /\ DOMAIN s = 1..N /\ \A n \in 1..N : s[n] \in T
  OBVIOUS
<1>3. w[0] = <<>>
  BY <1>1, <1>2 DEF Unfolds
<1>4. \A n \in 1..N : w[n] = IF n \in I THEN Append(w[n - 1], s[n]) ELSE w[n - 1]
  <2> HIDE DEF N
  <2>1. \A n \in 0..N : w[n] = IF n = 0 THEN <<>>
                ELSE IF n \in I THEN Append(w[n - 1], s[n]) ELSE w[n - 1]
    BY <1>1 DEF Unfolds
  <2>2. \A n \in 1..N : n \in 0..N /\ n # 0
    BY <1>2
  <2> QED BY <2>1, <2>2
<1> HIDE DEF N
<1> DEFINE Good(n) == w[n] \in Seq(T) /\ \E p : Places(p, w[n], s, I \cap 1..n)
           Bad == {n \in 0..N : ~Good(n)}
<1>5. Good(0)
  <2> DEFINE p == [i \in {} |-> 0]
  <2>1. p \in [1..Len(<<>>) -> I \cap 1..0]
    OBVIOUS
  <2>2. Places(p, w[0], s, I \cap 1..0)
    BY <1>3, <2>1 DEF Places
  <2> QED BY <1>3, <2>2
<1>6. ASSUME NEW n \in 1..N, Good(n - 1)
      PROVE  Good(n)
  <2>1. PICK p : Places(p, w[n - 1], s, I \cap 1..(n - 1))
    BY <1>6
  <2>2. n \in Nat /\ n >= 1 /\ w[n - 1] \in Seq(T)
    BY <1>2, <1>6
  <2>3. CASE n \notin I
    <3>1. w[n] = w[n - 1] /\ I \cap 1..n = I \cap 1..(n - 1)
      BY <1>2, <1>4, <2>2, <2>3
    <3> QED BY <2>1, <2>2, <3>1
  <2>4. CASE n \in I
    <3> DEFINE L == Len(w[n - 1])
               q == [k \in 1..(L + 1) |-> IF k = L + 1 THEN n ELSE p[k]]
    <3>1. w[n] = Append(w[n - 1], s[n])
      BY <1>4, <2>4
    <3>2. L \in Nat /\ s[n] \in T
      BY <1>2, <2>2
    <3>3. /\ w[n] \in Seq(T) /\ Len(w[n]) = L + 1
          /\ \A k \in 1..L : w[n][k] = w[n - 1][k]
          /\ w[n][L + 1] = s[n]
      BY <2>2, <3>1, <3>2
    <3> HIDE DEF L
    <3>4. /\ p \in [1..L -> I \cap 1..(n - 1)]
          /\ \A k, m \in 1..L : k < m => p[k] < p[m]
          /\ \A i \in I \cap 1..(n - 1) : \E k \in 1..L : p[k] = i
          /\ \A k \in 1..L : w[n - 1][k] = s[p[k]]
      BY <2>1 DEF Places, L
    <3>5. \A k \in 1..L : q[k] = p[k] /\ p[k] \in I \cap 1..(n - 1)
      BY <3>2, <3>4
    <3>6. q[L + 1] = n
      BY <3>2
    <3>7. \A k \in 1..(L + 1) : k \in 1..L \/ k = L + 1
      BY <3>2
    <3>8. q \in [1..(L + 1) -> I \cap 1..n]
      <4>1. \A k \in 1..L : p[k] \in I \cap 1..n
        <5>1. 1..(n - 1) \subseteq 1..n
          BY <2>2
        <5> QED BY <3>5, <5>1
      <4>2. n \in I \cap 1..n
        BY <2>2, <2>4
      <4> QED BY <3>7, <4>1, <4>2
    <3> HIDE DEF q
    <3>9. \A k, m \in 1..(L + 1) : k < m => q[k] < q[m]
      <4> TAKE k, m \in 1..(L + 1)
      <4> HAVE k < m
      <4>1. k \in 1..L /\ q[k] = p[k] /\ p[k] \in 1..(n - 1)
        BY <3>2, <3>5
      <4>2. CASE m = L + 1
        BY <2>2, <3>6, <4>1, <4>2
      <4>3. CASE m \in 1..L
        BY <3>4, <3>5, <4>1, <4>3
      <4> QED BY <3>7, <4>2, <4>3
    <3>10. \A i \in I \cap 1..n : \E k \in 1..(L + 1) : q[k] = i
      <4> TAKE i \in I \cap 1..n
      <4>1. CASE i = n
        BY <3>2, <3>6, <4>1
      <4>2. CASE i # n
        <5>1. i \in I \cap 1..(n - 1)
          BY <2>2, <4>2
        <5>2. PICK k \in 1..L : p[k] = i
          BY <3>4, <5>1
        <5> QED BY <3>2, <3>5, <5>2
      <4> QED BY <4>1, <4>2
    <3>11. \A k \in 1..(L + 1) : w[n][k] = s[q[k]]
      BY <3>2, <3>3, <3>4, <3>5, <3>6, <3>7
    <3>12. Places(q, w[n], s, I \cap 1..n)
      BY <3>3, <3>8, <3>9, <3>10, <3>11 DEF Places
    <3> QED BY <3>3, <3>12
  <2> QED BY <2>3, <2>4
<1>7. Bad = {}
  <2> SUFFICES ASSUME Bad # {} PROVE FALSE
    OBVIOUS
  <2>1. Bad \in SUBSET Nat
    BY <1>2
  <2>2. PICK n \in Bad : \A m \in Bad : n <= m
    <3> HIDE DEF Bad
    <3> QED BY <2>1, NatMin
  <2>3. n # 0 /\ n \in 0..N
    BY <1>5
  <2>4. n \in 1..N /\ n - 1 \in 0..N /\ ~(n <= n - 1)
    BY <1>2, <2>3
  <2>5. Good(n - 1)
    BY <2>2, <2>4
  <2> HIDE DEF Good
  <2> QED BY <1>6, <2>2, <2>4, <2>5
<1>8. Good(N)
  <2>1. N \in 0..N
    BY <1>2
  <2> HIDE DEF Good
  <2> QED BY <1>7, <2>1
<1>9. I \cap 1..N = I
  BY DEF N
<1>10. Where(s, I) = w[N]
  BY WhereUnfold DEF w, N
<1> QED BY <1>8, <1>9, <1>10
=============================================================================
