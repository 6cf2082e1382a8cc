--------------------------- MODULE ReadPath_proofs ---------------------------
(***************************************************************************)
(* Theorems about the read path, for any number of requests, manifests,    *)
(* chunks and sources: the counter of the manifest cache is exact and      *)
(* within its bounds, no terminal path leaks a lease, cancelling a waiter  *)
(* fails no other one, and nobody waits for what no longer comes.          *)
(***************************************************************************)
EXTENDS ReadPath, Subsequence_proofs, SequenceTheorems

-----------------------------------------------------------------------------
(* The sum of decoded sizes. *)

\* f adds up the sizes of the first N manifests of s.
AddsUp(f, s, N) ==
    f = [n \in 0..N |-> IF n = 0 THEN 0 ELSE f[n - 1] + Decoded[s[n]]]

LEMMA BytesUnfold ==
  ASSUME NEW s
  PROVE  BytesOf(s) = (CHOOSE f : AddsUp(f, s, Len(s)))[Len(s)]
BY DEF BytesOf, AddsUp

LEMMA AddsUpExists ==
  ASSUME NEW s \in Seq(Manifests)
  PROVE  \E f : AddsUp(f, s, Len(s)) /\ f \in [0..Len(s) -> Nat]
<1> DEFINE Bad == {n \in 0..Len(s) :
                     ~\E f : AddsUp(f, s, n) /\ f \in [0..n -> Nat]}
<1>1. Bad = {}
  <2> SUFFICES ASSUME Bad # {} PROVE FALSE
    OBVIOUS
  <2>0. Bad \in SUBSET Nat
    OBVIOUS
  <2> HIDE DEF Bad
  <2>1. PICK n \in Bad : \A m \in Bad : n <= m
    BY <2>0, NatMin
  <2> USE DEF Bad
  <2>2. n \in 0..Len(s) /\ Len(s) \in Nat
    OBVIOUS
  <2>3. CASE n = 0
    <3> DEFINE f == [m \in 0..0 |-> 0]
    <3>1. AddsUp(f, s, 0) /\ f \in [0..0 -> Nat]
      BY DEF AddsUp
    <3> QED BY <2>1, <2>3, <3>1
  <2>4. CASE n # 0
    <3>1. n - 1 \in 0..Len(s) /\ n - 1 \notin Bad
      <4> HIDE DEF Bad
      <4>1. n - 1 \in 0..Len(s) /\ ~(n <= n - 1)
        BY <2>2, <2>4
      <4> QED BY <2>1, <4>1
    <3>2. PICK g : AddsUp(g, s, n - 1) /\ g \in [0..(n - 1) -> Nat]
      BY <3>1
    <3> DEFINE next == g[n - 1] + Decoded[s[n]]
               f == [m \in 0..n |-> IF m = n THEN next ELSE g[m]]
    <3>3. n - 1 \in 0..(n - 1) /\ g[n - 1] \in Nat /\ s[n] \in Manifests
      BY <2>2, <2>4, <3>2
    <3>4. Decoded[s[n]] \in Nat /\ next \in Nat
      BY <3>3, ReadAssumption
    <3> HIDE DEF next
    <3>5. f \in [0..n -> Nat]
      BY <2>2, <2>4, <3>2, <3>4
    <3>6. \A m \in 0..n : f[m] = IF m = 0 THEN 0 ELSE f[m - 1] + Decoded[s[m]]
      <4> TAKE m \in 0..n
      <4>1. CASE m = n
        <5>1. f[m] = next /\ f[m - 1] = g[n - 1]
          BY <4>1, <2>2, <2>4
        <5> QED BY <4>1, <5>1, <2>4 DEF next
      <4>2. CASE m # n
        <5>1. m \in 0..(n - 1) /\ f[m] = g[m]
          BY <4>2, <2>2
        <5>2. m # 0 => f[m - 1] = g[m - 1]
          BY <5>1, <2>2
        <5>3. g[m] = IF m = 0 THEN 0 ELSE g[m - 1] + Decoded[s[m]]
          BY <3>2, <5>1 DEF AddsUp
        <5> QED BY <5>1, <5>2, <5>3
      <4> QED BY <4>1, <4>2
    <3>7. AddsUp(f, s, n)
      BY <3>6 DEF AddsUp
    <3> QED BY <2>1, <3>5, <3>7
  <2> QED BY <2>3, <2>4
<1>2. Len(s) \in 0..Len(s)
  OBVIOUS
<1> QED BY <1>1, <1>2

\* Any function that adds up the sizes ends in BytesOf.
LEMMA BytesIs ==
  ASSUME NEW s \in Seq(Manifests), NEW g \in [0..Len(s) -> Nat], g[0] = 0,
         \A n \in 1..Len(s) : g[n] = g[n - 1] + Decoded[s[n]]
  PROVE  BytesOf(s) = g[Len(s)]
<1> DEFINE f == CHOOSE f : AddsUp(f, s, Len(s))
           Bad == {n \in 0..Len(s) : f[n] # g[n]}
<1>1. AddsUp(f, s, Len(s))
  <2>1. \E h : AddsUp(h, s, Len(s))
    BY AddsUpExists
  <2> QED BY <2>1
<1> HIDE DEF f
<1>2. f[0] = 0 /\ Len(s) \in Nat
  BY <1>1 DEF AddsUp
<1>3. \A n \in 1..Len(s) : f[n] = f[n - 1] + Decoded[s[n]]
  BY <1>1 DEF AddsUp
<1>4. Bad = {}
  <2> SUFFICES ASSUME Bad # {} PROVE FALSE
    OBVIOUS
  <2>1. Bad \in SUBSET Nat
    OBVIOUS
  <2>2. PICK n \in Bad : \A m \in Bad : n <= m
    <3> HIDE DEF Bad
    <3> QED BY <2>1, NatMin
  <2>3. n \in 1..Len(s) /\ n - 1 \in 0..Len(s) /\ ~(n <= n - 1)
    BY <1>2
  <2>4. f[n - 1] = g[n - 1]
    BY <2>2, <2>3
  <2> QED BY <1>3, <2>3, <2>4
<1>5. Len(s) \in 0..Len(s)
  BY <1>2
<1>6. f[Len(s)] = g[Len(s)]
  BY <1>4, <1>5
<1> QED BY <1>6, BytesUnfold DEF f

LEMMA BytesType ==
  ASSUME NEW s \in Seq(Manifests)
  PROVE  BytesOf(s) \in Nat
<1>1. PICK f : AddsUp(f, s, Len(s)) /\ f \in [0..Len(s) -> Nat]
  BY AddsUpExists
<1>2. f[0] = 0 /\ \A n \in 1..Len(s) : f[n] = f[n - 1] + Decoded[s[n]]
  BY <1>1 DEF AddsUp
<1> QED BY <1>1, <1>2, BytesIs, SMTT(30)

LEMMA BytesOfNone == BytesOf(<<>>) = 0
<1> DEFINE g == [n \in 0..0 |-> 0]
<1>1. <<>> \in Seq(Manifests) /\ Len(<<>>) = 0
  OBVIOUS
<1>2. g \in [0..0 -> Nat] /\ g[0] = 0 /\ 1..0 = {}
  OBVIOUS
<1> HIDE DEF g
<1>3. BytesOf(<<>>) = g[Len(<<>>)]
  BY <1>1, <1>2, BytesIs
<1> QED BY <1>1, <1>2, <1>3

LEMMA BytesOfOne ==
  ASSUME NEW m \in Manifests
  PROVE  BytesOf(<<m>>) = Decoded[m]
<1> DEFINE g == [n \in 0..1 |-> IF n = 0 THEN 0 ELSE Decoded[m]]
<1>1. <<m>> \in Seq(Manifests) /\ Len(<<m>>) = 1 /\ Decoded[m] \in Nat
  BY ReadAssumption
<1>2. g \in [0..1 -> Nat] /\ g[0] = 0 /\ g[1] = Decoded[m]
  BY <1>1
<1>3. \A n \in 1..1 : n = 1 /\ <<m>>[n] = m
  OBVIOUS
<1>4. \A n \in 1..1 : g[n] = g[n - 1] + Decoded[<<m>>[n]]
  BY <1>1, <1>2, <1>3
<1> HIDE DEF g
<1> QED BY <1>1, <1>2, <1>4, BytesIs

LEMMA BytesOfBoth ==
  ASSUME NEW s \in Seq(Manifests), NEW t \in Seq(Manifests)
  PROVE  BytesOf(s \o t) = BytesOf(s) + BytesOf(t)
<1> DEFINE L == Len(s)
           M == Len(t)
<1>1. PICK f : AddsUp(f, s, L) /\ f \in [0..L -> Nat]
  BY AddsUpExists
<1>2. PICK g : AddsUp(g, t, M) /\ g \in [0..M -> Nat]
  BY AddsUpExists
<1>3. f[0] = 0 /\ \A n \in 1..L : f[n] = f[n - 1] + Decoded[s[n]]
  BY <1>1 DEF AddsUp
<1>4. g[0] = 0 /\ \A n \in 1..M : g[n] = g[n - 1] + Decoded[t[n]]
  BY <1>2 DEF AddsUp
<1>5. BytesOf(s) = f[L] /\ BytesOf(t) = g[M]
  BY <1>1, <1>2, <1>3, <1>4, BytesIs
<1>6. /\ s \o t \in Seq(Manifests) /\ Len(s \o t) = L + M /\ L \in Nat /\ M \in Nat
      /\ \A n \in 1..L : (s \o t)[n] = s[n]
      /\ \A n \in (L + 1)..(L + M) : (s \o t)[n] = t[n - L]
  OBVIOUS
<1> DEFINE h == [n \in 0..(L + M) |-> IF n <= L THEN f[n] ELSE f[L] + g[n - L]]
<1> HIDE DEF L, M
<1>7. \A n \in 0..(L + M) : IF n <= L THEN n \in 0..L ELSE n - L \in 0..M
  BY <1>6
<1>8. h \in [0..(L + M) -> Nat]
  <2>1. L \in 0..L
    BY <1>6
  <2> QED BY <1>1, <1>2, <1>7, <2>1
<1>9. h[0] = 0 /\ h[L + M] = f[L] + g[M]
  <2>1. 0 \in 0..(L + M) /\ L + M \in 0..(L + M) /\ 0 <= L
    BY <1>6
  <2>2. h[0] = 0
    BY <1>3, <2>1
  <2>3. CASE M = 0
    <3>1. L + M = L /\ f[L] \in Nat
      BY <1>1, <1>6, <2>3
    <3> QED BY <1>4, <2>1, <2>2, <2>3, <3>1
  <2>4. CASE M # 0
    <3>1. ~(L + M <= L) /\ (L + M) - L = M
      BY <1>6, <2>4
    <3> QED BY <2>1, <2>2, <3>1
  <2> QED BY <2>3, <2>4
<1>10. \A n \in 1..(L + M) : h[n] = h[n - 1] + Decoded[(s \o t)[n]]
  <2> TAKE n \in 1..(L + M)
  <2>1. n \in 0..(L + M) /\ n - 1 \in 0..(L + M)
    BY <1>6
  <2>2. CASE n <= L
    <3>1. n \in 1..L /\ n - 1 <= L
      BY <1>6, <2>2
    <3> QED BY <1>3, <1>6, <2>1, <2>2, <3>1
  <2>3. CASE n = L + 1
    <3>1. /\ ~(n <= L) /\ n - 1 <= L /\ n - 1 = L /\ n - L = 1 /\ 1 \in 1..M
          /\ n \in (L + 1)..(L + M)
      BY <1>6, <2>3
    <3>2. h[n] = f[L] + g[1] /\ h[n - 1] = f[L]
      BY <2>1, <3>1
    <3>3. g[1] = g[0] + Decoded[t[1]] /\ (s \o t)[n] = t[1]
      BY <1>4, <1>6, <3>1, SMTT(30)
    <3>4. t[1] \in Manifests
      BY <3>1 DEF M
    <3>5. Decoded[t[1]] \in Nat
      BY <3>4, ReadAssumption
    <3> QED BY <1>4, <3>2, <3>3, <3>5
  <2>4. CASE n > L + 1
    <3>1. /\ ~(n <= L) /\ ~(n - 1 <= L) /\ (n - 1) - L = (n - L) - 1
          /\ n - L \in 1..M /\ (n - L) - 1 \in 0..M
          /\ n \in (L + 1)..(L + M)
      BY <1>6, <2>4
    <3>2. h[n] = f[L] + g[n - L] /\ h[n - 1] = f[L] + g[(n - L) - 1]
      BY <2>1, <3>1
    <3>3. g[n - L] = g[(n - L) - 1] + Decoded[t[n - L]] /\ (s \o t)[n] = t[n - L]
      BY <1>4, <1>6, <3>1
    <3>4. f[L] \in Nat /\ g[(n - L) - 1] \in Nat
      BY <1>1, <1>2, <1>6, <3>1
    <3>5. t[n - L] \in Manifests
      BY <3>1 DEF M
    <3>6. Decoded[t[n - L]] \in Nat
      BY <3>5, ReadAssumption
    <3> QED BY <3>2, <3>3, <3>4, <3>6
  <2> QED BY <1>6, <2>2, <2>3, <2>4
<1> HIDE DEF h
<1>11. BytesOf(s \o t) = h[L + M]
  BY <1>6, <1>8, <1>9, <1>10, BytesIs
<1> QED BY <1>5, <1>9, <1>11

LEMMA BytesOfSplit ==
  ASSUME NEW s \in Seq(Manifests), NEW n \in 0..Len(s)
  PROVE  /\ SubSeq(s, 1, n) \in Seq(Manifests)
         /\ SubSeq(s, n + 1, Len(s)) \in Seq(Manifests)
         /\ BytesOf(s) = BytesOf(SubSeq(s, 1, n)) + BytesOf(SubSeq(s, n + 1, Len(s)))
<1>1. /\ SubSeq(s, 1, n) \in Seq(Manifests)
      /\ SubSeq(s, n + 1, Len(s)) \in Seq(Manifests)
  <2>1. \A i \in 1..n : s[i] \in Manifests
    OBVIOUS
  <2>2. \A i \in (n + 1)..Len(s) : s[i] \in Manifests
    OBVIOUS
  <2> QED BY <2>1, <2>2, SubSeqProperties
<1>2. s = SubSeq(s, 1, n) \o SubSeq(s, n + 1, Len(s))
  <2>1. 1 \in 1..Len(s) + 1 /\ n \in (1 - 1)..Len(s) /\ Len(s) \in n..Len(s)
    OBVIOUS
  <2>2. SubSeq(s, 1, n) \o SubSeq(s, n + 1, Len(s)) = SubSeq(s, 1, Len(s))
    BY <2>1, ConcatAdjacentSubSeq
  <2> QED BY <2>2, SubSeqFull
<1>3. BytesOf(SubSeq(s, 1, n) \o SubSeq(s, n + 1, Len(s)))
        = BytesOf(SubSeq(s, 1, n)) + BytesOf(SubSeq(s, n + 1, Len(s)))
  BY <1>1, BytesOfBoth
<1> QED BY <1>1, <1>2, <1>3

\* A list with one of its places left out.
LEMMA Removed ==
  ASSUME NEW s \in Seq(Manifests), NEW i \in 1..Len(s)
  PROVE  /\ RemoveAt(s, i) \in Seq(Manifests)
         /\ Len(RemoveAt(s, i)) = Len(s) - 1
         /\ \A j \in 1..(Len(s) - 1) :
               RemoveAt(s, i)[j] = IF j < i THEN s[j] ELSE s[j + 1]
         /\ BytesOf(RemoveAt(s, i)) = BytesOf(s) - Decoded[s[i]]
<1> DEFINE a == SubSeq(s, 1, i - 1)
           b == SubSeq(s, i + 1, Len(s))
<1>1. /\ a \in Seq(Manifests) /\ Len(a) = i - 1
      /\ \A j \in 1..(i - 1) : a[j] = s[j]
  <2>1. \A j \in 1..(i - 1) : s[j] \in Manifests
    OBVIOUS
  <2> QED BY <2>1, SubSeqProperties
<1>2. /\ b \in Seq(Manifests) /\ Len(b) = Len(s) - i
      /\ \A j \in 1..(Len(s) - i) : b[j] = s[i + j]
  <2>1. \A j \in (i + 1)..Len(s) : s[j] \in Manifests
    OBVIOUS
  <2> QED BY <2>1, SubSeqProperties
<1>3. RemoveAt(s, i) = a \o b
  BY DEF RemoveAt
<1>4. s[i] \in Manifests /\ Decoded[s[i]] \in Nat
  BY ReadAssumption
<1>5. BytesOf(s) = (BytesOf(a) + Decoded[s[i]]) + BytesOf(b)
  <2>1. SubSeq(s, 1, i) = a \o <<s[i]>>
    <3>1. 1 \in 1..Len(s) /\ i \in 1..Len(s)
      OBVIOUS
    <3> QED BY <3>1, SubSeqRecursiveSecond
  <2>2. BytesOf(SubSeq(s, 1, i)) = BytesOf(a) + Decoded[s[i]]
    <3> HIDE DEF a
    <3>1. <<s[i]>> \in Seq(Manifests) /\ BytesOf(<<s[i]>>) = Decoded[s[i]]
      BY <1>4, BytesOfOne
    <3> QED BY <1>1, <2>1, <3>1, BytesOfBoth
  <2>3. BytesOf(s) = BytesOf(SubSeq(s, 1, i)) + BytesOf(SubSeq(s, i + 1, Len(s)))
    <3>1. i \in 0..Len(s)
      OBVIOUS
    <3> QED BY <3>1, BytesOfSplit
  <2> QED BY <2>2, <2>3
<1> HIDE DEF a, b
<1>6. BytesOf(a \o b) = BytesOf(a) + BytesOf(b)
  BY <1>1, <1>2, BytesOfBoth
<1>7. BytesOf(a) \in Nat /\ BytesOf(b) \in Nat
  BY <1>1, <1>2, BytesType
<1>8. a \o b \in Seq(Manifests) /\ Len(a \o b) = Len(s) - 1
  <2>1. a \o b \in Seq(Manifests) /\ Len(a \o b) = Len(a) + Len(b)
    BY <1>1, <1>2, ConcatProperties
  <2> QED BY <1>1, <1>2, <2>1
<1>9. \A j \in 1..(Len(s) - 1) : (a \o b)[j] = IF j < i THEN s[j] ELSE s[j + 1]
  <2> TAKE j \in 1..(Len(s) - 1)
  <2>1. CASE j < i
    BY <1>1, <1>2, <2>1
  <2>2. CASE ~(j < i)
    <3>1. j - (i - 1) \in 1..(Len(s) - i) /\ i + (j - (i - 1)) = j + 1
      BY <2>2
    <3>2. (a \o b)[j] = b[j - (i - 1)]
      BY <1>1, <1>2, <2>2, <3>1
    <3> QED BY <1>2, <2>2, <3>1, <3>2
  <2> QED BY <2>1, <2>2
<1> QED BY <1>3, <1>4, <1>5, <1>6, <1>7, <1>8, <1>9, SMTT(30)

\* What LruCache.delete leaves, and what it debits.
LEMMA WithoutIs ==
  ASSUME NEW s \in Seq(Manifests), IsInjective(s), NEW m \in Manifests
  PROVE  /\ Without(s, m) \in Seq(Manifests)
         /\ IsInjective(Without(s, m))
         /\ m \notin Range(Without(s, m))
         /\ Range(Without(s, m)) \subseteq Range(s)
         /\ Len(Without(s, m)) = IF m \in Range(s) THEN Len(s) - 1 ELSE Len(s)
         /\ BytesOf(Without(s, m)) =
              BytesOf(s) - IF m \in Range(s) THEN Decoded[m] ELSE 0
<1>1. CASE m \notin Range(s)
  <2>1. Without(s, m) = s
    BY <1>1 DEF Without
  <2>2. BytesOf(s) \in Nat
    BY BytesType
  <2> QED BY <1>1, <2>1, <2>2
<1>2. CASE m \in Range(s)
  <2> DEFINE i == CHOOSE i \in DOMAIN s : s[i] = m
             t == RemoveAt(s, i)
  <2>1. \E j \in DOMAIN s : s[j] = m
    BY <1>2 DEF Range
  <2>2. i \in DOMAIN s /\ s[i] = m
    BY <2>1
  <2>3. Without(s, m) = t
    BY <1>2 DEF Without
  <2> HIDE DEF i
  <2>4. i \in 1..Len(s)
    BY <2>2
  <2>5. /\ t \in Seq(Manifests) /\ Len(t) = Len(s) - 1
        /\ \A j \in 1..(Len(s) - 1) : t[j] = IF j < i THEN s[j] ELSE s[j + 1]
        /\ BytesOf(t) = BytesOf(s) - Decoded[m]
    BY <2>2, <2>4, Removed
  <2> HIDE DEF t
  <2> DEFINE at(j) == IF j < i THEN j ELSE j + 1
  <2>6. DOMAIN t = 1..(Len(s) - 1) /\ Len(s) \in Nat
    BY <2>5
  <2>7. \A j \in DOMAIN t : at(j) \in DOMAIN s /\ at(j) # i /\ t[j] = s[at(j)]
    BY <2>4, <2>5, <2>6
  <2>8. \A j, k \in DOMAIN t : at(j) = at(k) => j = k
    BY <2>4, <2>6
  <2> HIDE DEF at
  <2>9. IsInjective(t)
    BY <2>7, <2>8 DEF IsInjective
  <2>10. m \notin Range(t)
    BY <2>2, <2>7 DEF IsInjective, Range
  <2>11. Range(t) \subseteq Range(s)
    BY <2>7 DEF Range
  <2> QED BY <1>2, <2>3, <2>5, <2>9, <2>10, <2>11
<1> QED BY <1>1, <1>2

\* The entry moves to the end of the list.
LEMMA Refreshed ==
  ASSUME NEW s \in Seq(Manifests), IsInjective(s), NEW m \in Manifests
  PROVE  LET t == Without(s, m) \o <<m>>
         IN  /\ t \in Seq(Manifests) /\ IsInjective(t)
             /\ Len(t) = IF m \in Range(s) THEN Len(s) ELSE Len(s) + 1
             /\ BytesOf(t) =
                  BytesOf(s) - (IF m \in Range(s) THEN Decoded[m] ELSE 0) + Decoded[m]
<1> DEFINE w == Without(s, m)
           t == w \o <<m>>
           out == IF m \in Range(s) THEN Decoded[m] ELSE 0
<1>1. /\ w \in Seq(Manifests) /\ IsInjective(w) /\ m \notin Range(w)
      /\ Len(w) = IF m \in Range(s) THEN Len(s) - 1 ELSE Len(s)
      /\ BytesOf(w) = BytesOf(s) - out
  BY WithoutIs
<1>2. <<m>> \in Seq(Manifests) /\ BytesOf(<<m>>) = Decoded[m]
  BY BytesOfOne
<1> HIDE DEF w, out
<1>3. BytesOf(t) = BytesOf(s) - out + Decoded[m]
  BY <1>1, <1>2, BytesOfBoth
<1>4. /\ t \in Seq(Manifests) /\ Len(t) = Len(w) + 1 /\ Len(w) \in Nat
      /\ \A j \in 1..Len(w) : t[j] = w[j]
      /\ t[Len(w) + 1] = m
  BY <1>1, <1>2
<1>5. IsInjective(t)
  <2>1. DOMAIN t = 1..(Len(w) + 1) /\ DOMAIN w = 1..Len(w)
    BY <1>1, <1>4
  <2> HIDE DEF t
  <2>2. \A j \in DOMAIN t : \/ j \in DOMAIN w /\ t[j] = w[j]
                            \/ j = Len(w) + 1 /\ t[j] = m
    <3>1. \A j \in 1..(Len(w) + 1) : j \in 1..Len(w) \/ j = Len(w) + 1
      BY <1>4
    <3> QED BY <1>4, <2>1, <3>1
  <2>3. \A j \in DOMAIN w : w[j] # m
    BY <1>1 DEF Range
  <2> QED BY <1>1, <2>2, <2>3 DEF IsInjective
<1>6. Len(t) = IF m \in Range(s) THEN Len(s) ELSE Len(s) + 1
  BY <1>1, <1>4
<1> QED BY <1>3, <1>4, <1>5, <1>6 DEF w, out

-----------------------------------------------------------------------------
(* The counter of the cache. *)

LEMMA RetainAccounts ==
  ASSUME TypeOK, CacheAccounting, NEW m \in Manifests, Retain(m)
  PROVE  completed' \in Seq(Manifests) /\ decodedBytes' \in Nat /\ CacheAccounting'
<1> DEFINE prior == IF m \in Range(completed) THEN Decoded[m] ELSE 0
           s == Without(completed, m) \o <<m>>
           bytes == decodedBytes - prior + Decoded[m]
           n == Dropped(s, bytes)
           Fits == {k \in 0..Len(s) :
                      /\ Len(s) - k <= MaxEntries
                      /\ bytes <= MaxDecodedBytes + BytesOf(SubSeq(s, 1, k))}
<1>1. /\ completed' = SubSeq(s, n + 1, Len(s))
      /\ decodedBytes' = bytes - BytesOf(SubSeq(s, 1, n))
  BY DEF Retain
<1>2. s \in Seq(Manifests) /\ IsInjective(s) /\ bytes = BytesOf(s)
  BY Refreshed DEF TypeOK, CacheAccounting
<1>3. n = Min(Fits)
  BY DEF Dropped
<1> HIDE DEF s, bytes, n
<1>4. Len(s) \in Nat /\ BytesOf(s) \in Nat
  BY <1>2, BytesType
<1>5. Len(s) \in Fits
  <2>1. SubSeq(s, 1, Len(s)) = s
    BY <1>2, SubSeqFull
  <2>2. MaxEntries \in Nat /\ MaxDecodedBytes \in Nat
    BY ReadAssumption
  <2>3. Len(s) \in 0..Len(s) /\ Len(s) - Len(s) <= MaxEntries
    BY <1>4, <2>2
  <2>4. bytes <= MaxDecodedBytes + BytesOf(SubSeq(s, 1, Len(s)))
    <3>1. BytesOf(SubSeq(s, 1, Len(s))) = BytesOf(s)
      BY <2>1, Zenon
    <3>2. bytes <= MaxDecodedBytes + BytesOf(s)
      BY <1>2, <1>4, <2>2
    <3> QED BY <3>1, <3>2, Zenon
  <2> QED BY <2>3, <2>4
<1>6. n \in Fits
  <2>1. Fits \in SUBSET Nat
    BY <1>4
  <2> HIDE DEF Fits
  <2>2. \E k \in Fits : \A j \in Fits : k <= j
    BY <1>5, <2>1, NatMin
  <2> QED BY <1>3, <2>2 DEF Min
<1>7. n \in 0..Len(s)
  BY <1>6
<1> DEFINE gone == SubSeq(s, 1, n)
           kept == SubSeq(s, n + 1, Len(s))
<1>8. /\ gone \in Seq(Manifests) /\ kept \in Seq(Manifests)
      /\ BytesOf(s) = BytesOf(gone) + BytesOf(kept)
  BY <1>2, <1>7, BytesOfSplit
<1>9. BytesOf(gone) \in Nat /\ BytesOf(kept) \in Nat
  BY <1>8, BytesType
<1>10. Len(s) - n <= MaxEntries /\ bytes <= MaxDecodedBytes + BytesOf(gone)
  BY <1>6
<1>11. Len(kept) = Len(s) - n /\ \A i \in 1..(Len(s) - n) : kept[i] = s[n + i]
  <2>1. \A i \in (n + 1)..Len(s) : s[i] \in Manifests
    BY <1>2, <1>4, <1>7
  <2> QED BY <1>4, <1>7, <2>1, SubSeqProperties
<1> HIDE DEF gone, kept, Fits
<1>12. IsInjective(kept)
  <2>1. DOMAIN kept = 1..(Len(s) - n) /\ DOMAIN s = 1..Len(s)
    BY <1>2, <1>8, <1>11
  <2>2. \A i \in DOMAIN kept : n + i \in DOMAIN s /\ kept[i] = s[n + i]
    BY <1>4, <1>7, <1>11, <2>1
  <2>3. \A i, j \in DOMAIN kept : n + i = n + j => i = j
    BY <1>7, <2>1
  <2> QED BY <1>2, <2>2, <2>3 DEF IsInjective
<1>13. completed' = kept /\ decodedBytes' = BytesOf(kept)
  BY <1>1, <1>2, <1>8, <1>9 DEF gone, kept
<1>14. BytesOf(kept) <= MaxDecodedBytes /\ MaxDecodedBytes \in Nat
  BY <1>2, <1>8, <1>9, <1>10, ReadAssumption
<1> QED BY <1>8, <1>9, <1>10, <1>11, <1>12, <1>13, <1>14 DEF CacheAccounting

\* Only a hit, an admission and close() touch the entries.
LEMMA CacheStep ==
  ASSUME Inv, [Next]_vars
  PROVE  completed' \in Seq(Manifests) /\ decodedBytes' \in Nat /\ CacheAccounting'
<1> USE DEF Inv
<1>1. CASE UNCHANGED <<completed, decodedBytes>>
  BY <1>1 DEF TypeOK, CacheAccounting
<1>2. ASSUME NEW r \in Requests, LoadHit(r)
      PROVE  completed' \in Seq(Manifests) /\ decodedBytes' \in Nat /\ CacheAccounting'
  <2>1. decodedBytes' = decodedBytes
    BY <1>2 DEF LoadHit
  <2>2. CASE closed
    <3>1. completed' = completed
      BY <1>2, <2>2 DEF LoadHit
    <3> QED BY <1>1, <2>1, <3>1
  <2>3. CASE ~closed
    <3> DEFINE m == Target(r)
               t == Without(completed, m) \o <<m>>
    <3>1. completed' = t /\ m \in Range(completed)
      BY <1>2, <2>3 DEF LoadHit
    <3>2. m \in Manifests
      BY <3>1 DEF TypeOK, Range
    <3>3. /\ t \in Seq(Manifests) /\ IsInjective(t) /\ Len(t) = Len(completed)
          /\ BytesOf(t) = BytesOf(completed) - Decoded[m] + Decoded[m]
      BY <3>1, <3>2, Refreshed DEF TypeOK, CacheAccounting
    <3>4. BytesOf(completed) \in Nat /\ Decoded[m] \in Nat
      BY <3>2, BytesType, ReadAssumption DEF TypeOK
    <3> HIDE DEF t, m
    <3> QED BY <2>1, <3>1, <3>3, <3>4 DEF TypeOK, CacheAccounting
  <2> QED BY <2>2, <2>3
<1>3. ASSUME NEW k \in Keys, LoadDecoded(k)
      PROVE  completed' \in Seq(Manifests) /\ decodedBytes' \in Nat /\ CacheAccounting'
  <2>1. UNCHANGED <<completed, decodedBytes>> \/ Retain(k[1])
    BY <1>3 DEF LoadDecoded
  <2>2. k[1] \in Manifests
    BY DEF Keys
  <2> QED BY <1>1, <2>1, <2>2, RetainAccounts
<1>4. CASE CloseEnds
  <2>1. completed' = <<>> /\ decodedBytes' = decodedBytes - BytesOf(completed)
    BY <1>4 DEF CloseEnds
  <2>2. decodedBytes' = 0
    BY <2>1 DEF TypeOK, CacheAccounting
  <2>3. <<>> \in Seq(Manifests) /\ IsInjective(<<>>) /\ Len(<<>>) = 0
    BY DEF IsInjective
  <2> QED BY <2>1, <2>2, <2>3, BytesOfNone, ReadAssumption DEF CacheAccounting
<1>5. ASSUME NEW h \in Blobs, Download(h) \/ Evict(h)
      PROVE  UNCHANGED <<completed, decodedBytes>>
  BY <1>5 DEF Download, SkipQuarantined, OutOfBudget, AttemptSucceeds, AttemptFails,
              Unavailable, Evict, shared
<1>6. ASSUME NEW k \in Keys, LoadFetched(k) \/ LoadRejected(k)
      PROVE  UNCHANGED <<completed, decodedBytes>>
  BY <1>6 DEF LoadFetched, LoadRejected, shared
<1>7. ASSUME NEW r \in Requests, Abort(r) \/ (Reading(r) /\ ~LoadHit(r))
      PROVE  UNCHANGED <<completed, decodedBytes>>
  BY <1>7 DEF Abort, Reading, LoadJoin, LoadStart, ChunkFetch, ChunkFetched,
              ChunkRejected, ChunkStreamed, Finish, shared
<1>8. CASE Close \/ Terminated \/ UNCHANGED vars
  BY <1>1, <1>8 DEF Close, Terminated, vars, shared
<1>9. ASSUME (\E r \in Readers : Expire(r)) \/ Materializing \/ SchedulerCloses
      PROVE  UNCHANGED <<completed, decodedBytes>>
  BY <1>9 DEF Expire, Materializing, BaseFetch, BaseFetched, BaseRejected, BaseEnds,
              BaseDisposed, SchedulerCloses, shared
<1> QED BY <1>1, <1>2, <1>3, <1>4, <1>5, <1>6, <1>7, <1>8, <1>9 DEF Next, Loading, Reading

-----------------------------------------------------------------------------
(* Who waits for what: the names, and what a request asks for. *)

LEMMA Kinds ==
  /\ \A k \in Keys : /\ k \in Callers /\ k \notin Requests /\ k # Scheduler
                     /\ k[1] \in Manifests /\ k[1] \in Blobs /\ k[2] \in Seq(Sources)
  /\ \A r \in Requests : /\ r \in Callers /\ r \notin Keys /\ r # None
                         /\ r # Scheduler /\ r \in Readers
  /\ Scheduler \in Callers /\ Scheduler \notin Keys /\ Scheduler \notin Requests
  /\ Scheduler # None /\ Scheduler \in Readers
  /\ \A c \in Callers : c \in Requests \/ c \in Keys \/ c = Scheduler
  /\ \A h \in Chunks : h \in Blobs /\ h \notin Manifests
  /\ \A m \in Manifests : m \in Blobs
  /\ None \notin Flight /\ None \notin Wait
BY ReadAssumption, NoneAssumption, NoWaitAssumption DEF Keys, Callers, Readers, Blobs

\* The types of what the fetcher and the requests hold, apart from the cache.
Typed ==
    /\ load \in [Keys -> Requests \cup {None}]
    /\ flight \in [Blobs -> Flight \cup {None}]
    /\ wait \in [Callers -> Wait \cup {None}]
    /\ holders \subseteq Callers \X Blobs
    /\ stored \subseteq Blobs
    /\ quarantined \subseteq Sources
    /\ req \in [Requests -> Position]
    /\ base \in Base
    /\ aborted \subseteq Readers
    /\ expired \subseteq Readers
    /\ closed \in BOOLEAN

Sane == /\ NoLeakedLease /\ WaitsAreOwn /\ PlacesAreSound
        /\ NobodyWaitsInVain /\ BaseIsHeld /\ LoadsObeyTheCache

LEMMA InvParts == Inv <=> /\ completed \in Seq(Manifests) /\ decodedBytes \in Nat
                          /\ CacheAccounting /\ Typed /\ Sane
BY DEF Inv, TypeOK, Typed, Sane

LEMMA Asked ==
  ASSUME Typed, NEW r \in Requests
  PROVE  /\ KeyOf(r) \in Keys /\ KeyOf(r)[1] = Target(r) /\ Target(r) \in Manifests
         /\ PlanOf(r) \in Seq(Sources) /\ Body[Target(r)] \in Seq(Chunks)
         /\ req[r].index \in 1..Len(Body[Target(r)]) => Chunk(r) \in Chunks
         /\ req[r].index \in Nat /\ Len(Body[Target(r)]) \in Nat
<1>1. req[r] \in Position
  BY DEF Typed
<1>2. KeyOf(r) \in Keys /\ req[r].index \in Nat
  BY <1>1 DEF Position, KeyOf
<1>3. Target(r) = KeyOf(r)[1] /\ PlanOf(r) = KeyOf(r)[2]
  BY DEF Target, PlanOf, KeyOf
<1>4. Target(r) \in Manifests /\ PlanOf(r) \in Seq(Sources)
  BY <1>2, <1>3, Kinds
<1>5. Body[Target(r)] \in Seq(Chunks)
  BY <1>4, ReadAssumption
<1>6. req[r].index \in 1..Len(Body[Target(r)]) => Chunk(r) \in Chunks
  BY <1>5 DEF Chunk
<1> QED BY <1>2, <1>3, <1>4, <1>5, <1>6

\* The base is left alone by whoever leaves its blobs and its wait alone.
LEMMA BaseKept ==
  ASSUME BaseIsHeld, UNCHANGED base,
         wait'[Scheduler] # None => /\ wait[Scheduler] # None
                                    /\ wait'[Scheduler].hash = wait[Scheduler].hash,
         \A h : <<Scheduler, h>> \in holders => <<Scheduler, h>> \in holders'
  PROVE  BaseIsHeld'
<1>1. \A i : Item(i)' = Item(i)
  BY DEF Item
<1>2. Whole' = Whole
  BY DEF Whole
<1> QED BY <1>1, <1>2 DEF BaseIsHeld, BaseAwaits, Held

-----------------------------------------------------------------------------
(* The downloads. *)

LEMMA FlightKept ==
  ASSUME NEW f \in Flight, NEW l \in Seq(Sources), NEW t \in Nat
  PROVE  /\ [f EXCEPT !.left = l] \in Flight
         /\ [f EXCEPT !.left = l].signal = f.signal
         /\ [f EXCEPT !.left = l, !.tries = t] \in Flight
         /\ [f EXCEPT !.left = l, !.tries = t].signal = f.signal
BY DEF Flight

\* A download that goes on keeps its signal.
LEMMA FlightGoesOn ==
  ASSUME Typed, Sane, UNCHANGED <<load, wait, holders, req, base, aborted, closed>>,
         NEW h \in Blobs, flight[h] # None, flight[h].left # <<>>,
         \/ flight' = [flight EXCEPT ![h].left = Tail(@)]
         \/ flight' = [flight EXCEPT ![h].left = Tail(@), ![h].tries = @ + 1]
  PROVE  flight' \in [Blobs -> Flight \cup {None}] /\ Sane'
<1>1. flight[h] \in Flight
  BY DEF Typed
<1>2. /\ flight'[h] \in Flight /\ flight'[h].signal = flight[h].signal
      /\ \A g \in Blobs \ {h} : flight'[g] = flight[g]
      /\ flight' \in [Blobs -> Flight \cup {None}]
  <2> DEFINE f == flight[h]
             l == Tail(f.left)
             t == f.tries + 1
             F == [f EXCEPT !.left = l]
             G == [f EXCEPT !.left = l, !.tries = t]
  <2>1. f \in Flight /\ l \in Seq(Sources) /\ t \in Nat
    BY <1>1 DEF Flight
  <2>2. flight' = [flight EXCEPT ![h] = F] \/ flight' = [flight EXCEPT ![h] = G]
    OBVIOUS
  <2> HIDE DEF f, l, t
  <2>3. F \in Flight /\ F.signal = f.signal /\ G \in Flight /\ G.signal = f.signal
    BY <2>1, FlightKept
  <2> HIDE DEF F, G
  <2> QED BY <2>2, <2>3 DEF Typed, f
<1>3. \A g \in Blobs : flight[g] # None => flight'[g] # None
  BY <1>2, Kinds
<1>4. \A g \in Blobs : flight'[g] # None => flight[g] # None /\ flight'[g].signal = flight[g].signal
  BY <1>2, Kinds
<1>5. NoLeakedLease' /\ WaitsAreOwn' /\ PlacesAreSound'
  BY DEF Sane, NoLeakedLease, WaitsAreOwn, PlacesAreSound, Chunk, Target
<1>6. NobodyWaitsInVain'
  <2>1. \A c \in Callers : wait[c] # None => wait[c].hash \in Blobs
    BY DEF Typed, Wait
  <2> QED BY <1>3, <2>1 DEF Sane, NobodyWaitsInVain, Held, Chunk, Target, KeyOf
<1>7. LoadsObeyTheCache'
  BY <1>4, Kinds DEF Sane, LoadsObeyTheCache
<1>8. BaseIsHeld'
  BY BaseKept DEF Sane
<1> QED BY <1>2, <1>5, <1>6, <1>7, <1>8 DEF Sane

\* A download that settles does so for everyone who awaits it.
LEMMA SettleSane ==
  ASSUME Typed, Sane, UNCHANGED <<load, holders, req, base, aborted, closed>>,
         NEW h \in Blobs, NEW stage \in {"resolved", "rejected"}, NEW why \in Reasons,
         h \in Manifests /\ why = "abort" => closed \/ Scheduler \in aborted,
         Settle(h, stage, why)
  PROVE  /\ flight' \in [Blobs -> Flight \cup {None}]
         /\ wait' \in [Callers -> Wait \cup {None}]
         /\ Sane'
<1>1. /\ flight' = [flight EXCEPT ![h] = None]
      /\ \A g \in Blobs \ {h} : flight'[g] = flight[g]
      /\ flight'[h] = None
      /\ flight' \in [Blobs -> Flight \cup {None}]
  BY DEF Typed, Settle
<1>2. [hash |-> h, stage |-> stage, why |-> why] \in Wait
  BY DEF Wait
<1>3. \A c \in Callers : wait'[c] = wait[c] \/
         /\ wait[c] # None /\ wait[c].hash = h
         /\ wait'[c] = [hash |-> h, stage |-> stage, why |-> why]
  BY DEF Settle
<1>4. wait' \in [Callers -> Wait \cup {None}]
  BY <1>2 DEF Settle, Typed
<1>5. \A c \in Callers : /\ wait'[c] # None => wait[c] # None /\ wait'[c].hash = wait[c].hash
                         /\ wait[c] # None => wait'[c] # None
  BY <1>2, <1>3, Kinds
<1>6. NoLeakedLease' /\ PlacesAreSound'
  BY <1>5, Kinds DEF Sane, NoLeakedLease, PlacesAreSound, Target
<1>7. WaitsAreOwn'
  BY <1>5, Kinds DEF Sane, WaitsAreOwn, Chunk, Target
<1>8. NobodyWaitsInVain'
  <2>1. ASSUME NEW c \in Callers, wait'[c] # None, wait'[c].stage = "pending"
        PROVE  flight'[wait'[c].hash] # None
    <3>1. wait'[c] = wait[c]
      BY <1>3, <2>1
    <3>2. wait[c] \in Wait
      BY <2>1, <3>1 DEF Typed
    <3>3. wait[c].hash # h /\ wait[c].hash \in Blobs
      BY <2>1, <3>1, <3>2, <1>2 DEF Settle, Wait
    <3> QED BY <1>1, <2>1, <3>1, <3>3 DEF Sane, NobodyWaitsInVain
  <2> QED BY <1>5, <2>1, Kinds DEF Sane, NobodyWaitsInVain, Held, Chunk, Target, KeyOf
<1>9. LoadsObeyTheCache'
  <2>1. \A m \in Manifests :
           flight'[m] # None => flight'[m].signal \in {None, Scheduler}
    BY <1>1, Kinds DEF Sane, LoadsObeyTheCache
  <2>2. ASSUME NEW k \in Keys, wait'[k] # None, wait'[k].why = "abort"
        PROVE  closed' \/ Scheduler \in aborted'
    <3>1. CASE wait'[k] = wait[k]
      BY <2>2, <3>1 DEF Sane, LoadsObeyTheCache
    <3>2. CASE wait[k] # None /\ wait[k].hash = h /\ why = "abort"
      <4>1. h = k[1]
        BY <3>2 DEF Sane, WaitsAreOwn
      <4> QED BY <3>2, <4>1, Kinds
    <3> QED BY <1>3, <2>2, <3>1, <3>2, Kinds
  <2> QED BY <2>1, <2>2 DEF LoadsObeyTheCache
<1>10. BaseIsHeld'
  BY <1>5, Kinds, BaseKept DEF Sane
<1> QED BY <1>1, <1>4, <1>6, <1>7, <1>8, <1>9, <1>10 DEF Sane

LEMMA DownloadStep ==
  ASSUME Inv, NEW h \in Blobs, Download(h) \/ Evict(h)
  PROVE  Typed' /\ Sane'
<1>0. Typed /\ Sane
  BY InvParts
<1> USE DEF shared
<1>1. CASE SkipQuarantined(h)
  <2>1. /\ UNCHANGED <<load, wait, holders, stored, quarantined, req, base, aborted, expired, closed>>
        /\ flight[h] # None /\ flight[h].left # <<>>
        /\ flight' = [flight EXCEPT ![h].left = Tail(@)]
    BY <1>1 DEF SkipQuarantined, Attemptable
  <2>2. flight' \in [Blobs -> Flight \cup {None}] /\ Sane'
    BY <1>0, <2>1, FlightGoesOn
  <2> QED BY <1>0, <2>1, <2>2 DEF Typed
<1>2. CASE AttemptFails(h)
  <2>1. /\ UNCHANGED <<load, wait, holders, req, base, aborted, expired, closed>>
        /\ flight[h] # None /\ flight[h].left # <<>>
        /\ flight' = [flight EXCEPT ![h].left = Tail(@), ![h].tries = @ + 1]
        /\ quarantined' \in {quarantined, quarantined \cup {Head(flight[h].left)}}
        /\ stored' \in {stored, stored \cup {h}}
    BY <1>2 DEF AttemptFails, Attemptable, Current
  <2>2. flight' \in [Blobs -> Flight \cup {None}] /\ Sane'
    BY <1>0, <2>1, FlightGoesOn
  <2>3. flight[h] \in Flight
    BY <1>0, <2>1 DEF Typed
  <2>4. flight[h].left \in Seq(Sources)
    BY <2>3 DEF Flight
  <2>5. Head(flight[h].left) \in Sources
    BY <2>1, <2>4
  <2> QED BY <1>0, <2>1, <2>2, <2>5 DEF Typed
<1>3. CASE OutOfBudget(h)
  <2>1. /\ UNCHANGED <<load, holders, stored, quarantined, req, base, aborted, expired, closed>>
        /\ Settle(h, "rejected", "budget")
    BY <1>3 DEF OutOfBudget
  <2>2. /\ flight' \in [Blobs -> Flight \cup {None}]
        /\ wait' \in [Callers -> Wait \cup {None}] /\ Sane'
    BY <1>0, <2>1, SettleSane DEF Reasons
  <2> QED BY <1>0, <2>1, <2>2 DEF Typed
<1>4. CASE AttemptSucceeds(h)
  <2>1. /\ UNCHANGED <<load, holders, quarantined, req, base, aborted, expired, closed>>
        /\ Settle(h, "resolved", "") /\ stored' = stored \cup {h}
    BY <1>4 DEF AttemptSucceeds
  <2>2. /\ flight' \in [Blobs -> Flight \cup {None}]
        /\ wait' \in [Callers -> Wait \cup {None}] /\ Sane'
    BY <1>0, <2>1, SettleSane DEF Reasons
  <2> QED BY <1>0, <2>1, <2>2 DEF Typed
<1>5. CASE Unavailable(h)
  <2> DEFINE why == IF Cancelled(flight[h]) THEN "abort" ELSE "sources"
  <2>1. /\ UNCHANGED <<load, holders, stored, quarantined, req, base, aborted, expired, closed>>
        /\ Settle(h, "rejected", why) /\ flight[h] # None
    BY <1>5 DEF Unavailable
  <2>2. h \in Manifests /\ why = "abort" => closed \/ Scheduler \in aborted
    BY <1>0, <2>1 DEF Sane, LoadsObeyTheCache, Cancelled
  <2>3. why \in Reasons
    BY DEF Reasons
  <2> HIDE DEF why
  <2>4. /\ flight' \in [Blobs -> Flight \cup {None}]
        /\ wait' \in [Callers -> Wait \cup {None}] /\ Sane'
    BY <1>0, <2>1, <2>2, <2>3, SettleSane
  <2> QED BY <1>0, <2>1, <2>4 DEF Typed
<1>6. CASE Evict(h)
  <2>1. /\ UNCHANGED <<load, flight, wait, holders, quarantined, req, base, aborted, expired, closed>>
        /\ stored' = stored \ {h}
    BY <1>6 DEF Evict
  <2>2. Typed'
    BY <1>0, <2>1 DEF Typed
  <2>3. Sane'
    BY <1>0, <2>1, BaseKept DEF Sane, NoLeakedLease, WaitsAreOwn, PlacesAreSound,
          NobodyWaitsInVain, LoadsObeyTheCache, Held, Chunk, Target, KeyOf
  <2> QED BY <2>2, <2>3
<1> QED BY <1>1, <1>2, <1>3, <1>4, <1>5, <1>6 DEF Download

-----------------------------------------------------------------------------
(* The requests. *)

\* A position further on in the request, at place i or where it was.
MovedTo(p, pc, i) == [p EXCEPT !.pc = pc, !.index = i]
Moved(p, pc) == [p EXCEPT !.pc = pc]
Points == {"start", "manifest", "chunk", "stream", "done", "failed"}

LEMMA FailedIs ==
  ASSUME NEW p \in Position, NEW why \in Reasons
  PROVE  /\ Failed(p, why) \in Position /\ Failed(p, why).ask = p.ask
         /\ Failed(p, why).pc = "failed" /\ Failed(p, why).why = why
BY DEF Position, Failed

LEMMA MovedIs ==
  ASSUME NEW p \in Position, NEW pc \in Points, NEW i \in Nat
  PROVE  /\ MovedTo(p, pc, i) \in Position /\ MovedTo(p, pc, i).ask = p.ask
         /\ MovedTo(p, pc, i).pc = pc /\ MovedTo(p, pc, i).index = i
         /\ Moved(p, pc) \in Position /\ Moved(p, pc).ask = p.ask
         /\ Moved(p, pc).pc = pc /\ Moved(p, pc).index = p.index
BY DEF Position, MovedTo, Moved, Points

LEMMA Instances ==
  ASSUME NEW p \in Position
  PROVE  /\ Failed(p, "abort") \in Position /\ Failed(p, "abort").ask = p.ask
         /\ Failed(p, "abort").pc = "failed"
         /\ Failed(p, "closed") \in Position /\ Failed(p, "closed").ask = p.ask
         /\ Failed(p, "closed").pc = "failed"
         /\ MovedTo(p, "chunk", 1) \in Position /\ MovedTo(p, "chunk", 1).ask = p.ask
         /\ MovedTo(p, "chunk", 1).pc = "chunk" /\ MovedTo(p, "chunk", 1).index = 1
         /\ Moved(p, "manifest") \in Position /\ Moved(p, "manifest").ask = p.ask
         /\ Moved(p, "manifest").pc = "manifest"
<1>1. "abort" \in Reasons /\ "closed" \in Reasons
  BY DEF Reasons
<1>2. "chunk" \in Points /\ "manifest" \in Points /\ 1 \in Nat
  BY DEF Points
<1>3. /\ Failed(p, "abort") \in Position /\ Failed(p, "abort").ask = p.ask
      /\ Failed(p, "abort").pc = "failed"
  BY <1>1, FailedIs, Zenon
<1>4. /\ Failed(p, "closed") \in Position /\ Failed(p, "closed").ask = p.ask
      /\ Failed(p, "closed").pc = "failed"
  BY <1>1, FailedIs, Zenon
<1>5. /\ MovedTo(p, "chunk", 1) \in Position /\ MovedTo(p, "chunk", 1).ask = p.ask
      /\ MovedTo(p, "chunk", 1).pc = "chunk" /\ MovedTo(p, "chunk", 1).index = 1
  BY <1>2, MovedIs
<1>6. /\ Moved(p, "manifest") \in Position /\ Moved(p, "manifest").ask = p.ask
      /\ Moved(p, "manifest").pc = "manifest"
  BY <1>2, MovedIs, Zenon
<1> QED BY <1>3, <1>4, <1>5, <1>6

\* A request that awaits no download and reads no chunk moves on.
LEMMA RequestMoves ==
  ASSUME Typed, Sane, UNCHANGED <<load, flight, wait, holders, base, closed>>,
         aborted \subseteq aborted',
         NEW r \in Requests, NEW x \in Position, req' = [req EXCEPT ![r] = x],
         req[r].pc # "stream", wait[r] = None, x.ask = req[r].ask,
         x.pc \in {"manifest", "chunk", "done", "failed"},
         x.pc = "chunk" => x.index > 0,
         x.pc = "manifest" => load[KeyOf(r)] # None
  PROVE  req' \in [Requests -> Position] /\ Sane'
<1>1. /\ req'[r] = x /\ req' \in [Requests -> Position]
      /\ \A q \in Requests \ {r} : req'[q] = req[q]
  BY DEF Typed
<1>2. NoLeakedLease'
  BY <1>1, Kinds DEF Sane, NoLeakedLease
<1>3. WaitsAreOwn'
  BY <1>1, Kinds DEF Sane, WaitsAreOwn, Chunk, Target
<1>4. PlacesAreSound'
  BY <1>1 DEF Sane, PlacesAreSound, Target
<1>5. NobodyWaitsInVain'
  <2>1. \A q \in Requests : req'[q].pc = "manifest" => load'[KeyOf(q)'] # None
    BY <1>1 DEF Sane, NobodyWaitsInVain, KeyOf
  <2>2. \A q \in Requests : req'[q].pc = "stream" => Held(q, Chunk(q))'
    BY <1>1 DEF Sane, NobodyWaitsInVain, Held, Chunk, Target
  <2> QED BY <2>1, <2>2 DEF Sane, NobodyWaitsInVain, Held
<1>6. LoadsObeyTheCache'
  BY DEF Sane, LoadsObeyTheCache
<1>7. BaseIsHeld'
  BY BaseKept DEF Sane
<1> QED BY <1>1, <1>2, <1>3, <1>4, <1>5, <1>6, <1>7 DEF Sane

LEMMA IdleBeforeManifest ==
  ASSUME Sane, NEW r \in Requests, req[r].pc \in {"start", "manifest"}
  PROVE  wait[r] = None
BY DEF Sane, WaitsAreOwn

LEMMA QuietStep ==
  ASSUME Inv, NEW r \in Requests, LoadHit(r) \/ LoadJoin(r) \/ Finish(r) \/ Abort(r)
  PROVE  Typed' /\ Sane'
<1>0. Typed /\ Sane /\ req[r] \in Position
  BY InvParts DEF Typed
<1> USE DEF shared, fetcher
<1>1. CASE LoadHit(r)
  <2> DEFINE x == IF closed THEN Failed(req[r], "closed")
                  ELSE IF r \in aborted THEN Failed(req[r], "abort")
                  ELSE MovedTo(req[r], "chunk", 1)
  <2>1. /\ UNCHANGED <<load, flight, wait, holders, stored, quarantined, base, aborted, expired, closed>>
        /\ req' = [req EXCEPT ![r] = x] /\ req[r].pc = "start"
    BY <1>1 DEF LoadHit, MovedTo
  <2>2. /\ x \in Position /\ x.ask = req[r].ask /\ x.pc \in {"chunk", "failed"}
        /\ x.pc = "chunk" => x.index > 0
    BY <1>0, Instances
  <2> HIDE DEF x
  <2>3. req' \in [Requests -> Position] /\ Sane'
    BY <1>0, <2>1, <2>2, IdleBeforeManifest, RequestMoves
  <2> QED BY <1>0, <2>1, <2>3 DEF Typed
<1>2. CASE LoadJoin(r)
  <2> DEFINE x == IF r \in aborted THEN Failed(req[r], "abort")
                  ELSE Moved(req[r], "manifest")
  <2>1. /\ UNCHANGED <<load, flight, wait, holders, stored, quarantined, base, aborted, expired, closed>>
        /\ req' = [req EXCEPT ![r] = x] /\ req[r].pc = "start" /\ load[KeyOf(r)] # None
    BY <1>2 DEF LoadJoin, Moved
  <2>2. /\ x \in Position /\ x.ask = req[r].ask /\ x.pc \in {"manifest", "failed"}
    BY <1>0, Instances
  <2> HIDE DEF x
  <2>3. req' \in [Requests -> Position] /\ Sane'
    BY <1>0, <2>1, <2>2, IdleBeforeManifest, RequestMoves
  <2> QED BY <1>0, <2>1, <2>3 DEF Typed
<1>3. CASE Finish(r)
  <2> DEFINE x == Moved(req[r], "done")
  <2>1. /\ UNCHANGED <<load, flight, wait, holders, stored, quarantined, base, aborted, expired, closed>>
        /\ req' = [req EXCEPT ![r] = x] /\ req[r].pc = "chunk"
        /\ req[r].index > Len(Body[Target(r)])
    BY <1>3 DEF Finish, Moved
  <2>2. x \in Position /\ x.ask = req[r].ask /\ x.pc = "done"
    BY <1>0, MovedIs DEF Points
  <2>3. wait[r] = None
    <3>1. req[r].index \in Nat /\ Len(Body[Target(r)]) \in Nat
      BY <1>0, Asked
    <3> QED BY <1>0, <2>1, <3>1 DEF Sane, PlacesAreSound
  <2> HIDE DEF x
  <2>4. req' \in [Requests -> Position] /\ Sane'
    BY <1>0, <2>1, <2>2, <2>3, RequestMoves
  <2> QED BY <1>0, <2>1, <2>4 DEF Typed
<1>4. CASE Abort(r) /\ req[r].pc = "manifest"
  <2> DEFINE x == Failed(req[r], "abort")
  <2>1. /\ UNCHANGED <<load, flight, wait, holders, stored, quarantined, base, expired, closed>>
        /\ req' = [req EXCEPT ![r] = x] /\ aborted' = aborted \cup {r}
    BY <1>4 DEF Abort
  <2>2. x \in Position /\ x.ask = req[r].ask /\ x.pc = "failed"
    BY <1>0, Instances
  <2> HIDE DEF x
  <2>3. req' \in [Requests -> Position] /\ Sane'
    BY <1>0, <1>4, <2>1, <2>2, IdleBeforeManifest, RequestMoves
  <2> QED BY <1>0, <2>1, <2>3, Kinds DEF Typed
<1>5. CASE Abort(r) /\ req[r].pc # "manifest"
  <2>1. /\ UNCHANGED <<load, flight, wait, holders, stored, quarantined, base, expired, closed>>
        /\ req' = [req EXCEPT ![r] = @] /\ aborted' = aborted \cup {r}
    BY <1>5 DEF Abort
  <2>2. req' = req
    BY <1>0, <2>1 DEF Typed
  <2>3. Sane'
    BY <1>0, <2>1, <2>2, BaseKept DEF Sane, NoLeakedLease, WaitsAreOwn, PlacesAreSound,
          NobodyWaitsInVain, LoadsObeyTheCache, Held, Chunk, Target, KeyOf
  <2> QED BY <1>0, <2>1, <2>2, <2>3, Kinds DEF Typed
<1> QED BY <1>1, <1>2, <1>3, <1>4, <1>5

\* What the signals and close() change is no concern of the waiters, except
\* that a cancelled load may then be rejected.
LEMMA SignalStep ==
  ASSUME Inv, \/ \E r \in Readers : Expire(r)
              \/ SchedulerCloses \/ Close \/ CloseEnds \/ UNCHANGED vars
  PROVE  Typed' /\ Sane'
<1>0. Typed /\ Sane
  BY InvParts
<1>1. /\ UNCHANGED <<load, flight, wait, holders, stored, quarantined, req, base>>
      /\ closed => closed'
      /\ closed' \in BOOLEAN /\ expired' \subseteq Readers
      /\ aborted \subseteq aborted' /\ aborted' \subseteq Readers
  BY <1>0, Kinds DEF Expire, SchedulerCloses, Close, CloseEnds, vars, shared, fetcher, Typed
<1>2. Sane'
  BY <1>0, <1>1, BaseKept DEF Sane, NoLeakedLease, WaitsAreOwn, PlacesAreSound,
          NobodyWaitsInVain, LoadsObeyTheCache, Held, Chunk, Target, KeyOf
<1> QED BY <1>0, <1>1, <1>2 DEF Typed

-----------------------------------------------------------------------------
(* The loads. *)

\* The download that a caller joins or starts.
LEMMA JoinsFlight ==
  ASSUME Typed, NEW c \in Callers, NEW h \in Blobs, NEW plan \in Seq(Sources),
         NEW signal \in Readers \cup {None}, NEW payer \in Readers,
         FetchMiss(c, h, plan, signal, payer)
  PROVE  /\ flight' \in [Blobs -> Flight \cup {None}]
         /\ wait' \in [Callers -> Wait \cup {None}]
         /\ UNCHANGED <<holders, stored, quarantined>>
         /\ \A g \in Blobs : flight[g] # None => flight'[g] = flight[g]
         /\ \A g \in Blobs \ {h} : flight'[g] = flight[g]
         /\ flight'[h] # None
         /\ flight[h] = None => flight'[h].signal = signal
         /\ wait'[c] # None /\ wait'[c].hash = h /\ wait'[c].why = ""
         /\ wait'[c].stage = "pending"
         /\ \A d \in Callers \ {c} : wait'[d] = wait[d]
<1> DEFINE f == [left |-> plan, tries |-> 0, signal |-> signal, payer |-> payer]
           w == [hash |-> h, stage |-> "pending", why |-> ""]
<1>1. f \in Flight /\ f.signal = signal
  BY DEF Flight
<1>2. w \in Wait /\ w.hash = h /\ w.stage = "pending" /\ w.why = ""
  BY DEF Wait, Reasons
<1>3. /\ flight' = IF flight[h] # None THEN flight ELSE [flight EXCEPT ![h] = f]
      /\ wait' = [wait EXCEPT ![c] = w]
      /\ UNCHANGED <<holders, stored, quarantined>>
  BY DEF FetchMiss
<1> HIDE DEF f, w
<1>4. /\ flight' \in [Blobs -> Flight \cup {None}]
      /\ \A g \in Blobs : flight[g] # None => flight'[g] = flight[g]
      /\ \A g \in Blobs \ {h} : flight'[g] = flight[g]
      /\ flight'[h] # None
      /\ flight[h] = None => flight'[h].signal = signal
  BY <1>1, <1>3, Kinds DEF Typed
<1>5. /\ wait' \in [Callers -> Wait \cup {None}] /\ wait'[c] = w /\ w # None
      /\ \A d \in Callers \ {c} : wait'[d] = wait[d]
  BY <1>2, <1>3, Kinds DEF Typed
<1> QED BY <1>2, <1>3, <1>4, <1>5

LEMMA LoadStartStep ==
  ASSUME Inv, NEW r \in Requests, LoadStart(r)
  PROVE  Typed' /\ Sane'
<1>0. Typed /\ Sane /\ req[r] \in Position
  BY InvParts DEF Typed
<1> DEFINE k == KeyOf(r)
           x == IF r \in aborted THEN Failed(req[r], "abort")
                ELSE Moved(req[r], "manifest")
<1>1. /\ UNCHANGED <<base, aborted, expired, closed>>
      /\ req' = [req EXCEPT ![r] = x] /\ req[r].pc = "start"
      /\ load[k] = None /\ load' = [load EXCEPT ![k] = r]
      /\ FetchHit(k, Target(r)) \/ FetchMiss(k, Target(r), PlanOf(r), None, r)
  BY DEF LoadStart, Moved
<1>2. x \in Position /\ x.ask = req[r].ask /\ x.pc \in {"manifest", "failed"}
  BY <1>0, Instances
<1>3. k \in Keys /\ k[1] = Target(r) /\ Target(r) \in Manifests /\ PlanOf(r) \in Seq(Sources)
  BY <1>0, Asked
<1> HIDE DEF x
<1>4. /\ req' \in [Requests -> Position] /\ req'[r] = x
      /\ \A q \in Requests \ {r} : req'[q] = req[q]
      /\ \A q \in Requests : KeyOf(q)' = KeyOf(q) /\ Target(q)' = Target(q)
  BY <1>0, <1>1, <1>2 DEF Typed, KeyOf, Target
<1> HIDE DEF k
<1>5. /\ load' \in [Keys -> Requests \cup {None}] /\ load'[k] # None
      /\ \A j \in Keys \ {k} : load'[j] = load[j]
  BY <1>0, <1>1, <1>3, Kinds DEF Typed
<1>6. wait[r] = None /\ wait[k] = None
  BY <1>0, <1>1, <1>3, IdleBeforeManifest DEF Sane, WaitsAreOwn
<1>7. \A p \in holders : p[1] # k /\ p[1] # r
  BY <1>0, <1>1, <1>3, Kinds DEF Sane, NoLeakedLease
<1>8. k \in Callers /\ k[1] \in Blobs /\ k \notin Requests /\ k # r
  BY <1>3, Kinds
<1>9. CASE FetchHit(k, Target(r))
  <2>1. /\ UNCHANGED <<flight, wait, stored, quarantined>>
        /\ holders' = holders \cup {<<k, k[1]>>}
    BY <1>3, <1>9 DEF FetchHit
  <2>2. Typed'
    BY <1>0, <1>1, <1>4, <1>5, <1>8, <2>1 DEF Typed
  <2>3. NoLeakedLease'
    <3> SUFFICES ASSUME NEW p \in holders'
                 PROVE  /\ p[1] \in Requests => req'[p[1]].pc = "stream"
                        /\ p[1] \in Keys => load'[p[1]] # None
                        /\ p[1] = Scheduler => base'.index > 0
      BY DEF NoLeakedLease
    <3>1. CASE p = <<k, k[1]>>
      BY <1>3, <1>5, <1>8, <3>1, Kinds
    <3>2. CASE p \in holders
      <4>1. p[1] # k /\ p[1] # r
        BY <1>7, <3>2
      <4> QED BY <1>0, <1>1, <1>4, <1>5, <3>2, <4>1 DEF Sane, NoLeakedLease
    <3> QED BY <2>1, <3>1, <3>2
  <2>4. WaitsAreOwn'
    BY <1>0, <1>4, <1>5, <1>6, <1>8, <2>1, Kinds DEF Sane, WaitsAreOwn, Chunk, Target
  <2>5. PlacesAreSound'
    BY <1>0, <1>2, <1>4, <1>6, <2>1 DEF Sane, PlacesAreSound, Target
  <2>6. NobodyWaitsInVain'
    <3>1. \A q \in Requests : req'[q].pc = "manifest" => load'[KeyOf(q)'] # None
      <4>1. \A q \in Requests : KeyOf(q) \in Keys
        BY <1>0, Asked
      <4> QED BY <1>0, <1>4, <1>5, <4>1 DEF Sane, NobodyWaitsInVain, k
    <3>2. \A q \in Requests : req'[q].pc = "stream" => Held(q, Chunk(q))'
      BY <1>0, <1>2, <1>4, <2>1 DEF Sane, NobodyWaitsInVain, Held, Chunk, Target
    <3>3. \A j \in Keys : load'[j] # None => wait'[j] # None \/ Held(j, j[1])'
      BY <1>0, <1>5, <2>1 DEF Sane, NobodyWaitsInVain, Held
    <3> QED BY <1>0, <2>1, <3>1, <3>2, <3>3 DEF Sane, NobodyWaitsInVain
  <2>7. LoadsObeyTheCache'
    BY <1>0, <1>1, <2>1 DEF Sane, LoadsObeyTheCache
  <2>8. BaseIsHeld'
    BY <1>0, <1>1, <2>1, BaseKept DEF Sane
  <2> QED BY <2>2, <2>3, <2>4, <2>5, <2>6, <2>7, <2>8 DEF Sane
<1>10. CASE FetchMiss(k, Target(r), PlanOf(r), None, r)
  <2>1. /\ flight' \in [Blobs -> Flight \cup {None}]
        /\ wait' \in [Callers -> Wait \cup {None}]
        /\ UNCHANGED <<holders, stored, quarantined>>
        /\ \A g \in Blobs : flight[g] # None => flight'[g] = flight[g]
        /\ \A g \in Blobs \ {k[1]} : flight'[g] = flight[g]
        /\ flight'[k[1]] # None
        /\ flight[k[1]] = None => flight'[k[1]].signal = None
        /\ wait'[k] # None /\ wait'[k].hash = k[1] /\ wait'[k].why = ""
        /\ wait'[k].stage = "pending"
        /\ \A d \in Callers \ {k} : wait'[d] = wait[d]
    <3>1. FetchMiss(k, k[1], PlanOf(r), None, r)
      BY <1>3, <1>10, Zenon
    <3>2. None \in Readers \cup {None} /\ r \in Readers
      BY Kinds
    <3> QED BY <1>0, <1>3, <1>8, <3>1, <3>2, JoinsFlight
  <2>2. Typed'
    BY <1>0, <1>1, <1>4, <1>5, <2>1 DEF Typed
  <2>8. \A q \in Requests : wait'[q] = wait[q]
    BY <1>8, <2>1, Kinds
  <2>3. NoLeakedLease'
    <3> SUFFICES ASSUME NEW p \in holders
                 PROVE  /\ p[1] \in Requests => req'[p[1]].pc = "stream"
                        /\ p[1] \in Keys => load'[p[1]] # None
                        /\ p[1] = Scheduler => base'.index > 0
      BY <2>1 DEF NoLeakedLease
    <3>1. p[1] # k /\ p[1] # r
      BY <1>7
    <3> QED BY <1>0, <1>1, <1>4, <1>5, <3>1 DEF Sane, NoLeakedLease
  <2>4. WaitsAreOwn'
    <3>1. \A q \in Requests : wait'[q] # None =>
             req'[q].pc = "chunk" /\ wait'[q].hash = Chunk(q)'
      BY <1>0, <1>4, <1>6, <2>8 DEF Sane, WaitsAreOwn, Chunk, Target
    <3>2. \A j \in Keys : wait'[j] # None =>
             /\ load'[j] # None /\ wait'[j].hash = j[1] /\ \A p \in holders' : p[1] # j
      BY <1>0, <1>5, <1>7, <2>1, Kinds, ZenonT(40) DEF Sane, WaitsAreOwn
    <3> QED BY <3>1, <3>2 DEF WaitsAreOwn
  <2>5. PlacesAreSound'
    BY <1>0, <1>2, <1>4, <1>6, <2>8 DEF Sane, PlacesAreSound, Target
  <2>6. NobodyWaitsInVain'
    <3>1. \A q \in Requests : req'[q].pc = "manifest" => load'[KeyOf(q)'] # None
      <4>1. \A q \in Requests : KeyOf(q) \in Keys
        BY <1>0, Asked
      <4> QED BY <1>0, <1>4, <1>5, <4>1 DEF Sane, NobodyWaitsInVain, k
    <3>2. \A q \in Requests : req'[q].pc = "stream" => Held(q, Chunk(q))'
      BY <1>0, <1>2, <1>4, <2>1 DEF Sane, NobodyWaitsInVain, Held, Chunk, Target
    <3>3. \A j \in Keys : load'[j] # None => wait'[j] # None \/ Held(j, j[1])'
      BY <1>0, <1>5, <2>1, Kinds DEF Sane, NobodyWaitsInVain, Held
    <3>4. ASSUME NEW c \in Callers, wait'[c] # None, wait'[c].stage = "pending"
          PROVE  flight'[wait'[c].hash] # None
      <4>1. CASE c = k
        BY <2>1, <4>1
      <4>2. CASE c # k
        <5>1. wait'[c] = wait[c] /\ wait[c] \in Wait
          BY <1>0, <2>1, <3>4, <4>2 DEF Typed
        <5>2. flight[wait[c].hash] # None /\ wait[c].hash \in Blobs
          BY <1>0, <3>4, <5>1 DEF Sane, NobodyWaitsInVain, Wait
        <5> QED BY <2>1, <5>1, <5>2
      <4> QED BY <4>1, <4>2
    <3> QED BY <3>1, <3>2, <3>3, <3>4 DEF NobodyWaitsInVain
  <2>7. LoadsObeyTheCache'
    <3>1. \A m \in Manifests : flight'[m] # None => flight'[m].signal \in {None, Scheduler}
      BY <1>0, <2>1, Kinds DEF Sane, LoadsObeyTheCache
    <3>2. \A j \in Keys : wait'[j] # None => (wait'[j].why = "abort" => closed' \/ Scheduler \in aborted')
      BY <1>0, <1>1, <2>1, Kinds DEF Sane, LoadsObeyTheCache
    <3> QED BY <3>1, <3>2 DEF LoadsObeyTheCache
  <2>9. BaseIsHeld'
    BY <1>0, <1>1, <1>3, <2>1, BaseKept, Kinds DEF Sane
  <2> QED BY <2>2, <2>3, <2>4, <2>5, <2>6, <2>7, <2>9 DEF Sane
<1> QED BY <1>1, <1>9, <1>10

LEMMA LoadFetchedStep ==
  ASSUME Inv, NEW k \in Keys, LoadFetched(k)
  PROVE  Typed' /\ Sane'
<1>0. Typed /\ Sane
  BY InvParts
<1>1. /\ UNCHANGED <<load, flight, stored, quarantined, req, base, aborted, expired, closed>>
      /\ wait[k] # None /\ wait' = [wait EXCEPT ![k] = None] /\ load[k] # None
      /\ holders' = holders \cup {<<k, wait[k].hash>>}
  BY DEF LoadFetched, Resolved, shared
<1>2. /\ k \in Callers /\ k \notin Requests /\ k[1] \in Blobs /\ wait[k].hash = k[1]
      /\ \A q \in Requests : wait'[q] = wait[q]
      /\ \A d \in Callers \ {k} : wait'[d] = wait[d]
      /\ wait'[k] = None
  BY <1>0, <1>1, Kinds DEF Sane, WaitsAreOwn, Typed
<1>3. Typed'
  BY <1>0, <1>1, <1>2 DEF Typed
<1>4. NoLeakedLease'
  BY <1>0, <1>1, <1>2, Kinds DEF Sane, NoLeakedLease
<1>5. WaitsAreOwn'
  <2>1. \A q \in Requests : wait'[q] # None =>
           req'[q].pc = "chunk" /\ wait'[q].hash = Chunk(q)'
    BY <1>0, <1>1, <1>2 DEF Sane, WaitsAreOwn, Chunk, Target
  <2>2. \A j \in Keys : wait'[j] # None =>
           /\ load'[j] # None /\ wait'[j].hash = j[1] /\ \A p \in holders' : p[1] # j
    BY <1>0, <1>1, <1>2, Kinds DEF Sane, WaitsAreOwn
  <2> QED BY <2>1, <2>2 DEF WaitsAreOwn
<1>6. PlacesAreSound'
  BY <1>0, <1>1, <1>2 DEF Sane, PlacesAreSound, Target
<1>7. NobodyWaitsInVain'
  <2>1. \A c \in Callers : wait'[c] # None =>
           (wait'[c].stage = "pending" => flight'[wait'[c].hash] # None)
    BY <1>0, <1>1, <1>2 DEF Sane, NobodyWaitsInVain
  <2>2. \A j \in Keys : load'[j] # None => wait'[j] # None \/ Held(j, j[1])'
    BY <1>0, <1>1, <1>2, Kinds DEF Sane, NobodyWaitsInVain, Held
  <2> QED BY <1>0, <1>1, <2>1, <2>2
          DEF Sane, NobodyWaitsInVain, Held, Chunk, Target, KeyOf
<1>8. LoadsObeyTheCache'
  BY <1>0, <1>1, <1>2, Kinds DEF Sane, LoadsObeyTheCache
<1>9. BaseIsHeld'
  BY <1>0, <1>1, <1>2, Kinds, BaseKept DEF Sane
<1> QED BY <1>3, <1>4, <1>5, <1>6, <1>7, <1>8, <1>9 DEF Sane

\* A load ends: whoever joined it goes on, the others are left alone.
LEMMA LoadEnds ==
  ASSUME Typed, Sane, UNCHANGED <<flight, stored, quarantined, base, aborted, expired, closed>>,
         NEW k \in Keys, load' = [load EXCEPT ![k] = None],
         wait' = [wait EXCEPT ![k] = None],
         holders' = {p \in holders : p[1] # k},
         req' \in [Requests -> Position],
         \A r \in Requests :
            IF r \in Waiters(k)
            THEN /\ req'[r].ask = req[r].ask /\ req'[r].pc \in {"chunk", "failed"}
                 /\ req'[r].pc = "chunk" => req'[r].index > 0
            ELSE req'[r] = req[r]
  PROVE  Typed' /\ Sane'
<1>1. /\ k \in Callers /\ k \notin Requests
      /\ \A q \in Requests : wait'[q] = wait[q]
      /\ \A d \in Callers \ {k} : wait'[d] = wait[d]
      /\ wait'[k] = None /\ load'[k] = None
      /\ \A j \in Keys \ {k} : load'[j] = load[j]
  BY Kinds DEF Typed
<1>2. Typed'
  BY DEF Typed
<1>3. \A q \in Requests : \/ req'[q] = req[q] /\ ~(req[q].pc = "manifest" /\ KeyOf(q) = k)
                          \/ /\ req[q].pc = "manifest" /\ wait[q] = None
                             /\ req'[q].ask = req[q].ask /\ req'[q].pc \in {"chunk", "failed"}
                             /\ req'[q].pc = "chunk" => req'[q].index > 0
  BY IdleBeforeManifest DEF Waiters
<1>4. \A q \in Requests : KeyOf(q)' = KeyOf(q) /\ Target(q)' = Target(q) /\ KeyOf(q) \in Keys
  BY <1>3, Asked DEF KeyOf, Target
<1>5. NoLeakedLease'
  <2> SUFFICES ASSUME NEW p \in holders, p[1] # k
               PROVE  /\ p[1] \in Requests => req'[p[1]].pc = "stream"
                      /\ p[1] \in Keys => load'[p[1]] # None
                      /\ p[1] = Scheduler => base'.index > 0
    BY DEF NoLeakedLease
  <2> QED BY <1>1, <1>3 DEF Sane, NoLeakedLease
<1>6. WaitsAreOwn'
  <2>1. \A q \in Requests : wait'[q] # None =>
           req'[q].pc = "chunk" /\ wait'[q].hash = Chunk(q)'
    BY <1>1, <1>3 DEF Sane, WaitsAreOwn, Chunk, Target
  <2>2. \A j \in Keys : wait'[j] # None =>
           /\ load'[j] # None /\ wait'[j].hash = j[1] /\ \A p \in holders' : p[1] # j
    BY <1>1, Kinds DEF Sane, WaitsAreOwn
  <2> QED BY <2>1, <2>2 DEF WaitsAreOwn
<1>7. PlacesAreSound'
  BY <1>1, <1>3, <1>4 DEF Sane, PlacesAreSound
<1>8. NobodyWaitsInVain'
  <2>1. \A c \in Callers : wait'[c] # None =>
           (wait'[c].stage = "pending" => flight'[wait'[c].hash] # None)
    BY <1>1 DEF Sane, NobodyWaitsInVain
  <2>2. \A j \in Keys : load'[j] # None => wait'[j] # None \/ Held(j, j[1])'
    BY <1>1, Kinds DEF Sane, NobodyWaitsInVain, Held
  <2>3. \A q \in Requests : req'[q].pc = "manifest" => load'[KeyOf(q)'] # None
    BY <1>1, <1>3, <1>4 DEF Sane, NobodyWaitsInVain
  <2>4. \A q \in Requests : req'[q].pc = "stream" => Held(q, Chunk(q))'
    BY <1>1, <1>3 DEF Sane, NobodyWaitsInVain, Held, Chunk, Target
  <2> QED BY <2>1, <2>2, <2>3, <2>4 DEF NobodyWaitsInVain
<1>9. LoadsObeyTheCache'
  BY <1>1, Kinds DEF Sane, LoadsObeyTheCache
<1>10. BaseIsHeld'
  BY <1>1, Kinds, BaseKept DEF Sane
<1> QED BY <1>2, <1>5, <1>6, <1>7, <1>8, <1>9, <1>10 DEF Sane

LEMMA LoadRejectedStep ==
  ASSUME Inv, NEW k \in Keys, LoadRejected(k)
  PROVE  Typed' /\ Sane'
<1>0. Typed /\ Sane
  BY InvParts
<1>1. PICK why \in Reasons :
         /\ Rejected(k, why)
         /\ req' = [r \in Requests |-> IF r \in Waiters(k) THEN Failed(req[r], why)
                                       ELSE req[r]]
  BY DEF LoadRejected
<1>2. /\ UNCHANGED <<flight, holders, stored, quarantined, base, aborted, expired, closed>>
      /\ load' = [load EXCEPT ![k] = None] /\ wait' = [wait EXCEPT ![k] = None]
      /\ wait[k] # None
  BY <1>1 DEF LoadRejected, Rejected
<1>3. holders' = {p \in holders : p[1] # k}
  BY <1>0, <1>2 DEF Sane, WaitsAreOwn
<1>4. \A r \in Requests : req[r] \in Position
  BY <1>0 DEF Typed
<1>5. \A r \in Requests :
         /\ Failed(req[r], why) \in Position /\ Failed(req[r], why).ask = req[r].ask
         /\ Failed(req[r], why).pc = "failed"
  BY <1>4, FailedIs
<1>6. req' \in [Requests -> Position]
  BY <1>1, <1>4, <1>5
<1>7. \A r \in Requests :
            IF r \in Waiters(k)
            THEN /\ req'[r].ask = req[r].ask /\ req'[r].pc \in {"chunk", "failed"}
                 /\ req'[r].pc = "chunk" => req'[r].index > 0
            ELSE req'[r] = req[r]
  BY <1>1, <1>5
<1> QED BY <1>0, <1>2, <1>3, <1>6, <1>7, LoadEnds

LEMMA LoadDecodedStep ==
  ASSUME Inv, NEW k \in Keys, LoadDecoded(k)
  PROVE  Typed' /\ Sane'
<1>0. Typed /\ Sane
  BY InvParts
<1>1. /\ UNCHANGED <<flight, wait, stored, quarantined, base, aborted, expired, closed>>
      /\ load' = [load EXCEPT ![k] = None] /\ Held(k, k[1])
      /\ holders' = {p \in holders : p[1] # k}
      /\ \/ req' = [r \in Requests |-> IF r \in Waiters(k) THEN MovedTo(req[r], "chunk", 1)
                                       ELSE req[r]]
         \/ req' = [r \in Requests |-> IF r \in Waiters(k) THEN Failed(req[r], "decode")
                                       ELSE req[r]]
  BY DEF LoadDecoded, Dispose, MovedTo
<1>2. wait[k] = None
  <2>1. <<k, k[1]>> \in holders /\ <<k, k[1]>>[1] = k
    BY <1>1 DEF Held
  <2> QED BY <1>0, <2>1 DEF Sane, WaitsAreOwn
<1>3. wait' = [wait EXCEPT ![k] = None]
  BY <1>0, <1>1, <1>2, Kinds DEF Typed
<1>4. \A r \in Requests : req[r] \in Position
  BY <1>0 DEF Typed
<1>5. \A r \in Requests :
         /\ Failed(req[r], "decode") \in Position /\ Failed(req[r], "decode").ask = req[r].ask
         /\ Failed(req[r], "decode").pc = "failed"
  <2>1. "decode" \in Reasons
    BY DEF Reasons
  <2> QED BY <1>4, <2>1, FailedIs, Zenon
<1>6. \A r \in Requests :
         /\ MovedTo(req[r], "chunk", 1) \in Position /\ MovedTo(req[r], "chunk", 1).ask = req[r].ask
         /\ MovedTo(req[r], "chunk", 1).pc = "chunk" /\ MovedTo(req[r], "chunk", 1).index > 0
  BY <1>4, Instances
<1>7. req' \in [Requests -> Position]
  BY <1>1, <1>4, <1>5, <1>6
<1>8. \A r \in Requests :
            IF r \in Waiters(k)
            THEN /\ req'[r].ask = req[r].ask /\ req'[r].pc \in {"chunk", "failed"}
                 /\ req'[r].pc = "chunk" => req'[r].index > 0
            ELSE req'[r] = req[r]
  BY <1>1, <1>5, <1>6
<1> QED BY <1>0, <1>1, <1>3, <1>7, <1>8, LoadEnds

-----------------------------------------------------------------------------
(* The chunks. *)

\* The request gets the lease of the chunk it asked for.
LEMMA ChunkArrives ==
  ASSUME Typed, Sane, UNCHANGED <<load, flight, base, aborted, closed>>,
         NEW r \in Requests, req[r].pc = "chunk",
         req[r].index \in 1..Len(Body[Target(r)]),
         req' = [req EXCEPT ![r] = Moved(req[r], "stream")],
         wait' = [wait EXCEPT ![r] = None],
         holders' = holders \cup {<<r, Chunk(r)>>}
  PROVE  /\ req' \in [Requests -> Position] /\ wait' \in [Callers -> Wait \cup {None}]
         /\ holders' \subseteq Callers \X Blobs /\ Sane'
<1>1. req[r] \in Position /\ "stream" \in Points /\ 0 \in Nat
  BY DEF Typed, Points
<1>2. /\ Moved(req[r], "stream") \in Position /\ Moved(req[r], "stream").ask = req[r].ask
      /\ Moved(req[r], "stream").pc = "stream"
      /\ Moved(req[r], "stream").index = req[r].index
  BY <1>1, MovedIs, Zenon
<1>3. /\ req' \in [Requests -> Position]
      /\ req'[r].pc = "stream" /\ req'[r].index = req[r].index /\ req'[r].ask = req[r].ask
      /\ \A q \in Requests \ {r} : req'[q] = req[q]
  BY <1>2 DEF Typed
<1>4. \A q \in Requests : Target(q)' = Target(q) /\ KeyOf(q)' = KeyOf(q) /\ Chunk(q)' = Chunk(q)
  BY <1>3 DEF Target, KeyOf, Chunk
<1>5. /\ wait' \in [Callers -> Wait \cup {None}] /\ wait'[r] = None
      /\ \A c \in Callers \ {r} : wait'[c] = wait[c]
      /\ \A k \in Keys : wait'[k] = wait[k]
  BY Kinds DEF Typed
<1>6. r \in Callers /\ r \notin Keys /\ Chunk(r) \in Blobs
  BY Asked, Kinds
<1>7. holders' \subseteq Callers \X Blobs
  BY <1>6 DEF Typed
<1>8. NoLeakedLease'
  BY <1>3, <1>6, Kinds DEF Sane, NoLeakedLease
<1>9. WaitsAreOwn'
  <2>1. \A q \in Requests : wait'[q] # None =>
           req'[q].pc = "chunk" /\ wait'[q].hash = Chunk(q)'
    BY <1>3, <1>4, <1>5, Kinds DEF Sane, WaitsAreOwn
  <2>2. \A j \in Keys : wait'[j] # None =>
           /\ load'[j] # None /\ wait'[j].hash = j[1] /\ \A p \in holders' : p[1] # j
    BY <1>5, <1>6 DEF Sane, WaitsAreOwn
  <2> QED BY <2>1, <2>2 DEF WaitsAreOwn
<1>10. PlacesAreSound'
  BY <1>3, <1>4, <1>5, Kinds DEF Sane, PlacesAreSound
<1>11. NobodyWaitsInVain'
  <2>1. \A c \in Callers : wait'[c] # None =>
           (wait'[c].stage = "pending" => flight'[wait'[c].hash] # None)
    BY <1>5 DEF Sane, NobodyWaitsInVain
  <2>2. \A j \in Keys : load'[j] # None => wait'[j] # None \/ Held(j, j[1])'
    BY <1>5 DEF Sane, NobodyWaitsInVain, Held
  <2>3. \A q \in Requests : req'[q].pc = "manifest" => load'[KeyOf(q)'] # None
    BY <1>3, <1>4 DEF Sane, NobodyWaitsInVain
  <2>4. \A q \in Requests : req'[q].pc = "stream" => Held(q, Chunk(q))'
    BY <1>3, <1>4 DEF Sane, NobodyWaitsInVain, Held
  <2> QED BY <2>1, <2>2, <2>3, <2>4 DEF NobodyWaitsInVain
<1>12. LoadsObeyTheCache'
  BY <1>5 DEF Sane, LoadsObeyTheCache
<1>13. BaseIsHeld'
  BY <1>5, Kinds, BaseKept DEF Sane
<1> QED BY <1>3, <1>5, <1>7, <1>8, <1>9, <1>10, <1>11, <1>12, <1>13 DEF Sane

\* A wait for a chunk, or a lease of one, ends with the request moving on.
LEMMA ChunkEnds ==
  ASSUME Typed, Sane, UNCHANGED <<load, flight, base, aborted, closed>>,
         NEW r \in Requests, req[r].pc \in {"chunk", "stream"},
         NEW x \in Position, req' = [req EXCEPT ![r] = x], x.ask = req[r].ask,
         x.pc \in {"chunk", "failed"}, x.pc = "chunk" => x.index > 0,
         wait' = [wait EXCEPT ![r] = None],
         holders' = {p \in holders : p[1] # r}
  PROVE  /\ req' \in [Requests -> Position] /\ wait' \in [Callers -> Wait \cup {None}]
         /\ holders' \subseteq Callers \X Blobs /\ Sane'
<1>1. /\ req' \in [Requests -> Position] /\ req'[r] = x
      /\ \A q \in Requests \ {r} : req'[q] = req[q]
  BY DEF Typed
<1>2. \A q \in Requests : Target(q)' = Target(q) /\ KeyOf(q)' = KeyOf(q)
  BY <1>1 DEF Target, KeyOf
<1>3. \A q \in Requests \ {r} : Chunk(q)' = Chunk(q)
  BY <1>1 DEF Target, Chunk
<1>4. /\ wait' \in [Callers -> Wait \cup {None}] /\ wait'[r] = None
      /\ \A c \in Callers \ {r} : wait'[c] = wait[c]
      /\ \A k \in Keys : wait'[k] = wait[k]
  BY Kinds DEF Typed
<1>5. holders' \subseteq Callers \X Blobs
  BY DEF Typed
<1>6. NoLeakedLease'
  BY <1>1 DEF Sane, NoLeakedLease
<1>7. WaitsAreOwn'
  <2>1. \A q \in Requests : wait'[q] # None =>
           req'[q].pc = "chunk" /\ wait'[q].hash = Chunk(q)'
    BY <1>1, <1>3, <1>4, Kinds DEF Sane, WaitsAreOwn
  <2>2. \A j \in Keys : wait'[j] # None =>
           /\ load'[j] # None /\ wait'[j].hash = j[1] /\ \A p \in holders' : p[1] # j
    BY <1>4 DEF Sane, WaitsAreOwn
  <2> QED BY <2>1, <2>2 DEF WaitsAreOwn
<1>8. PlacesAreSound'
  BY <1>1, <1>2, <1>4, Kinds DEF Sane, PlacesAreSound
<1>9. NobodyWaitsInVain'
  <2>1. \A c \in Callers : wait'[c] # None =>
           (wait'[c].stage = "pending" => flight'[wait'[c].hash] # None)
    BY <1>4 DEF Sane, NobodyWaitsInVain
  <2>2. \A j \in Keys : load'[j] # None => wait'[j] # None \/ Held(j, j[1])'
    BY <1>4, Kinds DEF Sane, NobodyWaitsInVain, Held
  <2>3. \A q \in Requests : req'[q].pc = "manifest" => load'[KeyOf(q)'] # None
    BY <1>1, <1>2 DEF Sane, NobodyWaitsInVain
  <2>4. \A q \in Requests : req'[q].pc = "stream" => Held(q, Chunk(q))'
    BY <1>1, <1>3 DEF Sane, NobodyWaitsInVain, Held
  <2> QED BY <2>1, <2>2, <2>3, <2>4 DEF NobodyWaitsInVain
<1>10. LoadsObeyTheCache'
  BY <1>4 DEF Sane, LoadsObeyTheCache
<1>11. BaseIsHeld'
  BY <1>4, Kinds, BaseKept DEF Sane
<1> QED BY <1>1, <1>4, <1>5, <1>6, <1>7, <1>8, <1>9, <1>10, <1>11 DEF Sane

\* The request asks for its next chunk and has to wait.
LEMMA ChunkMissed ==
  ASSUME Typed, Sane, UNCHANGED <<load, req, base, aborted, closed>>,
         NEW r \in Requests, req[r].pc = "chunk", wait[r] = None,
         req[r].index \in 1..Len(Body[Target(r)]),
         FetchMiss(r, Chunk(r), PlanOf(r), r, r)
  PROVE  /\ flight' \in [Blobs -> Flight \cup {None}]
         /\ wait' \in [Callers -> Wait \cup {None}]
         /\ UNCHANGED <<holders, stored, quarantined>> /\ Sane'
<1> DEFINE h == Chunk(r)
<1>1. r \in Callers /\ r \notin Keys /\ h \in Blobs /\ h \notin Manifests
      /\ PlanOf(r) \in Seq(Sources)
  BY Asked, Kinds
<1> HIDE DEF h
<1>2. FetchMiss(r, h, PlanOf(r), r, r)
  BY DEF h
<1>3. /\ flight' \in [Blobs -> Flight \cup {None}]
      /\ wait' \in [Callers -> Wait \cup {None}]
      /\ UNCHANGED <<holders, stored, quarantined>>
      /\ \A g \in Blobs : flight[g] # None => flight'[g] = flight[g]
      /\ \A g \in Blobs \ {h} : flight'[g] = flight[g]
      /\ flight'[h] # None
      /\ wait'[r] # None /\ wait'[r].hash = h /\ wait'[r].why = ""
      /\ wait'[r].stage = "pending"
      /\ \A d \in Callers \ {r} : wait'[d] = wait[d]
  <2>1. r \in Readers \cup {None} /\ r \in Readers
    BY Kinds
  <2> QED BY <1>1, <1>2, <2>1, JoinsFlight
<1>4. \A k \in Keys : wait'[k] = wait[k]
  BY <1>1, <1>3, Kinds
<1>5. \A q \in Requests \ {r} : wait'[q] = wait[q]
  BY <1>3, Kinds
<1>6. \A q \in Requests : Target(q)' = Target(q) /\ KeyOf(q)' = KeyOf(q) /\ Chunk(q)' = Chunk(q)
  BY DEF Target, KeyOf, Chunk
<1>7. NoLeakedLease'
  BY <1>3 DEF Sane, NoLeakedLease
<1>8. WaitsAreOwn'
  <2>1. \A q \in Requests : wait'[q] # None =>
           req'[q].pc = "chunk" /\ wait'[q].hash = Chunk(q)'
    BY <1>3, <1>5, <1>6, ZenonT(40) DEF Sane, WaitsAreOwn, h
  <2>2. \A j \in Keys : wait'[j] # None =>
           /\ load'[j] # None /\ wait'[j].hash = j[1] /\ \A p \in holders' : p[1] # j
    BY <1>3, <1>4, ZenonT(40) DEF Sane, WaitsAreOwn
  <2> QED BY <2>1, <2>2 DEF WaitsAreOwn
<1>9. PlacesAreSound'
  <2>1. req[r].index > 0 /\ req[r].index <= Len(Body[Target(r)])
    BY Asked
  <2> QED BY <1>3, <1>5, <1>6, <2>1 DEF Sane, PlacesAreSound
<1>10. NobodyWaitsInVain'
  <2>1. ASSUME NEW c \in Callers, wait'[c] # None, wait'[c].stage = "pending"
        PROVE  flight'[wait'[c].hash] # None
    <3>1. CASE c = r
      BY <1>3, <3>1
    <3>2. CASE c # r
      <4>1. wait'[c] = wait[c] /\ wait[c] \in Wait
        BY <1>3, <2>1, <3>2 DEF Typed
      <4>2. flight[wait[c].hash] # None /\ wait[c].hash \in Blobs
        BY <2>1, <4>1 DEF Sane, NobodyWaitsInVain, Wait
      <4> QED BY <1>3, <4>1, <4>2
    <3> QED BY <3>1, <3>2
  <2>2. \A j \in Keys : load'[j] # None => wait'[j] # None \/ Held(j, j[1])'
    BY <1>3, <1>4 DEF Sane, NobodyWaitsInVain, Held
  <2> QED BY <1>3, <1>6, <2>1, <2>2 DEF Sane, NobodyWaitsInVain, Held
<1>11. LoadsObeyTheCache'
  <2>1. \A m \in Manifests : flight'[m] = flight[m]
    BY <1>1, <1>3, Kinds
  <2> QED BY <1>4, <2>1 DEF Sane, LoadsObeyTheCache
<1>12. BaseIsHeld'
  BY <1>3, Kinds, BaseKept DEF Sane
<1> QED BY <1>3, <1>7, <1>8, <1>9, <1>10, <1>11, <1>12 DEF Sane

LEMMA ChunkStep ==
  ASSUME Inv, NEW r \in Requests,
         ChunkFetch(r) \/ ChunkFetched(r) \/ ChunkRejected(r) \/ ChunkStreamed(r)
  PROVE  Typed' /\ Sane'
<1>0. Typed /\ Sane /\ req[r] \in Position /\ r \in Callers
  BY InvParts, Kinds DEF Typed
<1>1. /\ req[r].index \in Nat /\ Len(Body[Target(r)]) \in Nat
      /\ \A i \in Nat : i > 0 /\ i <= Len(Body[Target(r)]) => i \in 1..Len(Body[Target(r)])
  BY <1>0, Asked
<1>2. \A p \in holders : p[1] = r => req[r].pc = "stream"
  BY <1>0 DEF Sane, NoLeakedLease
<1> USE DEF shared, fetcher
<1>3. CASE ChunkFetch(r)
  <2>1. /\ UNCHANGED <<load, base, aborted, expired, closed>>
        /\ req[r].pc = "chunk" /\ wait[r] = None
        /\ req[r].index <= Len(Body[Target(r)])
        /\ \/ FetchHit(r, Chunk(r)) /\ req' = [req EXCEPT ![r] = Moved(req[r], "stream")]
           \/ FetchMiss(r, Chunk(r), PlanOf(r), r, r) /\ UNCHANGED req
    BY <1>3 DEF ChunkFetch, Moved
  <2>2. req[r].index \in 1..Len(Body[Target(r)])
    BY <1>0, <1>1, <2>1 DEF Sane, PlacesAreSound
  <2>3. CASE FetchHit(r, Chunk(r)) /\ req' = [req EXCEPT ![r] = Moved(req[r], "stream")]
    <3>1. UNCHANGED <<flight, wait, stored, quarantined>>
          /\ holders' = holders \cup {<<r, Chunk(r)>>}
      BY <2>3 DEF FetchHit
    <3>2. wait' = [wait EXCEPT ![r] = None]
      BY <1>0, <2>1, <3>1 DEF Typed
    <3>3. /\ req' \in [Requests -> Position] /\ wait' \in [Callers -> Wait \cup {None}]
          /\ holders' \subseteq Callers \X Blobs /\ Sane'
      BY <1>0, <2>1, <2>2, <2>3, <3>1, <3>2, ChunkArrives
    <3> QED BY <1>0, <2>1, <3>1, <3>3 DEF Typed
  <2>4. CASE FetchMiss(r, Chunk(r), PlanOf(r), r, r) /\ UNCHANGED req
    <3>1. /\ flight' \in [Blobs -> Flight \cup {None}]
          /\ wait' \in [Callers -> Wait \cup {None}]
          /\ UNCHANGED <<holders, stored, quarantined>> /\ Sane'
      BY <1>0, <2>1, <2>2, <2>4, ChunkMissed
    <3> QED BY <1>0, <2>1, <2>4, <3>1 DEF Typed
  <2> QED BY <2>1, <2>3, <2>4
<1>4. CASE ChunkFetched(r)
  <2>1. /\ UNCHANGED <<load, flight, stored, quarantined, base, aborted, expired, closed>>
        /\ wait[r] # None /\ wait' = [wait EXCEPT ![r] = None]
        /\ holders' = holders \cup {<<r, wait[r].hash>>}
        /\ req' = [req EXCEPT ![r] = Moved(req[r], "stream")]
    BY <1>4 DEF ChunkFetched, Resolved, Moved
  <2>2. req[r].pc = "chunk" /\ wait[r].hash = Chunk(r)
    BY <1>0, <2>1 DEF Sane, WaitsAreOwn
  <2>3. req[r].index \in 1..Len(Body[Target(r)])
    BY <1>0, <1>1, <2>1, <2>2 DEF Sane, PlacesAreSound
  <2>4. /\ req' \in [Requests -> Position] /\ wait' \in [Callers -> Wait \cup {None}]
        /\ holders' \subseteq Callers \X Blobs /\ Sane'
    BY <1>0, <2>1, <2>2, <2>3, ChunkArrives
  <2> QED BY <1>0, <2>1, <2>4 DEF Typed
<1>5. CASE ChunkRejected(r)
  <2>1. PICK why \in Reasons : Rejected(r, why) /\ req' = [req EXCEPT ![r] = Failed(req[r], why)]
    BY <1>5 DEF ChunkRejected
  <2>2. /\ UNCHANGED <<load, flight, holders, stored, quarantined, base, aborted, expired, closed>>
        /\ wait[r] # None /\ wait' = [wait EXCEPT ![r] = None]
    BY <1>5, <2>1 DEF ChunkRejected, Rejected
  <2>3. req[r].pc = "chunk"
    BY <1>0, <2>2 DEF Sane, WaitsAreOwn
  <2>4. holders' = {p \in holders : p[1] # r}
    BY <1>2, <2>2, <2>3
  <2> DEFINE x == Failed(req[r], why)
  <2>5. x \in Position /\ x.ask = req[r].ask /\ x.pc = "failed"
    BY <1>0, FailedIs
  <2>6. req' = [req EXCEPT ![r] = x]
    BY <2>1
  <2> HIDE DEF x
  <2>7. /\ req' \in [Requests -> Position] /\ wait' \in [Callers -> Wait \cup {None}]
        /\ holders' \subseteq Callers \X Blobs /\ Sane'
    BY <1>0, <2>2, <2>3, <2>4, <2>5, <2>6, ChunkEnds
  <2> QED BY <1>0, <2>2, <2>7 DEF Typed
<1>6. CASE ChunkStreamed(r)
  <2>1. /\ UNCHANGED <<load, flight, wait, stored, quarantined, base, aborted, expired, closed>>
        /\ req[r].pc = "stream" /\ holders' = {p \in holders : p[1] # r}
        /\ \/ req' = [req EXCEPT ![r] = MovedTo(req[r], "chunk", req[r].index + 1)]
           \/ req' = [req EXCEPT ![r] = Failed(req[r], "abort")]
           \/ req' = [req EXCEPT ![r] = Failed(req[r], "budget")]
    BY <1>6 DEF ChunkStreamed, Dispose, MovedTo
  <2>2. wait[r] = None
    BY <1>0, <2>1 DEF Sane, WaitsAreOwn
  <2>3. wait' = [wait EXCEPT ![r] = None]
    BY <1>0, <2>1, <2>2 DEF Typed
  <2>4. PICK x \in Position :
           /\ req' = [req EXCEPT ![r] = x] /\ x.ask = req[r].ask
           /\ x.pc \in {"chunk", "failed"} /\ (x.pc = "chunk" => x.index > 0)
    <3>1. "abort" \in Reasons /\ "budget" \in Reasons /\ "chunk" \in Points
      BY DEF Reasons, Points
    <3>2. \A w \in {"abort", "budget"} :
             /\ Failed(req[r], w) \in Position /\ Failed(req[r], w).ask = req[r].ask
             /\ Failed(req[r], w).pc = "failed"
      BY <1>0, <3>1, FailedIs
    <3>3. CASE req' = [req EXCEPT ![r] = Failed(req[r], "abort")]
      BY <3>2, <3>3
    <3>4. CASE req' = [req EXCEPT ![r] = Failed(req[r], "budget")]
      BY <3>2, <3>4
    <3>5. CASE req' = [req EXCEPT ![r] = MovedTo(req[r], "chunk", req[r].index + 1)]
      <4> DEFINE i == req[r].index + 1
      <4>1. i \in Nat /\ i > 0
        BY <1>1
      <4> HIDE DEF i
      <4>2. /\ MovedTo(req[r], "chunk", i) \in Position
            /\ MovedTo(req[r], "chunk", i).ask = req[r].ask
            /\ MovedTo(req[r], "chunk", i).pc = "chunk"
            /\ MovedTo(req[r], "chunk", i).index = i
        BY <1>0, <3>1, <4>1, MovedIs
      <4> QED BY <3>5, <4>1, <4>2 DEF i
    <3> QED BY <2>1, <3>3, <3>4, <3>5
  <2>5. /\ req' \in [Requests -> Position] /\ wait' \in [Callers -> Wait \cup {None}]
        /\ holders' \subseteq Callers \X Blobs /\ Sane'
    BY <1>0, <2>1, <2>3, <2>4, ChunkEnds
  <2> QED BY <1>0, <2>1, <2>5 DEF Typed
<1> QED BY <1>3, <1>4, <1>5, <1>6

-----------------------------------------------------------------------------
(* The base of a build. *)

LEMMA BaseItem ==
  ASSUME Typed, base.ask # None, base.index <= Whole
  PROVE  /\ Item(base.index) \in Blobs /\ base.ask[2] \in Seq(Sources)
         /\ base.index \in Nat
<1>1. base.ask \in Keys /\ base.index \in Nat
  BY DEF Typed, Base
<1>2. base.ask[1] \in Manifests /\ base.ask[2] \in Seq(Sources)
  BY <1>1, Kinds
<1>3. Body[base.ask[1]] \in Seq(Chunks)
  BY <1>2, ReadAssumption
<1>4. CASE base.index = 0
  BY <1>1, <1>2, <1>4, Kinds DEF Item
<1>5. CASE base.index # 0
  <2>1. base.index \in 1..Len(Body[base.ask[1]])
    BY <1>1, <1>3, <1>5 DEF Whole
  <2>2. Body[base.ask[1]][base.index] \in Chunks
    BY <1>3, <2>1
  <2> QED BY <1>1, <1>2, <1>5, <2>2, Kinds DEF Item
<1> QED BY <1>4, <1>5

LEMMA BaseIs ==
  ASSUME NEW b \in Base, NEW i \in Nat
  PROVE  /\ [b EXCEPT !.index = i] \in Base
         /\ [b EXCEPT !.index = i].ask = b.ask /\ [b EXCEPT !.index = i].index = i
BY DEF Base

\* Whatever the scheduler does with its wait and its blobs, the requests and
\* the loads keep theirs.
LEMMA OthersKept ==
  ASSUME Typed, Sane, UNCHANGED <<load, req>>,
         \A c \in Callers \ {Scheduler} : wait'[c] = wait[c],
         {p \in holders' : p[1] # Scheduler} = {p \in holders : p[1] # Scheduler}
  PROVE  /\ WaitsAreOwn' /\ PlacesAreSound'
         /\ \A r \in Requests : req'[r].pc = "manifest" => load'[KeyOf(r)'] # None
         /\ \A k \in Keys : load'[k] # None => wait'[k] # None \/ Held(k, k[1])'
         /\ \A r \in Requests : req'[r].pc = "stream" => Held(r, Chunk(r))'
         /\ \A p \in holders' : /\ p[1] \in Requests => req'[p[1]].pc = "stream"
                                /\ p[1] \in Keys => load'[p[1]] # None
<1>1. /\ \A r \in Requests : wait'[r] = wait[r]
      /\ \A k \in Keys : wait'[k] = wait[k]
  BY Kinds
<1>2. \A r \in Requests : Target(r)' = Target(r) /\ KeyOf(r)' = KeyOf(r) /\ Chunk(r)' = Chunk(r)
  BY DEF Target, KeyOf, Chunk
<1>3. \A c, h : c # Scheduler => (<<c, h>> \in holders' <=> <<c, h>> \in holders)
  <2> TAKE c, h
  <2>1. <<c, h>>[1] = c
    OBVIOUS
  <2> QED BY <2>1
<1>4. \A p \in holders' : p[1] # Scheduler => p \in holders
  OBVIOUS
<1>5. WaitsAreOwn'
  <2>1. \A q \in Requests : wait'[q] # None =>
           req'[q].pc = "chunk" /\ wait'[q].hash = Chunk(q)'
    BY <1>1, <1>2 DEF Sane, WaitsAreOwn
  <2>2. \A j \in Keys : wait'[j] # None =>
           /\ load'[j] # None /\ wait'[j].hash = j[1] /\ \A p \in holders' : p[1] # j
    BY <1>1, <1>4, Kinds DEF Sane, WaitsAreOwn
  <2> QED BY <2>1, <2>2 DEF WaitsAreOwn
<1>6. PlacesAreSound'
  BY <1>1, <1>2 DEF Sane, PlacesAreSound
<1>7. \A r \in Requests : req'[r].pc = "manifest" => load'[KeyOf(r)'] # None
  BY <1>2 DEF Sane, NobodyWaitsInVain
<1>8. \A k \in Keys : load'[k] # None => wait'[k] # None \/ Held(k, k[1])'
  BY <1>1, <1>3, Kinds DEF Sane, NobodyWaitsInVain, Held
<1>9. \A r \in Requests : req'[r].pc = "stream" => Held(r, Chunk(r))'
  BY <1>2, <1>3, Kinds DEF Sane, NobodyWaitsInVain, Held
<1>10. \A p \in holders' : /\ p[1] \in Requests => req'[p[1]].pc = "stream"
                           /\ p[1] \in Keys => load'[p[1]] # None
  BY <1>4, Kinds DEF Sane, NoLeakedLease
<1> QED BY <1>5, <1>6, <1>7, <1>8, <1>9, <1>10

\* The scheduler gets the lease of the item it asked for.
LEMMA BaseArrives ==
  ASSUME Typed, Sane, UNCHANGED <<load, flight, req, aborted, closed>>,
         base.ask # None, base.index <= Whole,
         base' = [base EXCEPT !.index = base.index + 1],
         wait' = [wait EXCEPT ![Scheduler] = None],
         holders' = holders \cup {<<Scheduler, Item(base.index)>>}
  PROVE  /\ base' \in Base /\ wait' \in [Callers -> Wait \cup {None}]
         /\ holders' \subseteq Callers \X Blobs /\ Sane'
<1>1. Item(base.index) \in Blobs /\ base.index \in Nat /\ base \in Base
  BY BaseItem DEF Typed
<1>2. base' \in Base /\ base'.ask = base.ask /\ base'.index = base.index + 1
  BY <1>1, BaseIs
<1>3. /\ wait' \in [Callers -> Wait \cup {None}] /\ wait'[Scheduler] = None
      /\ \A c \in Callers \ {Scheduler} : wait'[c] = wait[c]
  BY Kinds DEF Typed
<1>4. holders' \subseteq Callers \X Blobs
  BY <1>1, Kinds DEF Typed
<1>5. {p \in holders' : p[1] # Scheduler} = {p \in holders : p[1] # Scheduler}
  OBVIOUS
<1>6. /\ WaitsAreOwn' /\ PlacesAreSound'
      /\ \A r \in Requests : req'[r].pc = "manifest" => load'[KeyOf(r)'] # None
      /\ \A k \in Keys : load'[k] # None => wait'[k] # None \/ Held(k, k[1])'
      /\ \A r \in Requests : req'[r].pc = "stream" => Held(r, Chunk(r))'
      /\ \A p \in holders' : /\ p[1] \in Requests => req'[p[1]].pc = "stream"
                             /\ p[1] \in Keys => load'[p[1]] # None
  BY <1>3, <1>5, OthersKept
<1>7. NoLeakedLease'
  <2>1. base'.index > 0
    BY <1>1, <1>2
  <2> QED BY <1>6, <2>1 DEF NoLeakedLease
<1>8. NobodyWaitsInVain'
  <2>1. \A c \in Callers : wait'[c] # None =>
           (wait'[c].stage = "pending" => flight'[wait'[c].hash] # None)
    BY <1>3 DEF Sane, NobodyWaitsInVain
  <2> QED BY <1>6, <2>1 DEF NobodyWaitsInVain
<1>9. BaseIsHeld'
  <2>1. \A i : Item(i)' = Item(i)
    BY <1>2 DEF Item
  <2>2. \A i \in 0..(base'.index - 1) : i = base.index \/ i \in 0..(base.index - 1)
    BY <1>1, <1>2
  <2>3. \A i \in 0..(base'.index - 1) : Held(Scheduler, Item(i))'
    BY <2>1, <2>2 DEF Held, Sane, BaseIsHeld
  <2> QED BY <1>3, <2>3 DEF BaseIsHeld, BaseAwaits
<1>10. LoadsObeyTheCache'
  BY <1>3, Kinds DEF Sane, LoadsObeyTheCache
<1> QED BY <1>2, <1>3, <1>4, <1>6, <1>7, <1>8, <1>9, <1>10 DEF Sane

\* The scheduler asks for the next item and has to wait.
LEMMA BaseMissed ==
  ASSUME Typed, Sane, UNCHANGED <<load, req, base, aborted, closed>>,
         base.ask # None, wait[Scheduler] = None, base.index <= Whole,
         FetchMiss(Scheduler, Item(base.index), base.ask[2], Scheduler, Scheduler)
  PROVE  /\ flight' \in [Blobs -> Flight \cup {None}]
         /\ wait' \in [Callers -> Wait \cup {None}]
         /\ UNCHANGED <<holders, stored, quarantined>> /\ Sane'
<1> DEFINE h == Item(base.index)
<1>1. h \in Blobs /\ base.ask[2] \in Seq(Sources)
  BY BaseItem
<1> HIDE DEF h
<1>2. FetchMiss(Scheduler, h, base.ask[2], Scheduler, Scheduler)
  BY DEF h
<1>3. /\ flight' \in [Blobs -> Flight \cup {None}]
      /\ wait' \in [Callers -> Wait \cup {None}]
      /\ UNCHANGED <<holders, stored, quarantined>>
      /\ \A g \in Blobs : flight[g] # None => flight'[g] = flight[g]
      /\ \A g \in Blobs \ {h} : flight'[g] = flight[g]
      /\ flight'[h] # None
      /\ flight[h] = None => flight'[h].signal = Scheduler
      /\ wait'[Scheduler] # None /\ wait'[Scheduler].hash = h
      /\ wait'[Scheduler].stage = "pending"
      /\ \A d \in Callers \ {Scheduler} : wait'[d] = wait[d]
  <2>1. Scheduler \in Readers \cup {None} /\ Scheduler \in Readers /\ Scheduler \in Callers
    BY Kinds
  <2> QED BY <1>1, <1>2, <2>1, JoinsFlight
<1>4. /\ WaitsAreOwn' /\ PlacesAreSound'
      /\ \A r \in Requests : req'[r].pc = "manifest" => load'[KeyOf(r)'] # None
      /\ \A k \in Keys : load'[k] # None => wait'[k] # None \/ Held(k, k[1])'
      /\ \A r \in Requests : req'[r].pc = "stream" => Held(r, Chunk(r))'
  BY <1>3, OthersKept
<1>5. NoLeakedLease'
  BY <1>3 DEF Sane, NoLeakedLease
<1>6. NobodyWaitsInVain'
  <2>1. ASSUME NEW c \in Callers, wait'[c] # None, wait'[c].stage = "pending"
        PROVE  flight'[wait'[c].hash] # None
    <3>1. CASE c = Scheduler
      BY <1>3, <3>1
    <3>2. CASE c # Scheduler
      <4>1. wait'[c] = wait[c] /\ wait[c] \in Wait
        BY <1>3, <2>1, <3>2 DEF Typed
      <4>2. flight[wait[c].hash] # None /\ wait[c].hash \in Blobs
        BY <2>1, <4>1 DEF Sane, NobodyWaitsInVain, Wait
      <4> QED BY <1>3, <4>1, <4>2
    <3> QED BY <3>1, <3>2
  <2> QED BY <1>4, <2>1 DEF NobodyWaitsInVain
<1>7. BaseIsHeld'
  <2>1. (\A i : Item(i)' = Item(i)) /\ Whole' = Whole
    BY DEF Item, Whole
  <2> QED BY <1>3, <2>1 DEF Sane, BaseIsHeld, Held, h
<1>8. LoadsObeyTheCache'
  <2>1. \A m \in Manifests :
           flight'[m] # None => flight'[m].signal \in {None, Scheduler}
    BY <1>3, Kinds DEF Sane, LoadsObeyTheCache
  <2>2. \A k \in Keys : wait'[k] = wait[k]
    BY <1>3, Kinds
  <2> QED BY <2>1, <2>2 DEF Sane, LoadsObeyTheCache
<1> QED BY <1>3, <1>4, <1>5, <1>6, <1>7, <1>8 DEF Sane

\* The scheduler gives up everything it holds.
LEMMA BaseIsDisposed ==
  ASSUME Typed, Sane, BaseDisposed, wait' = [wait EXCEPT ![Scheduler] = None]
  PROVE  Typed' /\ Sane'
<1>1. /\ UNCHANGED <<load, flight, stored, quarantined, req, aborted, closed>>
      /\ holders' = {p \in holders : p[1] # Scheduler}
      /\ base' = [base EXCEPT !.index = 0] /\ expired' = expired \ {Scheduler}
  BY DEF BaseDisposed, shared
<1>2. base' \in Base /\ base'.index = 0
  <2>1. base \in Base /\ 0 \in Nat
    BY DEF Typed
  <2> QED BY <1>1, <2>1, BaseIs
<1>3. /\ wait' \in [Callers -> Wait \cup {None}] /\ wait'[Scheduler] = None
      /\ \A c \in Callers \ {Scheduler} : wait'[c] = wait[c]
  BY Kinds DEF Typed
<1>4. Typed'
  BY <1>1, <1>2, <1>3 DEF Typed
<1>5. {p \in holders' : p[1] # Scheduler} = {p \in holders : p[1] # Scheduler}
  BY <1>1
<1>6. /\ WaitsAreOwn' /\ PlacesAreSound'
      /\ \A r \in Requests : req'[r].pc = "manifest" => load'[KeyOf(r)'] # None
      /\ \A k \in Keys : load'[k] # None => wait'[k] # None \/ Held(k, k[1])'
      /\ \A r \in Requests : req'[r].pc = "stream" => Held(r, Chunk(r))'
      /\ \A p \in holders' : /\ p[1] \in Requests => req'[p[1]].pc = "stream"
                             /\ p[1] \in Keys => load'[p[1]] # None
  BY <1>1, <1>3, <1>5, OthersKept
<1>7. NoLeakedLease'
  <2>1. \A p \in holders' : p[1] # Scheduler
    BY <1>1
  <2> QED BY <1>6, <2>1 DEF NoLeakedLease
<1>8. NobodyWaitsInVain'
  <2>1. \A c \in Callers : wait'[c] # None =>
           (wait'[c].stage = "pending" => flight'[wait'[c].hash] # None)
    BY <1>1, <1>3 DEF Sane, NobodyWaitsInVain
  <2> QED BY <1>6, <2>1 DEF NobodyWaitsInVain
<1>9. BaseIsHeld'
  <2>1. 0..(base'.index - 1) = {}
    BY <1>2
  <2> QED BY <1>3, <2>1 DEF BaseIsHeld, BaseAwaits
<1>10. LoadsObeyTheCache'
  BY <1>1, <1>3, Kinds DEF Sane, LoadsObeyTheCache
<1> QED BY <1>4, <1>6, <1>7, <1>8, <1>9, <1>10 DEF Sane

LEMMA BaseStep ==
  ASSUME Inv, Materializing
  PROVE  Typed' /\ Sane'
<1>0. Typed /\ Sane
  BY InvParts
<1> USE DEF shared
<1>1. CASE BaseFetch
  <2>1. /\ UNCHANGED <<load, req, aborted, expired, closed>>
        /\ base.ask # None /\ wait[Scheduler] = None /\ base.index <= Whole
        /\ \/ /\ FetchHit(Scheduler, Item(base.index))
              /\ base' = [base EXCEPT !.index = base.index + 1]
           \/ /\ FetchMiss(Scheduler, Item(base.index), base.ask[2], Scheduler, Scheduler)
              /\ UNCHANGED base
    BY <1>1 DEF BaseFetch, BaseAwaits
  <2>2. CASE /\ FetchHit(Scheduler, Item(base.index))
             /\ base' = [base EXCEPT !.index = base.index + 1]
    <3>1. /\ UNCHANGED <<flight, wait, stored, quarantined>>
          /\ holders' = holders \cup {<<Scheduler, Item(base.index)>>}
      BY <2>2 DEF FetchHit
    <3>2. wait' = [wait EXCEPT ![Scheduler] = None]
      BY <1>0, <2>1, <3>1 DEF Typed
    <3>3. /\ base' \in Base /\ wait' \in [Callers -> Wait \cup {None}]
          /\ holders' \subseteq Callers \X Blobs /\ Sane'
      BY <1>0, <2>1, <2>2, <3>1, <3>2, BaseArrives
    <3> QED BY <1>0, <2>1, <3>1, <3>3 DEF Typed
  <2>3. CASE /\ FetchMiss(Scheduler, Item(base.index), base.ask[2], Scheduler, Scheduler)
             /\ UNCHANGED base
    <3>1. /\ flight' \in [Blobs -> Flight \cup {None}]
          /\ wait' \in [Callers -> Wait \cup {None}]
          /\ UNCHANGED <<holders, stored, quarantined>> /\ Sane'
      BY <1>0, <2>1, <2>3, BaseMissed
    <3> QED BY <1>0, <2>1, <2>3, <3>1 DEF Typed
  <2> QED BY <2>1, <2>2, <2>3
<1>2. CASE BaseFetched
  <2>1. /\ UNCHANGED <<load, flight, stored, quarantined, req, aborted, expired, closed>>
        /\ wait[Scheduler] # None /\ wait' = [wait EXCEPT ![Scheduler] = None]
        /\ holders' = holders \cup {<<Scheduler, wait[Scheduler].hash>>}
        /\ base' = [base EXCEPT !.index = base.index + 1]
    BY <1>2 DEF BaseFetched, Resolved
  <2>2. /\ base.ask # None /\ base.index <= Whole
        /\ wait[Scheduler].hash = Item(base.index)
    BY <1>0, <2>1 DEF Sane, BaseIsHeld, BaseAwaits
  <2>3. /\ base' \in Base /\ wait' \in [Callers -> Wait \cup {None}]
        /\ holders' \subseteq Callers \X Blobs /\ Sane'
    BY <1>0, <2>1, <2>2, BaseArrives
  <2> QED BY <1>0, <2>1, <2>3 DEF Typed
<1>3. CASE BaseRejected
  BY <1>0, <1>3, BaseIsDisposed DEF BaseRejected
<1>4. CASE BaseEnds
  <2>1. wait' = [wait EXCEPT ![Scheduler] = None] /\ BaseDisposed
    BY <1>0, <1>4 DEF BaseEnds, BaseAwaits, Typed
  <2> QED BY <1>0, <2>1, BaseIsDisposed
<1> QED BY <1>1, <1>2, <1>3, <1>4 DEF Materializing

-----------------------------------------------------------------------------
(* The invariant, and what follows from it. *)

LEMMA Initially ==
  ASSUME Init
  PROVE  Inv
<1>1. PICK view \in Views :
         /\ req = [r \in Requests |->
                     [ask |-> view.asks[r], index |-> 0, why |-> "",
                      pc |-> IF r \in view.come THEN "start" ELSE "done"]]
         /\ base = [ask |-> view.base, index |-> 0]
  BY DEF Init
<1>2. (\A r \in Requests : view.asks[r] \in Keys) /\ view.base \in Keys \cup {None}
  BY ReadAssumption DEF Keys
<1>3. req \in [Requests -> Position]
  BY <1>1, <1>2 DEF Position, Reasons
<1>4. \A r \in Requests : req[r].pc \in {"start", "done"}
  BY <1>1
<1>10. base \in Base /\ base.index = 0
  BY <1>1, <1>2 DEF Base
<1>5. /\ load = [k \in Keys |-> None] /\ flight = [h \in Blobs |-> None]
      /\ wait = [c \in Callers |-> None] /\ holders = {} /\ stored = {}
      /\ quarantined = {} /\ aborted = {} /\ expired = {} /\ closed = FALSE
      /\ completed = <<>> /\ decodedBytes = 0
  BY DEF Init
<1>6. Typed
  BY <1>3, <1>5, <1>10 DEF Typed
<1>7. Sane
  <2>1. /\ \A c \in Callers : wait[c] = None
        /\ \A k \in Keys : load[k] = None /\ wait[k] = None
        /\ \A r \in Requests : wait[r] = None
        /\ \A m \in Manifests : flight[m] = None
    BY <1>5, Kinds
  <2>2. BaseIsHeld
    <3>1. 0..(base.index - 1) = {}
      BY <1>10
    <3> QED BY <2>1, <3>1, Kinds DEF BaseIsHeld, BaseAwaits
  <2> QED BY <1>4, <1>5, <2>1, <2>2 DEF Sane, NoLeakedLease, WaitsAreOwn, PlacesAreSound,
              NobodyWaitsInVain, LoadsObeyTheCache
<1>8. completed \in Seq(Manifests) /\ decodedBytes \in Nat
  BY <1>5
<1>9. CacheAccounting
  <2>1. IsInjective(<<>>) /\ Len(<<>>) = 0
    BY DEF IsInjective
  <2> QED BY <1>5, <2>1, BytesOfNone, ReadAssumption DEF CacheAccounting
<1> QED BY <1>6, <1>7, <1>8, <1>9, InvParts

LEMMA StepSane ==
  ASSUME Inv, [Next]_vars
  PROVE  Typed' /\ Sane'
<1>1. ASSUME NEW h \in Blobs, Download(h) \/ Evict(h)
      PROVE  Typed' /\ Sane'
  BY <1>1, DownloadStep
<1>2. ASSUME NEW k \in Keys, Loading(k)
      PROVE  Typed' /\ Sane'
  BY <1>2, LoadFetchedStep, LoadRejectedStep, LoadDecodedStep DEF Loading
<1>3. ASSUME NEW r \in Requests, Reading(r) \/ Abort(r)
      PROVE  Typed' /\ Sane'
  <2>1. CASE LoadHit(r) \/ LoadJoin(r) \/ Finish(r) \/ Abort(r)
    BY <2>1, QuietStep
  <2>2. CASE LoadStart(r)
    BY <2>2, LoadStartStep
  <2>3. CASE ChunkFetch(r) \/ ChunkFetched(r) \/ ChunkRejected(r) \/ ChunkStreamed(r)
    BY <2>3, ChunkStep
  <2> QED BY <1>3, <2>1, <2>2, <2>3 DEF Reading
<1>4. CASE \/ \E r \in Readers : Expire(r)
           \/ SchedulerCloses \/ Close \/ CloseEnds \/ Terminated \/ UNCHANGED vars
  BY <1>4, SignalStep DEF Terminated
<1>5. CASE Materializing
  BY <1>5, BaseStep
<1> QED BY <1>1, <1>2, <1>3, <1>4, <1>5 DEF Next

LEMMA InvStep ==
  ASSUME Inv, [Next]_vars
  PROVE  Inv'
BY CacheStep, StepSane DEF Inv, TypeOK, Typed, Sane

LEMMA InvAlways == Spec => []Inv
<1>1. Init => Inv
  BY Initially
<1>2. Inv /\ [Next]_vars => Inv'
  BY InvStep
<1> QED BY <1>1, <1>2, PTL DEF Spec

\* Types, among them that the counter of decoded bytes never goes below zero.
THEOREM TypeCorrect == Spec => []TypeOK
<1>1. Inv => TypeOK
  BY DEF Inv
<1> QED BY <1>1, InvAlways, PTL

\* The counter of VerifiedManifestCache is the size of what it retains, and the
\* bounds on entries and bytes hold, whatever loads of one manifest overlap.
THEOREM CacheAccounts == Spec => []CacheAccounting
<1>1. Inv => CacheAccounting
  BY DEF Inv
<1> QED BY <1>1, InvAlways, PTL

\* Every path on which a request, a shared load or a build ends disposes of its
\* blobs.
THEOREM LeasesEnd == Spec => []NoLeakedLease
<1>1. Inv => NoLeakedLease
  BY DEF Inv
<1> QED BY <1>1, InvAlways, PTL

\* No waiter of BlobFetcher or of VerifiedManifestCache is forgotten: what it
\* awaits is in the map that will settle it.
THEOREM EveryWaitIsAnswerable == Spec => []NobodyWaitsInVain
<1>1. Inv => NobodyWaitsInVain
  BY DEF Inv
<1> QED BY <1>1, InvAlways, PTL

\* A build never reads a base with a hole: whatever is evicted, aborted or
\* rejected meanwhile, materialize holds every item up to the next one.
THEOREM BasesAreWhole == Spec => []BaseIsHeld
<1>1. Inv => BaseIsHeld
  BY DEF Inv
<1> QED BY <1>1, InvAlways, PTL

\* One client's cancellation does not fail the manifest of another one: as long
\* as the cache and the batch scheduler are open, no load of the cache is
\* rejected for an abort.
THEOREM AbortsAreOwn == Spec => ManifestAbortIsOwn
<1> DEFINE Own == \A r \in Requests :
                     /\ req[r].pc = "manifest" /\ req'[r].pc = "failed"
                     /\ req'[r].why = "abort" /\ ~closed /\ Scheduler \notin aborted
                     => r \in aborted'
<1>1. ASSUME Inv, [Next]_vars
      PROVE  [Own]_vars
  <2> SUFFICES ASSUME NEW r \in Requests, req[r].pc = "manifest", req'[r].pc = "failed",
                      req'[r].why = "abort", ~closed, Scheduler \notin aborted
               PROVE  r \in aborted'
    OBVIOUS
  <2>0. Typed /\ Sane /\ \A q \in Requests : req[q] \in Position
    BY <1>1, InvParts DEF Typed
  <2>1. ASSUME NEW h \in Blobs, Download(h) \/ Evict(h)
        PROVE  UNCHANGED req
    BY <2>1 DEF Download, SkipQuarantined, OutOfBudget, AttemptSucceeds, AttemptFails,
                Unavailable, Evict
  <2>2. ASSUME NEW k \in Keys, Loading(k)
        PROVE  FALSE
    <3>1. CASE LoadFetched(k)
      BY <3>1 DEF LoadFetched
    <3>2. CASE LoadRejected(k)
      <4>1. PICK why \in Reasons :
               /\ Rejected(k, why)
               /\ req' = [q \in Requests |-> IF q \in Waiters(k) THEN Failed(req[q], why)
                                             ELSE req[q]]
        BY <3>2 DEF LoadRejected
      <4>2. req'[r] = Failed(req[r], why)
        BY <4>1
      <4>3. why = "abort"
        BY <2>0, <4>2, FailedIs
      <4>4. wait[k] # None /\ wait[k].why = "abort"
        BY <4>1, <4>3 DEF Rejected
      <4> QED BY <2>0, <4>4 DEF Sane, LoadsObeyTheCache
    <3>3. CASE LoadDecoded(k)
      <4>1. \/ req' = [q \in Requests |-> IF q \in Waiters(k) THEN MovedTo(req[q], "chunk", 1)
                                          ELSE req[q]]
            \/ req' = [q \in Requests |-> IF q \in Waiters(k) THEN Failed(req[q], "decode")
                                          ELSE req[q]]
        BY <3>3 DEF LoadDecoded, MovedTo
      <4>2. "decode" \in Reasons
        BY DEF Reasons
      <4>3. Failed(req[r], "decode").why = "decode"
        BY <2>0, <4>2, FailedIs, Zenon
      <4>4. MovedTo(req[r], "chunk", 1).pc = "chunk"
        BY <2>0, Instances
      <4> QED BY <4>1, <4>3, <4>4
    <3> QED BY <2>2, <3>1, <3>2, <3>3 DEF Loading
  <2>3. ASSUME NEW q \in Requests, Reading(q)
        PROVE  FALSE
    <3>1. req' = req \/ \E x : req' = [req EXCEPT ![q] = x]
      <4>1. CASE LoadHit(q) \/ LoadJoin(q) \/ LoadStart(q)
        BY <4>1 DEF LoadHit, LoadJoin, LoadStart
      <4>2. CASE ChunkFetch(q) \/ Finish(q)
        BY <4>2 DEF ChunkFetch, Finish
      <4>3. CASE ChunkFetched(q) \/ ChunkRejected(q)
        BY <4>3 DEF ChunkFetched, ChunkRejected
      <4>4. CASE ChunkStreamed(q)
        BY <4>4 DEF ChunkStreamed
      <4> QED BY <2>3, <4>1, <4>2, <4>3, <4>4 DEF Reading
    <3>2. q = r
      BY <2>0, <3>1 DEF Typed
    <3>3. wait[r] = None
      BY <2>0, IdleBeforeManifest
    <3> QED BY <2>3, <3>2, <3>3 DEF Reading, LoadHit, LoadJoin, LoadStart, ChunkFetch,
            ChunkFetched, ChunkRejected, ChunkStreamed, Finish, Resolved, Rejected
  <2>4. ASSUME NEW q \in Requests, Abort(q)
        PROVE  r \in aborted'
    BY <2>0, <2>4 DEF Abort, Typed
  <2>5. ASSUME \/ \E q \in Readers : Expire(q)
               \/ SchedulerCloses \/ Close \/ CloseEnds \/ Terminated \/ UNCHANGED vars
        PROVE  UNCHANGED req
    BY <2>5 DEF Expire, SchedulerCloses, Close, CloseEnds, Terminated, vars
  <2>6. Materializing => UNCHANGED req
    BY DEF Materializing, BaseFetch, BaseFetched, BaseRejected, BaseEnds, BaseDisposed
  <2> QED BY <1>1, <2>1, <2>2, <2>3, <2>4, <2>5, <2>6 DEF Next
<1> QED BY <1>1, InvAlways, PTL DEF Spec, ManifestAbortIsOwn
=============================================================================
