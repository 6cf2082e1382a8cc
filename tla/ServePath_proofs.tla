-------------------------- MODULE ServePath_proofs --------------------------
(***************************************************************************)
(* Theorems about the serving side, for any number of requests, pins and   *)
(* generations: the generation leases are counted exactly, they protect    *)
(* what they lease, and a NAR follows the narinfo that named it.           *)
(***************************************************************************)
EXTENDS ServePath, Subsequence_proofs, FiniteSetTheorems

-----------------------------------------------------------------------------
(* The inductive invariant. *)

\* What a request carries at each of its awaits, in generation g.
Sound(q, g) ==
    /\ q.pc = "reading" => q.lease # None /\ q.nar \in NarsOf(Contents[g])
    /\ q.pc = "merging" => q.source # "overlay" /\ q.lease = None
    /\ q.pc = "searching" => q.told = None
    /\ q.pc \in {"opening", "streaming"} /\ q.told # None
          => q.source \in {q.told, "overlay"}

RequestsAreSound == \A u \in Slots : req[u] # None => Sound(req[u], generation)

\* A publication that was told of is pinned still, the overlay has what it was
\* told of.
ToldIsPinned ==
    \A n \in NARs :
        /\ told[n] \in Pubs =>
              \E m \in DOMAIN winner : /\ winner[m].nar = n /\ ~winner[m].due
                                       /\ winner[m].pub = told[n]
        /\ told[n] = "overlay" => n \in NarsOf(Contents[generation])

CurrentIsKept == generation \in kept

Inv == /\ RequestsAreSound /\ ToldIsPinned /\ CurrentIsKept
       /\ LeasesExact /\ LeasedIsKept

-----------------------------------------------------------------------------
(* Counting the places of a subsequence. *)

\* Where does not lose or repeat anything: as many of its elements come from J
\* as J has places.
LEMMA WhereCount ==
  ASSUME NEW T, NEW s \in Seq(T), NEW I \in SUBSET (1..Len(s)), NEW J \in SUBSET I,
         NEW p, Places(p, Where(s, I), s, I),
         NEW D, D = {n \in 1..Len(Where(s, I)) : p[n] \in J}
  PROVE  Cardinality(D) = Cardinality(J)
<1> DEFINE N == Len(Where(s, I))
           f == [n \in D |-> p[n]]
<1>1. N \in Nat /\ Len(s) \in Nat
  BY WherePlaces
<1>2. /\ p \in [1..N -> I]
      /\ \A m, n \in 1..N : m < n => p[m] < p[n]
      /\ \A i \in I : \E n \in 1..N : p[n] = i
  BY DEF Places
<1>3. I \subseteq Nat
  BY <1>1
<1>4. IsFiniteSet(D)
  <2>1. IsFiniteSet(1..N)
    BY <1>1, FS_Interval
  <2>2. D \in SUBSET (1..N)
    OBVIOUS
  <2> HIDE DEF N
  <2> QED BY <2>1, <2>2, FS_Subset
<1>5. f \in [D -> J]
  OBVIOUS
<1>6. \A m, n \in D : f[m] = f[n] => m = n
  <2>0. \A n \in D : n \in 1..N /\ p[n] \in I
    BY <1>2
  <2> HIDE DEF N
  <2> SUFFICES ASSUME NEW m \in D, NEW n \in D, f[m] = f[n] PROVE m = n
    OBVIOUS
  <2>1. m \in Nat /\ n \in Nat /\ m \in 1..N /\ n \in 1..N
    BY <1>1, <2>0
  <2>2. p[m] = p[n] /\ p[m] \in Nat
    BY <1>3, <2>0
  <2>3. ~(m < n) /\ ~(n < m)
    BY <1>2, <2>1, <2>2
  <2> QED BY <2>1, <2>3
<1>7. \A i \in J : \E n \in D : f[n] = i
  BY <1>2
<1>8. f \in Bijection(D, J)
  <2> HIDE DEF f
  <2> QED BY <1>5, <1>6, <1>7 DEF Bijection, Injection, Surjection, IsInjective
<1>9. ExistsBijection(D, J)
  BY <1>8 DEF ExistsBijection
<1> QED BY <1>4, <1>9, FS_Bijection

LEMMA DomainFinite ==
  ASSUME NEW T, NEW s \in Seq(T), NEW I \in SUBSET (1..Len(s))
  PROVE  IsFiniteSet(I) /\ Cardinality(I) \in Nat /\ Cardinality(I) <= Len(s)
<1>1. Len(s) \in Nat /\ 1 \in Int /\ Len(s) \in Int
  OBVIOUS
<1>2. IsFiniteSet(1..Len(s)) /\ Cardinality(1..Len(s)) = Len(s)
  <2> DEFINE N == Len(s)
  <2>1. N \in Nat /\ 1 \in Int /\ N \in Int
    BY <1>1
  <2> HIDE DEF N
  <2>2. IsFiniteSet(1..N) /\ Cardinality(1..N) = N
    BY <2>1, FS_Interval
  <2> QED BY <2>2 DEF N
<1> QED BY <1>2, FS_Subset, FS_CardinalityType

LEMMA WhereElements ==
  ASSUME NEW T, NEW s \in Seq(T), NEW I \in SUBSET (1..Len(s))
  PROVE  /\ Where(s, I) \in Seq(T) /\ Len(Where(s, I)) = Cardinality(I)
         /\ \A n \in DOMAIN Where(s, I) : \E k \in I : Where(s, I)[n] = s[k]
         /\ \A k \in I : \E n \in DOMAIN Where(s, I) : Where(s, I)[n] = s[k]
<1>1. PICK p : Places(p, Where(s, I), s, I)
  BY WherePlaces
<1>2. Where(s, I) \in Seq(T)
  BY WherePlaces
<1> DEFINE t == Where(s, I)
           N == Len(t)
<1>3. N \in Nat /\ DOMAIN t = 1..N
  BY <1>2
<1>4. /\ p \in [1..N -> I]
      /\ \A i \in I : \E n \in 1..N : p[n] = i
      /\ \A n \in 1..N : t[n] = s[p[n]]
  BY <1>1 DEF Places
<1>5. Cardinality(I) = N
  <2>1. I \in SUBSET I /\ 1..N = {n \in 1..Len(Where(s, I)) : p[n] \in I}
    BY <1>4
  <2>2. Cardinality(1..N) = Cardinality(I)
    <3> DEFINE D == 1..N
    <3>1. D = {n \in 1..Len(Where(s, I)) : p[n] \in I}
      BY <2>1
    <3>2. Cardinality(D) = Cardinality(I)
      <4> HIDE DEF D, N, t
      <4> QED BY <1>1, <2>1, <3>1, WhereCount
    <3> QED BY <3>2
  <2>3. Cardinality(1..N) = N
    <3> HIDE DEF N
    <3>1. 1 \in Int /\ N \in Int
      BY <1>3
    <3> QED BY <1>3, <3>1, FS_Interval
  <2> HIDE DEF N
  <2> QED BY <2>1, <2>2, <2>3
<1> HIDE DEF t, N
<1>6. /\ \A n \in DOMAIN t : \E k \in I : t[n] = s[k]
      /\ \A k \in I : \E n \in DOMAIN t : t[n] = s[k]
  <2>1. \A n \in 1..N : p[n] \in I
    BY <1>4
  <2>2. \A n \in 1..N : \E k \in I : t[n] = s[k]
    BY <1>4, <2>1
  <2>3. \A k \in I : \E n \in 1..N : t[n] = s[k]
    BY <1>4
  <2> QED BY <1>3, <2>2, <2>3
<1> QED BY <1>2, <1>5, <1>6 DEF t, N

\* Pins as a multiset of generations.
LEMMA HoldingWhere ==
  ASSUME NEW T, NEW s \in Seq(T), NEW I \in SUBSET (1..Len(s)), NEW g
  PROVE  Holding(Where(s, I), g) = Cardinality({k \in I : s[k].gen = g})
<1>1. PICK p : Places(p, Where(s, I), s, I)
  BY WherePlaces
<1> DEFINE t == Where(s, I)
           J == {k \in I : s[k].gen = g}
<1>2. DOMAIN t = 1..Len(t)
  BY WherePlaces
<1>3. /\ p \in [1..Len(t) -> I]
      /\ \A n \in 1..Len(t) : t[n] = s[p[n]]
  BY <1>1 DEF Places
<1> DEFINE D == {n \in DOMAIN t : t[n].gen = g}
<1>4. D = {n \in 1..Len(Where(s, I)) : p[n] \in J}
  BY <1>2, <1>3
<1>5. J \in SUBSET I
  OBVIOUS
<1>6. Cardinality(D) = Cardinality(J)
  <2> HIDE DEF J, D, t
  <2> QED BY <1>1, <1>4, <1>5, WhereCount
<1> QED BY <1>6 DEF Holding

LEMMA HoldingType ==
  ASSUME NEW T, NEW s \in Seq(T), NEW g
  PROVE  Holding(s, g) \in Nat
<1>1. {n \in DOMAIN s : s[n].gen = g} \in SUBSET (1..Len(s))
  OBVIOUS
<1> QED BY <1>1, DomainFinite DEF Holding

LEMMA HoldingSplit ==
  ASSUME NEW T, NEW s \in Seq(T), NEW I \in SUBSET DOMAIN s, NEW g
  PROVE  /\ Holding(Where(s, I), g) \in Nat
         /\ Holding(Where(s, DOMAIN s \ I), g) \in Nat
         /\ Holding(s, g) = Holding(Where(s, I), g)
                            + Holding(Where(s, DOMAIN s \ I), g)
<1> DEFINE J == DOMAIN s \ I
           A == {k \in I : s[k].gen = g}
           B == {k \in J : s[k].gen = g}
           H == {n \in DOMAIN s : s[n].gen = g}
<1>1. DOMAIN s = 1..Len(s) /\ Len(s) \in Nat
  OBVIOUS
<1>2. I \in SUBSET (1..Len(s)) /\ J \in SUBSET (1..Len(s))
  BY <1>1
<1>3. A \in SUBSET (1..Len(s)) /\ B \in SUBSET (1..Len(s))
  BY <1>2
<1>4. /\ A \cup B = H
      /\ A \cap B = {}
  OBVIOUS
<1>5. Holding(Where(s, I), g) = Cardinality(A)
  BY <1>2, HoldingWhere
<1>6. Holding(Where(s, J), g) = Cardinality(B)
  <2> HIDE DEF J
  <2> QED BY <1>2, HoldingWhere
<1>11. Holding(s, g) = Cardinality(H)
  BY DEF Holding
<1> HIDE DEF A, B, H
<1>7. /\ IsFiniteSet(A) /\ IsFiniteSet(B)
      /\ Cardinality(A) \in Nat /\ Cardinality(B) \in Nat
  BY <1>3, DomainFinite
<1>8. Cardinality(A \cup B) = Cardinality(A) + Cardinality(B) - Cardinality(A \cap B)
  BY <1>7, FS_Union
<1>9. Cardinality(A \cap B) = 0
  BY <1>4, FS_EmptySet
<1>10. Holding(s, g) = Cardinality(A) + Cardinality(B)
  <2>1. Cardinality(A \cup B) = Cardinality(A) + Cardinality(B)
    BY <1>7, <1>8, <1>9
  <2> QED BY <1>4, <1>11, <2>1
<1> QED BY <1>5, <1>6, <1>7, <1>10

LEMMA HoldingAppend ==
  ASSUME NEW T, NEW s \in Seq(T), NEW e \in T, NEW g
  PROVE  Holding(Append(s, e), g) = Holding(s, g) + (IF e.gen = g THEN 1 ELSE 0)
<1> DEFINE t == Append(s, e)
           A == {n \in DOMAIN s : s[n].gen = g}
           k == Len(s) + 1
           B == {n \in DOMAIN t : t[n].gen = g}
<1>1. /\ Len(s) \in Nat /\ DOMAIN s = 1..Len(s) /\ DOMAIN t = 1..k
      /\ t[k] = e /\ \A n \in 1..Len(s) : t[n] = s[n]
  OBVIOUS
<1>2. DOMAIN t = DOMAIN s \cup {k} /\ k \notin DOMAIN s
  BY <1>1
<1>3. A \in SUBSET (1..Len(s))
  OBVIOUS
<1>4. IsFiniteSet(A) /\ Cardinality(A) \in Nat
  <2> HIDE DEF A
  <2> QED BY <1>3, DomainFinite
<1>7. Holding(s, g) = Cardinality(A) /\ Holding(t, g) = Cardinality(B)
  BY DEF Holding
<1> HIDE DEF k, t
<1>5. CASE e.gen = g
  <2>1. B = A \cup {k} /\ k \notin A
    BY <1>1, <1>2, <1>5
  <2> HIDE DEF A, B
  <2>2. Cardinality(A \cup {k}) = Cardinality(A) + 1
    BY <1>4, <2>1, FS_AddElement
  <2> QED BY <1>4, <1>5, <1>7, <2>1, <2>2 DEF t
<1>6. CASE e.gen # g
  <2>1. B = A
    BY <1>1, <1>2, <1>6
  <2> HIDE DEF A, B
  <2> QED BY <1>4, <1>6, <1>7, <2>1 DEF t
<1> QED BY <1>5, <1>6

-----------------------------------------------------------------------------
(* Counting requests. *)

Holds1(q, g) == IF q # None /\ q.lease = g THEN 1 ELSE 0
Holders(r, g) == {u \in Slots : r[u] # None /\ r[u].lease = g}

LEMMA HoldersFinite ==
  ASSUME NEW r, NEW g
  PROVE  IsFiniteSet(Holders(r, g)) /\ Cardinality(Holders(r, g)) \in Nat
<1>1. Holders(r, g) \in SUBSET Slots /\ IsFiniteSet(Slots)
  BY ServeAssumption DEF Holders
<1> QED BY <1>1, FS_Subset, FS_CardinalityType

LEMMA HoldersChange ==
  ASSUME NEW r \in [Slots -> Request \cup {None}], NEW u \in Slots, NEW q, NEW g,
         NEW R, R[u] = q, \A v \in Slots \ {u} : R[v] = r[v]
  PROVE  /\ Cardinality(Holders(r, g)) \in Nat
         /\ Cardinality(Holders(R, g)) \in Nat
         /\ Cardinality(Holders(R, g)) + Holds1(r[u], g)
              = Cardinality(Holders(r, g)) + Holds1(q, g)
<1> DEFINE A == Holders(r, g)
           B == Holders(R, g)
<1>1. IsFiniteSet(A) /\ Cardinality(A) \in Nat /\ IsFiniteSet(B) /\ Cardinality(B) \in Nat
  BY HoldersFinite
<1>2. R[u] = q /\ \A v \in Slots \ {u} : R[v] = r[v]
  OBVIOUS
<1>3. (u \in A <=> r[u] # None /\ r[u].lease = g) /\ (u \in B <=> q # None /\ q.lease = g)
  BY <1>2 DEF Holders
<1>4. A \ {u} = B \ {u}
  BY <1>2 DEF Holders
<1> HIDE DEF A, B
<1>5. Cardinality(A \ {u}) = IF u \in A THEN Cardinality(A) - 1 ELSE Cardinality(A)
  BY <1>1, FS_RemoveElement
<1>6. Cardinality(B \ {u}) = IF u \in B THEN Cardinality(B) - 1 ELSE Cardinality(B)
  BY <1>1, FS_RemoveElement
<1>7. Cardinality(B) + Holds1(r[u], g) = Cardinality(A) + Holds1(q, g)
  <2>1. Holds1(r[u], g) = IF u \in A THEN 1 ELSE 0
    BY <1>3 DEF Holds1
  <2>2. Holds1(q, g) = IF u \in B THEN 1 ELSE 0
    BY <1>3 DEF Holds1
  <2>3. Cardinality(A \ {u}) = Cardinality(B \ {u})
    BY <1>4
  <2> QED BY <1>1, <1>5, <1>6, <2>1, <2>2, <2>3
<1> QED BY <1>1, <1>7 DEF A, B

-----------------------------------------------------------------------------
(* The registries. *)

Registry(s) ==
    /\ Len(s) <= MaxEntries
    /\ \A m, n \in DOMAIN s : s[m].nar = s[n].nar => m = n

LEMMA RegistryWhere ==
  ASSUME NEW T, NEW s \in Seq(T), NEW I \in SUBSET DOMAIN s, Registry(s)
  PROVE  Where(s, I) \in Seq(T) /\ Registry(Where(s, I))
<1> DEFINE t == Where(s, I)
<1>1. I \in SUBSET (1..Len(s)) /\ Len(s) \in Nat /\ MaxEntries \in Nat
  BY ServeAssumption
<1>2. t \in Seq(T) /\ Len(t) = Cardinality(I)
  BY <1>1, WhereElements
<1>3. Len(t) <= MaxEntries
  <2>1. Cardinality(I) \in Nat /\ Cardinality(I) <= Len(s) /\ Len(s) <= MaxEntries
    BY <1>1, DomainFinite DEF Registry
  <2> HIDE DEF t
  <2> QED BY <1>1, <1>2, <2>1
<1>4. PICK p : Places(p, t, s, I)
  BY <1>1, WherePlaces
<1>5. DOMAIN t = 1..Len(t) /\ Len(t) \in Nat
  BY <1>2
<1> HIDE DEF t
<1>6. ASSUME NEW m \in DOMAIN t, NEW n \in DOMAIN t, t[m].nar = t[n].nar
      PROVE  m = n
  <2>1. /\ p[m] \in I /\ p[n] \in I /\ t[m] = s[p[m]] /\ t[n] = s[p[n]]
        /\ (m < n => p[m] < p[n]) /\ (n < m => p[n] < p[m])
    BY <1>4, <1>5 DEF Places
  <2>2. p[m] = p[n] /\ p[m] \in Nat
    BY <1>1, <1>6, <2>1 DEF Registry
  <2> QED BY <1>5, <2>1, <2>2
<1> QED BY <1>2, <1>3, <1>6 DEF Registry, t

\* set(): what is kept is short enough for one more and has no pin of the NAR.
LEMMA RegistryKept ==
  ASSUME NEW T, NEW s \in Seq(T), Registry(s), NEW n
  PROVE  /\ KeptAt(s, n) \in SUBSET DOMAIN s
         /\ \A k \in KeptAt(s, n) : s[k].nar # n /\ ~s[k].due
         /\ Cardinality(KeptAt(s, n)) \in Nat /\ Cardinality(KeptAt(s, n)) < MaxEntries
<1> DEFINE L == Live(s, n)
<1>1. /\ DOMAIN s = 1..Len(s) /\ Len(s) \in Nat /\ MaxEntries \in Nat /\ MaxEntries > 0
      /\ Len(s) <= MaxEntries
  BY ServeAssumption DEF Registry
<1>2. L \in SUBSET (1..Len(s)) /\ \A k \in L : s[k].nar # n /\ ~s[k].due
  BY <1>1 DEF Live
<1>3. KeptAt(s, n) = IF Cardinality(L) < MaxEntries THEN L ELSE L \ {Min(L)}
  BY DEF KeptAt
<1> HIDE DEF L
<1>4. IsFiniteSet(L) /\ Cardinality(L) \in Nat /\ Cardinality(L) <= Len(s)
  BY <1>2, DomainFinite
<1>5. CASE Cardinality(L) < MaxEntries
  BY <1>1, <1>2, <1>3, <1>4, <1>5
<1>6. CASE ~(Cardinality(L) < MaxEntries)
  <2>1. Cardinality(L) # 0
    BY <1>1, <1>4, <1>6
  <2>2. L # {}
    BY <2>1, FS_EmptySet
  <2>3. L \in SUBSET Nat
    BY <1>1, <1>2
  <2>4. Min(L) \in L
    <3>1. \E x \in L : \A y \in L : x <= y
      BY <2>2, <2>3, NatMin
    <3> QED BY <3>1 DEF Min
  <2> DEFINE x == Min(L)
  <2> HIDE DEF x
  <2>5. Cardinality(L \ {x}) = Cardinality(L) - 1
    BY <1>4, <2>4, FS_RemoveElement DEF x
  <2>6. KeptAt(s, n) = L \ {x}
    BY <1>3, <1>6 DEF x
  <2>7. Cardinality(KeptAt(s, n)) \in Nat /\ Cardinality(KeptAt(s, n)) < MaxEntries
    BY <1>1, <1>4, <2>1, <2>5, <2>6
  <2> QED BY <1>1, <1>2, <2>6, <2>7
<1> QED BY <1>5, <1>6

LEMMA RegistrySet ==
  ASSUME NEW T, NEW s \in Seq(T), Registry(s), NEW n, NEW e \in T, e.nar = n
  PROVE  /\ KeptAt(s, n) \in SUBSET DOMAIN s
         /\ Kept(s, n) \in Seq(T)
         /\ Append(Kept(s, n), e) \in Seq(T)
         /\ Registry(Append(Kept(s, n), e))
         /\ \A m \in DOMAIN Append(Kept(s, n), e) :
               \/ Append(Kept(s, n), e)[m] = e
               \/ \E k \in KeptAt(s, n) : Append(Kept(s, n), e)[m] = s[k]
         /\ \E m \in DOMAIN Append(Kept(s, n), e) : Append(Kept(s, n), e)[m] = e
<1> DEFINE K == KeptAt(s, n)
           t == Kept(s, n)
           a == Append(t, e)
<1>1. /\ K \in SUBSET DOMAIN s /\ \A k \in K : s[k].nar # n
      /\ Cardinality(K) \in Nat /\ Cardinality(K) < MaxEntries
  BY RegistryKept
<1>2. t = Where(s, K) /\ K \in SUBSET (1..Len(s)) /\ MaxEntries \in Nat
  BY <1>1, ServeAssumption DEF Kept
<1> HIDE DEF K, t
<1>3. /\ t \in Seq(T) /\ Registry(t) /\ Len(t) = Cardinality(K)
      /\ \A m \in DOMAIN t : \E k \in K : t[m] = s[k]
  BY <1>1, <1>2, RegistryWhere, WhereElements
<1>4. /\ Len(t) \in Nat /\ DOMAIN t = 1..Len(t)
      /\ a \in Seq(T) /\ Len(a) = Len(t) + 1 /\ DOMAIN a = 1..(Len(t) + 1)
      /\ a[Len(t) + 1] = e /\ \A m \in 1..Len(t) : a[m] = t[m]
  BY <1>3
<1> HIDE DEF a
<1>5. \A m \in DOMAIN a : m \in DOMAIN t \/ m = Len(t) + 1
  BY <1>4
<1>6. \A m \in DOMAIN a : m \in DOMAIN t => \E k \in K : a[m] = s[k] /\ a[m] = t[m]
  BY <1>3, <1>4
<1>7. \A m \in DOMAIN t : a[m].nar # n /\ a[m] = t[m]
  BY <1>1, <1>3, <1>4
<1>8. \A l, m \in DOMAIN a : a[l].nar = a[m].nar => l = m
  BY <1>3, <1>4, <1>5, <1>7 DEF Registry
<1>9. Registry(a)
  BY <1>1, <1>2, <1>3, <1>4, <1>8 DEF Registry
<1>10. Len(t) + 1 \in DOMAIN a
  BY <1>4
<1> QED BY <1>1, <1>3, <1>4, <1>5, <1>6, <1>9, <1>10 DEF K, t, a

-----------------------------------------------------------------------------
(* The leases. *)

Bit(b) == IF b THEN 1 ELSE 0

LEMMA ExactMeans ==
  LeasesExact <=> \A g \in Generations :
                     leases[g] = Cardinality(Holders(req, g)) + Holding(signer, g) + leaked[g]
BY DEF LeasesExact, Holders

\* Pins and leases are released, and released generations pruned.
LEMMA ReturnEffect ==
  ASSUME TypeOK, LeasedIsKept, CurrentIsKept, NEW pins, NEW G,
         \A g \in Generations : /\ Holding(pins, g) \in Nat
                                /\ leases[g] - Holding(pins, g) - Bit(g \in G) \in Nat,
         Return(pins, G), generation' = generation
  PROVE  /\ leases' \in [Generations -> Nat]
         /\ \A g \in Generations : leases'[g] = leases[g] - Holding(pins, g) - Bit(g \in G)
         /\ kept' \subseteq 1..generation
         /\ LeasedIsKept' /\ CurrentIsKept'
<1>1. /\ leases' = [g \in Generations |-> leases[g] - Holding(pins, g) - Bit(g \in G)]
      /\ kept' = {g \in kept : g >= admitted \/ g = generation \/ leases'[g] > 0}
  BY DEF Return, Prune, Bit
<1>2. /\ leases \in [Generations -> Nat] /\ kept \subseteq 1..generation
  BY DEF TypeOK
<1>3. /\ leases' \in [Generations -> Nat]
      /\ \A g \in Generations : leases'[g] = leases[g] - Holding(pins, g) - Bit(g \in G)
  BY <1>1
<1>4. kept' \subseteq 1..generation /\ CurrentIsKept'
  BY <1>1, <1>2 DEF CurrentIsKept
<1>5. LeasedIsKept'
  <2> SUFFICES ASSUME NEW g \in Generations, leases'[g] > 0
               PROVE  g \in kept'
    BY DEF LeasedIsKept
  <2>1. leases[g] \in Nat /\ Holding(pins, g) \in Nat /\ Bit(g \in G) \in {0, 1}
    BY <1>2 DEF Bit
  <2>2. leases[g] > 0
    BY <1>3, <2>1
  <2>3. g \in kept
    BY <2>2 DEF LeasedIsKept
  <2> QED BY <1>1, <2>3
<1> QED BY <1>3, <1>4, <1>5

\* One request changes, and is sound.
LEMMA RequestStep ==
  ASSUME TypeOK, RequestsAreSound, NEW u \in Slots, NEW q \in Request \cup {None},
         req' = [req EXCEPT ![u] = q], generation' = generation,
         q # None => Sound(q, generation)
  PROVE  /\ req' \in [Slots -> Request \cup {None}]
         /\ RequestsAreSound'
         /\ \A g \in Generations :
               /\ Cardinality(Holders(req, g)) \in Nat
               /\ Cardinality(Holders(req', g)) \in Nat
               /\ Cardinality(Holders(req', g)) + Holds1(req[u], g)
                    = Cardinality(Holders(req, g)) + Holds1(q, g)
<1>1. req \in [Slots -> Request \cup {None}]
  BY DEF TypeOK
<1>2. req' \in [Slots -> Request \cup {None}]
  BY <1>1
<1>3. RequestsAreSound'
  BY <1>1 DEF RequestsAreSound, Sound
<1> DEFINE r == req
           R == req'
<1>4. /\ r \in [Slots -> Request \cup {None}]
      /\ R[u] = q /\ \A v \in Slots \ {u} : R[v] = r[v]
  BY <1>1
<1> HIDE DEF r, R
<1>5. \A g \in Generations :
         /\ Cardinality(Holders(r, g)) \in Nat
         /\ Cardinality(Holders(R, g)) \in Nat
         /\ Cardinality(Holders(R, g)) + Holds1(r[u], g)
              = Cardinality(Holders(r, g)) + Holds1(q, g)
  BY <1>4, HoldersChange
<1> QED BY <1>2, <1>3, <1>5 DEF r, R

\* A request changes and holds the same lease as before.
LEMMA QuietStep ==
  ASSUME TypeOK, Inv, NEW u \in Slots, NEW q \in Request \cup {None},
         req' = [req EXCEPT ![u] = q], q # None => Sound(q, generation),
         \A g \in Generations : Holds1(q, g) = Holds1(req[u], g),
         UNCHANGED <<overlay, signer, leaked>>
  PROVE  /\ req' \in [Slots -> Request \cup {None}]
         /\ RequestsAreSound' /\ LeasesExact' /\ LeasedIsKept' /\ CurrentIsKept'
<1>1. UNCHANGED <<generation, admitted, kept, leases, signer, leaked>>
  BY DEF overlay
<1>2. /\ req' \in [Slots -> Request \cup {None}] /\ RequestsAreSound'
      /\ \A g \in Generations :
            /\ Cardinality(Holders(req, g)) \in Nat
            /\ Cardinality(Holders(req', g)) \in Nat
            /\ Cardinality(Holders(req', g)) + Holds1(req[u], g)
                 = Cardinality(Holders(req, g)) + Holds1(q, g)
  BY <1>1, RequestStep DEF Inv
<1>3. \A g \in Generations : Holds1(req[u], g) \in Nat
  BY DEF Holds1
<1>4. \A g \in Generations : Cardinality(Holders(req', g)) = Cardinality(Holders(req, g))
  <2> TAKE g \in Generations
  <2>1. Holds1(q, g) = Holds1(req[u], g)
    OBVIOUS
  <2> DEFINE a == Cardinality(Holders(req, g))
             b == Cardinality(Holders(req', g))
             c == Holds1(req[u], g)
  <2>2. a \in Nat /\ b \in Nat /\ c \in Nat /\ b + c = a + Holds1(q, g)
    BY <1>2, <1>3
  <2>3. b + c = a + c
    BY <2>1, <2>2
  <2> HIDE DEF a, b, c
  <2>4. a = b
    BY <2>2, <2>3
  <2> QED BY <2>4 DEF a, b
<1>5. LeasesExact'
  <2>1. \A g \in Generations :
          leases[g] = Cardinality(Holders(req, g)) + Holding(signer, g) + leaked[g]
    BY ExactMeans DEF Inv
  <2>2. \A g \in Generations :
          leases'[g] = Cardinality(Holders(req', g)) + Holding(signer', g) + leaked'[g]
    BY <1>1, <1>4, <2>1
  <2> QED BY <2>2 DEF LeasesExact, Holders
<1>6. LeasedIsKept' /\ CurrentIsKept'
  BY <1>1 DEF Inv, LeasedIsKept, CurrentIsKept
<1> QED BY <1>2, <1>5, <1>6

LEMMA NothingHeld ==
  ASSUME NEW g PROVE Holding(<<>>, g) = 0
<1>1. {n \in DOMAIN <<>> : <<>>[n].gen = g} = {}
  OBVIOUS
<1> QED BY <1>1, FS_EmptySet DEF Holding

\* The request is answered, and its lease released.
LEMMA AnswerStep ==
  ASSUME TypeOK, Inv, NEW u \in Slots, req[u] # None, Answered(u)
  PROVE  TypeOK' /\ Inv'
<1> DEFINE G == {req[u].lease} \ {None}
<1>1. /\ req' = [req EXCEPT ![u] = None] /\ Return(<<>>, G)
      /\ UNCHANGED <<selection, generation, admitted, signer, winner, told, leaked>>
  BY DEF Answered, Respond, Release, registries
<1>2. /\ req' \in [Slots -> Request \cup {None}] /\ RequestsAreSound'
      /\ \A g \in Generations :
            /\ Cardinality(Holders(req, g)) \in Nat
            /\ Cardinality(Holders(req', g)) \in Nat
            /\ Cardinality(Holders(req', g)) + Holds1(req[u], g)
                 = Cardinality(Holders(req, g)) + Holds1(None, g)
  BY <1>1, RequestStep DEF Inv
<1>3. \A g \in Generations : Holds1(None, g) = 0 /\ Holds1(req[u], g) = Bit(g \in G)
  <2>1. None \notin Generations
    BY ServeAssumption DEF Generations
  <2> QED BY <2>1 DEF Holds1, Bit
<1>4. \A g \in Generations :
        /\ leases[g] = Cardinality(Holders(req, g)) + Holding(signer, g) + leaked[g]
        /\ Holding(signer, g) \in Nat /\ leaked[g] \in Nat /\ leases[g] \in Nat
        /\ Bit(g \in G) \in Nat
  BY ExactMeans, HoldingType DEF Inv, TypeOK, Bit
<1>5. \A g \in Generations : /\ Holding(<<>>, g) = 0 /\ Holding(<<>>, g) \in Nat
                             /\ leases[g] - Holding(<<>>, g) - Bit(g \in G) \in Nat
  BY <1>2, <1>3, <1>4, NothingHeld, SMTT(30)
<1> DEFINE none == <<>>
<1> HIDE DEF G, none
<1>6. /\ leases' \in [Generations -> Nat]
      /\ \A g \in Generations : leases'[g] = leases[g] - Holding(none, g) - Bit(g \in G)
      /\ kept' \subseteq 1..generation
      /\ LeasedIsKept' /\ CurrentIsKept'
  <2>1. Return(none, G) /\ \A g \in Generations :
           Holding(none, g) \in Nat /\ leases[g] - Holding(none, g) - Bit(g \in G) \in Nat
    BY <1>1, <1>5 DEF none
  <2> QED BY <1>1, <2>1, ReturnEffect DEF Inv
<1>7. LeasesExact'
  <2>1. \A g \in Generations :
          leases'[g] = Cardinality(Holders(req', g)) + Holding(signer', g) + leaked'[g]
    <3> TAKE g \in Generations
    <3>1. leases'[g] = leases[g] - Bit(g \in G)
      BY <1>4, <1>5, <1>6 DEF none
    <3>2. Cardinality(Holders(req', g)) + Bit(g \in G) = Cardinality(Holders(req, g))
      BY <1>2, <1>3
    <3> DEFINE a == Cardinality(Holders(req, g))
               b == Cardinality(Holders(req', g))
               c == Bit(g \in G)
               d == Holding(signer, g)
    <3>3. /\ a \in Nat /\ b \in Nat /\ c \in Nat /\ d \in Nat /\ leaked[g] \in Nat
          /\ leases[g] = a + d + leaked[g] /\ b + c = a /\ leases'[g] = leases[g] - c
      BY <1>2, <1>4, <3>1, <3>2
    <3> HIDE DEF a, b, c, d
    <3>4. leases'[g] = b + d + leaked[g]
      BY <3>3
    <3> QED BY <1>1, <3>4 DEF b, d
  <2> QED BY <2>1 DEF LeasesExact, Holders
<1>8. TypeOK'
  BY <1>1, <1>2, <1>6 DEF TypeOK
<1>9. ToldIsPinned'
  BY <1>1 DEF Inv, ToldIsPinned
<1> QED BY <1>2, <1>6, <1>7, <1>8, <1>9 DEF Inv

\* Pins leave the registry of the overlay's narinfos, which releases them.
LEMMA PinsLeave ==
  ASSUME TypeOK, Inv, NEW I \in SUBSET DOMAIN signer,
         signer' = Where(signer, DOMAIN signer \ I), Return(Where(signer, I), {}),
         UNCHANGED <<generation, req, leaked>>
  PROVE  /\ leases' \in [Generations -> Nat] /\ kept' \subseteq 1..generation
         /\ signer' \in Seq(SignerPin) /\ Registry(signer')
         /\ LeasesExact' /\ LeasedIsKept' /\ CurrentIsKept'
<1>1. signer \in Seq(SignerPin) /\ Registry(signer)
  BY DEF TypeOK, Registry
<1>2. signer' \in Seq(SignerPin) /\ Registry(signer')
  <2>1. DOMAIN signer \ I \in SUBSET DOMAIN signer
    OBVIOUS
  <2> QED BY <1>1, <2>1, RegistryWhere
<1> DEFINE lost == Where(signer, I)
           stay == Where(signer, DOMAIN signer \ I)
<1>3. \A g \in Generations : /\ Holding(lost, g) \in Nat /\ Holding(stay, g) \in Nat
                             /\ Holding(signer, g) = Holding(lost, g) + Holding(stay, g)
  BY <1>1, HoldingSplit
<1>4. \A g \in Generations :
        /\ leases[g] = Cardinality(Holders(req, g)) + Holding(signer, g) + leaked[g]
        /\ Cardinality(Holders(req, g)) \in Nat /\ leaked[g] \in Nat /\ leases[g] \in Nat
  BY ExactMeans, HoldersFinite DEF Inv, TypeOK
<1>5. \A g \in Generations : Bit(g \in {}) = 0
  BY DEF Bit
<1>6. Return(lost, {}) /\ signer' = stay
  OBVIOUS
<1> HIDE DEF lost, stay
<1>7. \A g \in Generations : leases[g] - Holding(lost, g) - Bit(g \in {}) \in Nat
  BY <1>3, <1>4, <1>5
<1>8. /\ leases' \in [Generations -> Nat]
      /\ \A g \in Generations : leases'[g] = leases[g] - Holding(lost, g) - Bit(g \in {})
      /\ kept' \subseteq 1..generation
      /\ LeasedIsKept' /\ CurrentIsKept'
  BY <1>3, <1>6, <1>7, ReturnEffect DEF Inv
<1>9. LeasesExact'
  <2>1. \A g \in Generations :
          leases'[g] = Cardinality(Holders(req', g)) + Holding(signer', g) + leaked'[g]
    BY <1>3, <1>4, <1>5, <1>6, <1>8
  <2> QED BY <2>1 DEF LeasesExact, Holders
<1> QED BY <1>2, <1>8, <1>9

\* What is left of told when the registry of winners becomes w.
LEMMA UntoldPinned ==
  ASSUME TypeOK, ToldIsPinned, NEW w, NEW n \in NARs,
         \A m \in DOMAIN w : w[m].nar = n /\ ~w[m].due =>
            \E k \in DOMAIN winner : winner[k].nar = n /\ winner[k].pub = w[m].pub
  PROVE  /\ Untold(w)[n] \in {told[n], None}
         /\ Untold(w)[n] \in Pubs =>
               \E m \in DOMAIN w : /\ w[m].nar = n /\ ~w[m].due
                                   /\ w[m].pub = Untold(w)[n]
<1>1. Untold(w)[n] = IF told[n] = "overlay" \/ \E m \in DOMAIN w : w[m].nar = n /\ ~w[m].due
                     THEN told[n] ELSE None
  BY DEF Untold
<1>2. "overlay" \notin Pubs /\ None \notin Pubs
  BY ServeAssumption DEF Sources
<1> DEFINE v == Untold(w)[n]
<1> HIDE DEF v
<1>3. ASSUME v \in Pubs
      PROVE  \E m \in DOMAIN w : w[m].nar = n /\ ~w[m].due /\ w[m].pub = v
  <2>1. PICK m \in DOMAIN w : w[m].nar = n /\ ~w[m].due
    BY <1>1, <1>2, <1>3 DEF v
  <2>2. v = told[n]
    BY <1>1, <2>1 DEF v
  <2>3. PICK k \in DOMAIN winner : winner[k].nar = n /\ winner[k].pub = w[m].pub
    BY <2>1
  <2>4. PICK j \in DOMAIN winner : winner[j].nar = n /\ winner[j].pub = told[n]
    BY <1>3, <2>2 DEF ToldIsPinned
  <2>5. j = k
    BY <2>3, <2>4 DEF TypeOK
  <2> QED BY <2>1, <2>2, <2>3, <2>4, <2>5
<1> QED BY <1>1, <1>3 DEF v

LEMMA UntoldType ==
  ASSUME TypeOK, NEW w PROVE Untold(w) \in [NARs -> Sources \cup {None}]
BY DEF TypeOK, Untold

\* The requests that begin.
LEMMA NarRequest ==
  ASSUME TypeOK, NEW pc \in {"opening", "searching"}, NEW n \in NARs, NEW head \in BOOLEAN,
         NEW g \in Generations \cup {None}, NEW src \in Sources \cup {None}
  PROVE  /\ NarAsked(pc, n, head, g, src) \in Request
         /\ NarAsked(pc, n, head, g, src).pc = pc
         /\ NarAsked(pc, n, head, g, src).lease = g
         /\ NarAsked(pc, n, head, g, src).source = src
         /\ NarAsked(pc, n, head, g, src).told = told[n]
<1> DEFINE q == NarAsked(pc, n, head, g, src)
<1>1. selection \in Seq(Pubs) /\ told[n] \in Sources \cup {None}
  BY ServeAssumption DEF TypeOK
<1>2. q = [pc |-> pc, path |-> None, nar |-> n, head |-> head, lease |-> g,
           todo |-> selection, source |-> src, told |-> told[n]]
  BY DEF NarAsked
<1> HIDE DEF q
<1>3. q.pc = pc /\ q.lease = g /\ q.source = src /\ q.told = told[n]
  BY ONLY <1>2
<1>4. /\ pc \in {"reading", "merging", "searching", "opening", "streaming"}
      /\ None \in Paths \cup {None}
  OBVIOUS
<1>5. q \in Request
  BY ONLY <1>1, <1>2, <1>4, n \in NARs, head \in BOOLEAN, g \in Generations \cup {None},
          src \in Sources \cup {None} DEF Request
<1> QED BY <1>3, <1>5 DEF q

LEMMA InfoRequest ==
  ASSUME TypeOK, NEW pc \in {"reading", "merging"}, NEW p \in Paths,
         NEW g \in Generations \cup {None}, NEW src \in Sources \cup {None}
  PROVE  /\ InfoAsked(pc, p, g, src) \in Request
         /\ InfoAsked(pc, p, g, src).pc = pc
         /\ InfoAsked(pc, p, g, src).nar = NarOf[p]
         /\ InfoAsked(pc, p, g, src).lease = g
         /\ InfoAsked(pc, p, g, src).source = src
         /\ InfoAsked(pc, p, g, src).told = None
<1> DEFINE q == InfoAsked(pc, p, g, src)
<1>1. selection \in Seq(Pubs) /\ NarOf[p] \in NARs
  BY ServeAssumption DEF TypeOK
<1>2. q = [pc |-> pc, path |-> p, nar |-> NarOf[p], head |-> FALSE, lease |-> g,
           todo |-> selection, source |-> src, told |-> None]
  BY DEF InfoAsked
<1> HIDE DEF q
<1>3. q.pc = pc /\ q.nar = NarOf[p] /\ q.lease = g /\ q.source = src /\ q.told = None
  BY ONLY <1>2
<1>4. /\ pc \in {"reading", "merging", "searching", "opening", "streaming"}
      /\ p \in Paths \cup {None} /\ FALSE \in BOOLEAN /\ None \in Sources \cup {None}
  OBVIOUS
<1>5. q \in Request
  BY ONLY <1>1, <1>2, <1>4, g \in Generations \cup {None}, src \in Sources \cup {None}
     DEF Request
<1> QED BY <1>3, <1>5 DEF q

-----------------------------------------------------------------------------
(* The steps.  Each lemma is about one action, or one kind of them. *)

LEMMA NoneFacts ==
  /\ None \notin Pubs /\ None # "overlay" /\ "overlay" \notin Pubs
  /\ None \notin Generations /\ None \notin Request
BY ServeAssumption DEF Sources, Generations

LEMMA InfoFromOverlayStep ==
  ASSUME TypeOK, Inv, NEW u \in Slots, InfoFromOverlay(u)
  PROVE  TypeOK' /\ Inv'
<1>1. PICK p \in Contents[generation] :
         /\ Begins(u)
         /\ req' = [req EXCEPT ![u] =
               InfoAsked("reading", p, generation, "overlay")]
         /\ Acquire(generation)
         /\ UNCHANGED <<closed, selection, generation, admitted, registries,
                        told, leaked, faults>>
  BY DEF InfoFromOverlay
<1> DEFINE q == InfoAsked("reading", p, generation, "overlay")
<1>2. /\ req[u] = None /\ req' = [req EXCEPT ![u] = q]
      /\ leases' = [leases EXCEPT ![generation] = @ + 1] /\ kept' = kept
      /\ UNCHANGED <<selection, generation, admitted, signer, winner, told, leaked>>
  BY <1>1 DEF Begins, Acquire, registries
<1>3. generation \in Generations /\ Contents[generation] \subseteq Paths /\ p \in Paths
  BY ServeAssumption DEF TypeOK, Generations
<1>5. /\ q \in Request /\ q.pc = "reading" /\ q.nar = NarOf[p]
      /\ q.lease = generation /\ q.source = "overlay"
  <2>1. "overlay" \in Sources \cup {None} /\ generation \in Generations \cup {None}
    BY <1>3 DEF Sources
  <2> QED BY <1>3, <2>1, InfoRequest
<1> HIDE DEF q
<1>6. Sound(q, generation)
  BY <1>3, <1>5, NoneFacts DEF Sound, NarsOf
<1>7. /\ req' \in [Slots -> Request \cup {None}] /\ RequestsAreSound'
      /\ \A g \in Generations :
            /\ Cardinality(Holders(req, g)) \in Nat
            /\ Cardinality(Holders(req', g)) \in Nat
            /\ Cardinality(Holders(req', g)) + Holds1(req[u], g)
                 = Cardinality(Holders(req, g)) + Holds1(q, g)
  BY <1>2, <1>5, <1>6, RequestStep DEF Inv
<1>8. \A g \in Generations : Holds1(req[u], g) = 0 /\ Holds1(q, g) = Bit(g = generation)
  BY <1>2, <1>5, NoneFacts DEF Holds1, Bit
<1>9. /\ leases' \in [Generations -> Nat]
      /\ \A g \in Generations : leases'[g] = leases[g] + Bit(g = generation)
                                /\ leases[g] \in Nat
  BY <1>2, <1>3 DEF TypeOK, Bit
<1>10. LeasesExact'
  <2>1. \A g \in Generations :
          leases'[g] = Cardinality(Holders(req', g)) + Holding(signer', g) + leaked'[g]
    <3> TAKE g \in Generations
    <3> DEFINE a == Cardinality(Holders(req, g))
               b == Cardinality(Holders(req', g))
               c == Bit(g = generation)
               d == Holding(signer, g)
    <3>1. d \in Nat
      BY HoldingType DEF TypeOK
    <3>2. c \in Nat
      BY DEF Bit
    <3>3. leases[g] = a + d + leaked[g] /\ leaked[g] \in Nat
      BY ExactMeans DEF Inv, TypeOK
    <3>4. a \in Nat /\ b \in Nat /\ b = a + c /\ leases'[g] = leases[g] + c
      BY <1>7, <1>8, <1>9
    <3> HIDE DEF a, b, c, d
    <3>5. leases'[g] = b + d + leaked[g]
      BY <3>1, <3>2, <3>3, <3>4
    <3> QED BY <1>2, <3>5 DEF b, d
  <2> QED BY <2>1 DEF LeasesExact, Holders
<1>11. LeasedIsKept' /\ CurrentIsKept'
  BY <1>2, <1>9 DEF Inv, LeasedIsKept, CurrentIsKept, Bit
<1>12. ToldIsPinned'
  BY <1>2 DEF Inv, ToldIsPinned
<1>13. TypeOK'
  BY <1>2, <1>7, <1>9 DEF TypeOK
<1> QED BY <1>7, <1>10, <1>11, <1>12, <1>13 DEF Inv

LEMMA InfoFromPublicationsStep ==
  ASSUME TypeOK, Inv, NEW u \in Slots, InfoFromPublications(u)
  PROVE  TypeOK' /\ Inv'
<1>1. PICK p \in Paths \ Contents[generation] :
         /\ Begins(u)
         /\ req' = [req EXCEPT ![u] = InfoAsked("merging", p, None, None)]
         /\ UNCHANGED <<closed, selection, overlay, registries, told, leaked,
                        faults>>
  BY DEF InfoFromPublications
<1> DEFINE q == InfoAsked("merging", p, None, None)
<1>2. /\ req[u] = None /\ req' = [req EXCEPT ![u] = q]
      /\ UNCHANGED <<selection, generation, admitted, kept, leases, signer, winner,
                     told, leaked>>
  BY <1>1 DEF Begins, overlay, registries
<1>4. q \in Request /\ q.pc = "merging" /\ q.lease = None /\ q.source = None
  BY InfoRequest
<1> HIDE DEF q
<1>5. Sound(q, generation)
  BY <1>4, NoneFacts DEF Sound
<1>6. \A g \in Generations : Holds1(q, g) = Holds1(req[u], g)
  BY <1>2, <1>4, NoneFacts DEF Holds1
<1>7. /\ req' \in [Slots -> Request \cup {None}]
      /\ RequestsAreSound' /\ LeasesExact' /\ LeasedIsKept' /\ CurrentIsKept'
  BY <1>2, <1>4, <1>5, <1>6, QuietStep DEF overlay
<1>8. ToldIsPinned' /\ TypeOK'
  BY <1>2, <1>7 DEF Inv, ToldIsPinned, TypeOK
<1> QED BY <1>7, <1>8 DEF Inv

\* A merge, a search, or a response that begins.
LEMMA RequestMoves ==
  ASSUME TypeOK, Inv, NEW u \in Slots, MergeStep(u) \/ Search(u) \/
         (At(u, "opening") /\ Move(u, "streaming") /\
          UNCHANGED <<closed, selection, overlay, registries, told, leaked, requests>>)
  PROVE  TypeOK' /\ Inv'
<1>1. /\ req[u] # None /\ req[u] \in Request /\ Sound(req[u], generation)
      /\ UNCHANGED <<selection, generation, admitted, kept, leases, signer, winner,
                     told, leaked>>
  BY DEF MergeStep, Search, At, TypeOK, Inv, RequestsAreSound, overlay, registries
<1>2. PICK q \in Request :
        req' = [req EXCEPT ![u] = q] /\ Sound(q, generation) /\ q.lease = req[u].lease
  <2> DEFINE pub == Head(req[u].todo)
  <2>1. req[u].todo # <<>> => pub \in Pubs /\ Tail(req[u].todo) \in Seq(Pubs)
    <3>1. req[u].todo \in Seq(Pubs)
      BY <1>1 DEF Request
    <3> QED BY <3>1
  <2> HIDE DEF pub
  <2>2. CASE MergeStep(u)
    <3> DEFINE src == IF req[u].source = None /\ req[u].path \in Holds[pub]
                      THEN pub ELSE req[u].source
               q == [req[u] EXCEPT !.todo = Tail(req[u].todo), !.source = src]
    <3>1. req[u].pc = "merging" /\ req[u].todo # <<>> /\ req' = [req EXCEPT ![u] = q]
      BY <2>2 DEF MergeStep, At, pub
    <3>2. src \in Pubs \cup {None}
      BY <1>1, <2>1, <3>1 DEF Sound, Request, Sources
    <3> HIDE DEF src
    <3>3. q \in Request
      BY <1>1, <2>1, <3>1, <3>2 DEF Request, Sources
    <3>4. q.pc = "merging" /\ q.source = src /\ q.lease = req[u].lease
      BY <1>1, <3>1 DEF Request
    <3> HIDE DEF q
    <3>5. Sound(q, generation)
      BY <1>1, <3>1, <3>2, <3>4, NoneFacts DEF Sound
    <3> QED BY <3>1, <3>3, <3>4, <3>5
  <2>3. CASE Search(u) /\ req[u].nar \in NarsOf(Holds[pub])
    <3> DEFINE q == [req[u] EXCEPT !.source = pub, !.pc = "opening"]
    <3>1. req[u].pc = "searching" /\ req[u].todo # <<>> /\ req' = [req EXCEPT ![u] = q]
      BY <2>3 DEF Search, At, pub
    <3>2. q \in Request
      BY <1>1, <2>1, <3>1 DEF Request, Sources
    <3>3. q.pc = "opening" /\ q.told = req[u].told /\ q.lease = req[u].lease
      BY <1>1, <3>1 DEF Request
    <3> HIDE DEF q
    <3>5. Sound(q, generation)
      BY <1>1, <3>1, <3>3 DEF Sound
    <3> QED BY <3>1, <3>2, <3>3, <3>5
  <2>4. CASE Search(u) /\ ~(req[u].nar \in NarsOf(Holds[pub]))
    <3> DEFINE q == [req[u] EXCEPT !.todo = Tail(req[u].todo)]
    <3>1. /\ req[u].pc = "searching" /\ req[u].todo # <<>>
          /\ req' = [req EXCEPT ![u].todo = Tail(req[u].todo)]
      BY <2>4 DEF Search, At, pub
    <3>2. req' = [req EXCEPT ![u] = q]
      BY <3>1
    <3>3. q \in Request
      BY <1>1, <2>1, <3>1 DEF Request
    <3>4. q.pc = "searching" /\ q.told = req[u].told /\ q.lease = req[u].lease
      BY <1>1, <3>1 DEF Request
    <3> HIDE DEF q
    <3>5. Sound(q, generation)
      BY <1>1, <3>1, <3>4 DEF Sound
    <3> QED BY <3>2, <3>3, <3>4, <3>5
  <2>5. CASE At(u, "opening") /\ Move(u, "streaming")
    <3> DEFINE q == [req[u] EXCEPT !.pc = "streaming"]
    <3>1. req[u].pc = "opening" /\ req' = [req EXCEPT ![u] = q]
      BY <2>5 DEF At, Move
    <3>2. q \in Request
      BY <1>1 DEF Request
    <3>3. /\ q.pc = "streaming" /\ q.told = req[u].told /\ q.lease = req[u].lease
          /\ q.source = req[u].source
      BY <1>1 DEF Request
    <3> HIDE DEF q
    <3>4. Sound(q, generation)
      BY <1>1, <3>1, <3>3 DEF Sound
    <3> QED BY <3>1, <3>2, <3>3, <3>4
  <2> QED BY <2>2, <2>3, <2>4, <2>5
<1>3. \A g \in Generations : Holds1(q, g) = Holds1(req[u], g)
  BY <1>1, <1>2, NoneFacts DEF Holds1
<1>4. /\ req' \in [Slots -> Request \cup {None}]
      /\ RequestsAreSound' /\ LeasesExact' /\ LeasedIsKept' /\ CurrentIsKept'
  BY <1>1, <1>2, <1>3, QuietStep DEF overlay
<1>5. ToldIsPinned' /\ TypeOK'
  BY <1>1, <1>4 DEF Inv, ToldIsPinned, TypeOK
<1> QED BY <1>4, <1>5 DEF Inv

\* TypeOK says of the registries what the lemmas say.
LEMMA RegistriesOK ==
  TypeOK => /\ signer \in Seq(SignerPin) /\ Registry(signer)
            /\ winner \in Seq(WinnerPin) /\ Registry(winner)
BY DEF TypeOK, Registry

\* What the leases and pins count up to.
LEMMA Counts ==
  ASSUME TypeOK, Inv, NEW g \in Generations
  PROVE  /\ leases[g] = Cardinality(Holders(req, g)) + Holding(signer, g) + leaked[g]
         /\ Cardinality(Holders(req, g)) \in Nat /\ Holding(signer, g) \in Nat
         /\ leaked[g] \in Nat /\ leases[g] \in Nat
BY ExactMeans, HoldersFinite, HoldingType DEF Inv, TypeOK

LEMMA NarFromPinStep ==
  ASSUME TypeOK, Inv, NEW u \in Slots, NarFromPin(u)
  PROVE  TypeOK' /\ Inv'
<1>0. PICK n \in NARs, head \in BOOLEAN : \E m \in PinsOf(signer, n) :
         /\ ~signer[m].due /\ Begins(u)
         /\ req' = [req EXCEPT ![u] =
               NarAsked("opening", n, head, signer[m].gen, "overlay")]
         /\ signer' = Without(signer, n)
         /\ UNCHANGED <<closed, selection, overlay, winner, told, leaked, faults>>
  BY DEF NarFromPin
<1>1. PICK m \in PinsOf(signer, n) :
         /\ ~signer[m].due /\ Begins(u)
         /\ req' = [req EXCEPT ![u] =
               NarAsked("opening", n, head, signer[m].gen, "overlay")]
         /\ signer' = Without(signer, n)
         /\ UNCHANGED <<closed, selection, overlay, winner, told, leaked, faults>>
  BY <1>0
<1> DEFINE g0 == signer[m].gen
           src == "overlay"
           q == NarAsked("opening", n, head, g0, src)
           I == PinsOf(signer, n)
<1>2. /\ req[u] = None /\ req' = [req EXCEPT ![u] = q]
      /\ UNCHANGED <<selection, generation, admitted, kept, leases, winner, told, leaked>>
  BY <1>1 DEF Begins, overlay
<1>3. /\ signer \in Seq(SignerPin) /\ Registry(signer)
      /\ I \in SUBSET DOMAIN signer /\ DOMAIN signer \ I \in SUBSET DOMAIN signer
      /\ signer' = Where(signer, DOMAIN signer \ I)
  BY <1>1, RegistriesOK DEF PinsOf, Without
<1>4. I = {m} /\ g0 \in Generations /\ src \in Sources
  <2>1. m \in DOMAIN signer /\ signer[m] \in SignerPin
    BY <1>1, <1>3 DEF PinsOf
  <2>2. I = {m}
    BY <1>1, <1>3, <2>1 DEF PinsOf, Registry
  <2> QED BY <2>1, <2>2 DEF SignerPin, Sources
<1>5. \A g \in Generations :
         /\ Holding(signer', g) \in Nat
         /\ Holding(signer, g) = Holding(signer', g) + Bit(g = g0)
  <2> TAKE g \in Generations
  <2>1. /\ Holding(Where(signer, I), g) \in Nat
        /\ Holding(Where(signer, DOMAIN signer \ I), g) \in Nat
        /\ Holding(signer, g) = Holding(Where(signer, I), g)
                                + Holding(Where(signer, DOMAIN signer \ I), g)
    <3> HIDE DEF I
    <3> QED BY <1>3, HoldingSplit
  <2>2. Holding(Where(signer, I), g) = Cardinality({k \in I : signer[k].gen = g})
    <3>1. I \in SUBSET (1..Len(signer))
      BY <1>3
    <3> HIDE DEF I
    <3> QED BY <1>3, <3>1, HoldingWhere
  <2>3. {k \in I : signer[k].gen = g} = IF g = g0 THEN {m} ELSE {}
    BY <1>4
  <2>4. Cardinality({m}) = 1 /\ Cardinality({}) = 0
    BY FS_Singleton, FS_EmptySet
  <2>5. Holding(Where(signer, I), g) = Bit(g = g0)
    BY <2>2, <2>3, <2>4 DEF Bit
  <2> QED BY <1>3, <2>1, <2>5
<1> HIDE DEF g0, src, I
<1>6. /\ q \in Request /\ q.pc = "opening" /\ q.lease = g0 /\ q.source = "overlay"
  <2>1. /\ q \in Request /\ q.pc = "opening" /\ q.lease = g0 /\ q.source = src
    BY <1>4, NarRequest
  <2> QED BY <2>1 DEF src
<1> HIDE DEF q
<1>7. Sound(q, generation)
  BY <1>6 DEF Sound
<1>8. /\ req' \in [Slots -> Request \cup {None}] /\ RequestsAreSound'
      /\ \A g \in Generations :
            /\ Cardinality(Holders(req, g)) \in Nat
            /\ Cardinality(Holders(req', g)) \in Nat
            /\ Cardinality(Holders(req', g)) + Holds1(req[u], g)
                 = Cardinality(Holders(req, g)) + Holds1(q, g)
  BY <1>2, <1>6, <1>7, RequestStep DEF Inv
<1>9. \A g \in Generations : Holds1(req[u], g) = 0 /\ Holds1(q, g) = Bit(g = g0)
  BY <1>2, <1>6, NoneFacts DEF Holds1, Bit
<1>10. LeasesExact'
  <2>1. \A g \in Generations :
          leases'[g] = Cardinality(Holders(req', g)) + Holding(signer', g) + leaked'[g]
    <3> TAKE g \in Generations
    <3> DEFINE a == Cardinality(Holders(req, g))
               b == Cardinality(Holders(req', g))
               c == Bit(g = g0)
               d == Holding(signer, g)
               e == Holding(signer', g)
    <3>1. leases[g] = a + d + leaked[g] /\ d \in Nat /\ leaked[g] \in Nat
      BY Counts
    <3>2. a \in Nat /\ b \in Nat /\ b = a + c /\ d = e + c /\ e \in Nat /\ c \in Nat
      BY <1>5, <1>8, <1>9 DEF Bit
    <3> HIDE DEF a, b, c, d, e
    <3>3. leases[g] = b + e + leaked[g]
      BY <3>1, <3>2
    <3> QED BY <1>2, <3>3 DEF b, e
  <2> QED BY <2>1 DEF LeasesExact, Holders
<1>11. LeasedIsKept' /\ CurrentIsKept' /\ ToldIsPinned'
  BY <1>2 DEF Inv, LeasedIsKept, CurrentIsKept, ToldIsPinned
<1>12. signer' \in Seq(SignerPin) /\ Registry(signer')
  BY <1>3, RegistryWhere
<1>13. TypeOK'
  BY <1>2, <1>8, <1>12 DEF TypeOK, Registry
<1> QED BY <1>8, <1>10, <1>11, <1>13 DEF Inv

LEMMA NarFromOverlayStep ==
  ASSUME TypeOK, Inv, NEW u \in Slots, NarFromOverlay(u)
  PROVE  TypeOK' /\ Inv'
<1>1. PICK n \in NarsOf(Contents[generation]), head \in BOOLEAN :
         /\ Begins(u)
         /\ req' = [req EXCEPT ![u] =
               NarAsked("opening", n, head, generation, "overlay")]
         /\ signer' = Without(signer, n)
         /\ leases' = [g \in Generations |->
               leases[g] - Holding(Where(signer, PinsOf(signer, n)), g)
               + (IF g = generation THEN 1 ELSE 0)]
         /\ Prune(leases', admitted)
         /\ UNCHANGED <<closed, selection, generation, admitted, winner,
                        told, leaked, faults>>
  BY DEF NarFromOverlay
<1> DEFINE src == "overlay"
           q == NarAsked("opening", n, head, generation, src)
           I == PinsOf(signer, n)
           old == Where(signer, I)
<1>2. /\ req[u] = None /\ req' = [req EXCEPT ![u] = q]
      /\ leases' = [g \in Generations |-> leases[g] - Holding(old, g) + Bit(g = generation)]
      /\ kept' = {g \in kept : g >= admitted \/ g = generation \/ leases'[g] > 0}
      /\ UNCHANGED <<selection, generation, admitted, winner, told, leaked>>
  BY <1>1 DEF Begins, Prune, Bit
<1>3. /\ signer \in Seq(SignerPin) /\ Registry(signer)
      /\ I \in SUBSET DOMAIN signer /\ DOMAIN signer \ I \in SUBSET DOMAIN signer
      /\ signer' = Where(signer, DOMAIN signer \ I)
  BY <1>1, RegistriesOK DEF PinsOf, Without
<1>4. generation \in Generations /\ n \in NARs /\ src \in Sources
  <2>1. generation \in Generations /\ Contents[generation] \subseteq Paths
    BY ServeAssumption DEF TypeOK, Generations
  <2> QED BY <1>1, <2>1, ServeAssumption DEF NarsOf, Sources
<1>5. \A g \in Generations :
         /\ Holding(old, g) \in Nat /\ Holding(signer', g) \in Nat
         /\ Holding(signer, g) = Holding(old, g) + Holding(signer', g)
  <2> TAKE g \in Generations
  <2>0. /\ signer \in Seq(SignerPin) /\ I \in SUBSET DOMAIN signer
    BY <1>3
  <2> HIDE DEF I
  <2>1. /\ Holding(Where(signer, I), g) \in Nat
        /\ Holding(Where(signer, DOMAIN signer \ I), g) \in Nat
        /\ Holding(signer, g) = Holding(Where(signer, I), g)
                                + Holding(Where(signer, DOMAIN signer \ I), g)
    BY ONLY <2>0, HoldingSplit, ZenonT(60)
  <2> QED BY <1>3, <2>1
<1> HIDE DEF src, I, old
<1>6. q \in Request /\ q.pc = "opening" /\ q.lease = generation /\ q.source = "overlay"
  <2>1. /\ q \in Request /\ q.pc = "opening" /\ q.lease = generation /\ q.source = src
    BY <1>4, NarRequest
  <2> QED BY <2>1 DEF src
<1> HIDE DEF q
<1>7. Sound(q, generation)
  BY <1>6 DEF Sound
<1>8. /\ req' \in [Slots -> Request \cup {None}] /\ RequestsAreSound'
      /\ \A g \in Generations :
            /\ Cardinality(Holders(req, g)) \in Nat
            /\ Cardinality(Holders(req', g)) \in Nat
            /\ Cardinality(Holders(req', g)) + Holds1(req[u], g)
                 = Cardinality(Holders(req, g)) + Holds1(q, g)
  BY <1>2, <1>6, <1>7, RequestStep DEF Inv
<1>9. \A g \in Generations : Holds1(req[u], g) = 0 /\ Holds1(q, g) = Bit(g = generation)
  BY <1>2, <1>6, NoneFacts DEF Holds1, Bit
<1>10. \A g \in Generations :
          /\ leases'[g] = Cardinality(Holders(req', g)) + Holding(signer', g) + leaked'[g]
          /\ leases'[g] \in Nat
          /\ leases'[g] > 0 => leases[g] > 0 \/ g = generation
  <2> TAKE g \in Generations
  <2> DEFINE a == Cardinality(Holders(req, g))
             b == Cardinality(Holders(req', g))
             c == Bit(g = generation)
             d == Holding(signer, g)
             e == Holding(signer', g)
             o == Holding(old, g)
  <2>1. leases[g] = a + d + leaked[g] /\ leases[g] \in Nat /\ leaked[g] \in Nat
    BY Counts
  <2>2. /\ a \in Nat /\ b \in Nat /\ b = a + c /\ d = o + e /\ d \in Nat /\ e \in Nat
        /\ o \in Nat /\ c \in Nat /\ leases'[g] = leases[g] - o + c
    <3>1. c \in Nat
      BY DEF Bit
    <3>2. a \in Nat /\ b \in Nat /\ b = a + c
      BY <1>8, <1>9
    <3>3. d = o + e /\ d \in Nat /\ e \in Nat /\ o \in Nat
      BY <1>5
    <3>4. leases'[g] = leases[g] - o + c
      BY <1>2
    <3> QED BY <3>1, <3>2, <3>3, <3>4
  <2>3. c = 0 \/ g = generation
    BY DEF Bit
  <2> HIDE DEF a, b, c, d, e, o
  <2>4. /\ leases'[g] = b + e + leaked[g] /\ leases'[g] \in Nat
        /\ leases'[g] > 0 => leases[g] > 0 \/ g = generation
    BY <2>1, <2>2, <2>3
  <2> QED BY <1>2, <2>4 DEF b, e
<1>11. LeasesExact'
  BY <1>10 DEF LeasesExact, Holders
<1>12. leases' \in [Generations -> Nat]
  BY <1>2, <1>10
<1>13. kept' \subseteq 1..generation /\ CurrentIsKept' /\ LeasedIsKept'
  BY <1>2, <1>10 DEF Inv, LeasedIsKept, CurrentIsKept, TypeOK
<1>14. signer' \in Seq(SignerPin) /\ Registry(signer')
  BY <1>3, RegistryWhere
<1>15. TypeOK' /\ ToldIsPinned'
  BY <1>2, <1>8, <1>12, <1>13, <1>14 DEF TypeOK, Registry, Inv, ToldIsPinned
<1> QED BY <1>8, <1>11, <1>13, <1>15 DEF Inv

LEMMA NarFromPublicationsStep ==
  ASSUME TypeOK, Inv, NEW u \in Slots, NarFromPublications(u)
  PROVE  TypeOK' /\ Inv'
<1>1. PICK n \in NARs \ NarsOf(Contents[generation]), head \in BOOLEAN :
        LET pins == {m \in PinsOf(winner, n) : ~winner[m].due}
        IN  /\ Begins(u)
            /\ req' = [req EXCEPT ![u] =
                  IF pins = {} THEN NarAsked("searching", n, head, None, None)
                  ELSE NarAsked("opening", n, head, None,
                                winner[CHOOSE m \in pins : TRUE].pub)]
            /\ winner' = IF pins = {} THEN Without(winner, n) ELSE winner
            /\ UNCHANGED <<closed, selection, overlay, signer, armed, told,
                           leaked, faults>>
  BY DEF NarFromPublications
<1> DEFINE pins == {m \in PinsOf(winner, n) : ~winner[m].due}
           q == IF pins = {} THEN NarAsked("searching", n, head, None, None)
                ELSE NarAsked("opening", n, head, None,
                              winner[CHOOSE m \in pins : TRUE].pub)
           I == PinsOf(winner, n)
<1>2. /\ req[u] = None /\ req' = [req EXCEPT ![u] = q]
      /\ winner' = IF pins = {} THEN Without(winner, n) ELSE winner
      /\ UNCHANGED <<selection, generation, admitted, kept, leases, signer, told, leaked>>
  BY <1>1 DEF Begins, overlay
<1>3. /\ winner \in Seq(WinnerPin) /\ Registry(winner)
      /\ I \in SUBSET DOMAIN winner /\ DOMAIN winner \ I \in SUBSET DOMAIN winner
      /\ Without(winner, n) = Where(winner, DOMAIN winner \ I)
  BY RegistriesOK DEF PinsOf, Without
<1>4. \A m \in pins : /\ m \in DOMAIN winner /\ winner[m].nar = n /\ ~winner[m].due
                      /\ winner[m].pub \in Pubs
  <2> TAKE m \in pins
  <2>1. m \in DOMAIN winner /\ winner[m].nar = n /\ ~winner[m].due
    BY DEF PinsOf
  <2>2. winner[m] \in WinnerPin
    BY <1>3, <2>1
  <2> QED BY <2>1, <2>2 DEF WinnerPin
<1>5. told[n] \in Pubs \cup {None}
  BY <1>1 DEF Inv, ToldIsPinned, TypeOK, Sources
<1>6. told[n] \in Pubs => \E m \in pins : winner[m].pub = told[n]
  BY DEF Inv, ToldIsPinned, PinsOf
<1>7. \A m \in pins : told[n] # None => winner[m].pub = told[n]
  BY <1>3, <1>4, <1>5, <1>6 DEF Registry
<1>8. q \in Request /\ q.lease = None /\ Sound(q, generation)
  <2>1. CASE pins = {}
    <3>1. told[n] = None
      BY <1>5, <1>6, <2>1
    <3>2. q = NarAsked("searching", n, head, None, None)
      BY <2>1
    <3> HIDE DEF q
    <3>3. q \in Request /\ q.pc = "searching" /\ q.lease = None /\ q.told = told[n]
      BY <3>2, NarRequest
    <3> QED BY <3>1, <3>3 DEF Sound
  <2>2. CASE pins # {}
    <3> DEFINE m == CHOOSE m \in pins : TRUE
               src == winner[m].pub
    <3>1. m \in pins
      BY <2>2
    <3>2. q = NarAsked("opening", n, head, None, src)
      BY <2>2
    <3> HIDE DEF q, m, pins
    <3>3. src \in Pubs /\ (told[n] # None => src = told[n])
      BY <1>4, <1>7, <3>1
    <3> HIDE DEF src
    <3>4. /\ q \in Request /\ q.pc = "opening" /\ q.lease = None /\ q.told = told[n]
          /\ q.source = src
      BY <3>2, <3>3, NarRequest DEF Sources
    <3> QED BY <3>3, <3>4 DEF Sound
  <2> QED BY <2>1, <2>2
<1> HIDE DEF q
<1>9. \A g \in Generations : Holds1(q, g) = Holds1(req[u], g)
  BY <1>2, <1>8, NoneFacts DEF Holds1
<1>10. /\ req' \in [Slots -> Request \cup {None}]
       /\ RequestsAreSound' /\ LeasesExact' /\ LeasedIsKept' /\ CurrentIsKept'
  BY <1>2, <1>8, <1>9, QuietStep DEF overlay
<1>11. winner' \in Seq(WinnerPin) /\ Registry(winner')
  <2> HIDE DEF I, pins
  <2> QED BY <1>2, <1>3, RegistryWhere
<1>12. ToldIsPinned'
  <2>1. CASE pins # {}
    BY <1>2, <2>1 DEF Inv, ToldIsPinned
  <2>2. CASE pins = {}
    <3>1. /\ told[n] = None /\ winner' = Where(winner, DOMAIN winner \ I)
      BY <1>2, <1>3, <1>5, <1>6, <2>2
    <3>2. \A k \in DOMAIN winner \ I : \E m \in DOMAIN winner' : winner'[m] = winner[k]
      <4> DEFINE J == DOMAIN winner \ I
      <4>1. J \in SUBSET (1..Len(winner))
        BY <1>3
      <4> HIDE DEF J
      <4>2. \A k \in J : \E m \in DOMAIN Where(winner, J) : Where(winner, J)[m] = winner[k]
        BY <1>3, <4>1, WhereElements
      <4> QED BY <3>1, <4>2 DEF J
    <3> SUFFICES ASSUME NEW l \in NARs, told[l] \in Pubs
                 PROVE  \E m \in DOMAIN winner' : /\ winner'[m].nar = l /\ ~winner'[m].due
                                                  /\ winner'[m].pub = told[l]
      BY <1>2 DEF Inv, ToldIsPinned
    <3>3. PICK k \in DOMAIN winner : /\ winner[k].nar = l /\ ~winner[k].due
                                     /\ winner[k].pub = told[l]
      BY DEF Inv, ToldIsPinned
    <3>4. k \notin I
      BY <3>1, <3>3, NoneFacts DEF PinsOf
    <3> QED BY <3>2, <3>3, <3>4
  <2> QED BY <2>1, <2>2
<1>13. TypeOK'
  <2>1. UNCHANGED <<selection, generation, admitted, kept, leases, signer, told, leaked>>
    BY <1>2
  <2> QED BY <1>10, <1>11, <2>1 DEF TypeOK, Registry
<1> QED BY <1>10, <1>12, <1>13 DEF Inv

LEMMA InfoReadStep ==
  ASSUME TypeOK, Inv, NEW u \in Slots, InfoRead(u)
  PROVE  TypeOK' /\ Inv'
<1> DEFINE n == req[u].nar
           g0 == req[u].lease
           e == [nar |-> n, gen |-> g0, due |-> FALSE]
           K == KeptAt(signer, n)
           I == DOMAIN signer \ K
           lost == Gone(signer, n)
           stay == Kept(signer, n)
<1>1. /\ req[u] # None /\ req[u].pc = "reading" /\ req' = [req EXCEPT ![u] = None]
      /\ signer' = Append(stay, e) /\ Return(lost, {})
      /\ told' = [told EXCEPT ![n] = "overlay"]
      /\ UNCHANGED <<selection, generation, admitted, winner, leaked>>
  BY DEF InfoRead, At, Respond
<1>2. /\ n \in NARs /\ g0 \in Generations /\ n \in NarsOf(Contents[generation])
      /\ e \in SignerPin /\ e.nar = n /\ e.gen = g0
  <2>1. req[u] \in Request /\ Sound(req[u], generation)
    BY <1>1 DEF TypeOK, Inv, RequestsAreSound
  <2>2. n \in NARs /\ g0 \in Generations /\ n \in NarsOf(Contents[generation])
    BY <1>1, <2>1 DEF Sound, Request
  <2> QED BY <2>2 DEF SignerPin
<1>3. signer \in Seq(SignerPin) /\ Registry(signer)
  BY RegistriesOK
<1> HIDE DEF e, n, g0
<1>4. /\ K \in SUBSET DOMAIN signer /\ stay \in Seq(SignerPin)
      /\ Append(stay, e) \in Seq(SignerPin) /\ Registry(Append(stay, e))
  BY <1>2, <1>3, RegistrySet
<1>5. stay = Where(signer, K) /\ lost = Where(signer, DOMAIN signer \ K)
  BY DEF Kept, Gone
<1> HIDE DEF K, I, lost, stay
<1>6. \A g \in Generations :
         /\ Holding(stay, g) \in Nat /\ Holding(lost, g) \in Nat
         /\ Holding(signer, g) = Holding(stay, g) + Holding(lost, g)
  BY <1>3, <1>4, <1>5, HoldingSplit
<1>7. \A g \in Generations :
         Holding(Append(stay, e), g) = Holding(stay, g) + Bit(g = g0)
  <2> TAKE g \in Generations
  <2>1. Holding(Append(stay, e), g) = Holding(stay, g) + (IF e.gen = g THEN 1 ELSE 0)
    BY <1>2, <1>4, HoldingAppend
  <2> QED BY <1>2, <2>1 DEF Bit
<1>8. /\ req' \in [Slots -> Request \cup {None}] /\ RequestsAreSound'
      /\ \A g \in Generations :
            /\ Cardinality(Holders(req, g)) \in Nat
            /\ Cardinality(Holders(req', g)) \in Nat
            /\ Cardinality(Holders(req', g)) + Holds1(req[u], g)
                 = Cardinality(Holders(req, g)) + Holds1(None, g)
  BY <1>1, RequestStep DEF Inv
<1>9. \A g \in Generations : Holds1(req[u], g) = Bit(g = g0) /\ Holds1(None, g) = 0
  BY <1>1 DEF Holds1, Bit, g0
<1>10. \A g \in Generations : Bit(g \in {}) = 0
  BY DEF Bit
<1>11. \A g \in Generations : leases[g] - Holding(lost, g) - Bit(g \in {}) \in Nat
  <2> TAKE g \in Generations
  <2>1. /\ leases[g] = Cardinality(Holders(req, g)) + Holding(signer, g) + leaked[g]
        /\ Cardinality(Holders(req, g)) \in Nat /\ leaked[g] \in Nat
    BY Counts
  <2> QED BY <1>6, <1>10, <2>1
<1>12. /\ leases' \in [Generations -> Nat]
       /\ \A g \in Generations : leases'[g] = leases[g] - Holding(lost, g) - Bit(g \in {})
       /\ kept' \subseteq 1..generation
       /\ LeasedIsKept' /\ CurrentIsKept'
  BY <1>1, <1>6, <1>11, ReturnEffect DEF Inv
<1>13. LeasesExact'
  <2>1. \A g \in Generations :
          leases'[g] = Cardinality(Holders(req', g)) + Holding(signer', g) + leaked'[g]
    <3> TAKE g \in Generations
    <3> DEFINE a == Cardinality(Holders(req, g))
               b == Cardinality(Holders(req', g))
               c == Bit(g = g0)
               d == Holding(signer, g)
               l == Holding(lost, g)
               k == Holding(stay, g)
    <3>1. leases[g] = a + d + leaked[g] /\ leases[g] \in Nat /\ leaked[g] \in Nat
      BY Counts
    <3>2. a \in Nat /\ b \in Nat /\ b + c = a
      BY <1>8, <1>9
    <3>3. d = k + l /\ k \in Nat /\ l \in Nat /\ c \in Nat
      BY <1>6 DEF Bit
    <3>4. leases'[g] = leases[g] - l
      BY <1>6, <1>10, <1>12, <3>1
    <3>5. Holding(signer', g) = k + c
      BY <1>1, <1>7
    <3> HIDE DEF a, b, c, d, l, k
    <3>6. leases'[g] = b + (k + c) + leaked[g]
      BY <3>1, <3>2, <3>3, <3>4
    <3> QED BY <1>1, <3>5, <3>6 DEF b
  <2> QED BY <2>1 DEF LeasesExact, Holders
<1>14. told' \in [NARs -> Sources \cup {None}]
  BY <1>1, <1>2 DEF TypeOK, Sources
<1>15. TypeOK'
  <2>1. signer' \in Seq(SignerPin) /\ Registry(signer')
    BY <1>1, <1>4
  <2> QED BY <1>1, <1>8, <1>12, <1>14, <2>1, SMTT(30) DEF TypeOK, Registry
<1>16. ToldIsPinned'
  <2>1. told'[n] = "overlay" /\ \A l \in NARs \ {n} : told'[l] = told[l]
    BY <1>1, <1>2 DEF TypeOK
  <2> SUFFICES ASSUME NEW l \in NARs
               PROVE  /\ told'[l] \in Pubs =>
                            \E m \in DOMAIN winner : /\ winner[m].nar = l /\ ~winner[m].due
                                                     /\ winner[m].pub = told'[l]
                      /\ told'[l] = "overlay" => l \in NarsOf(Contents[generation])
    BY <1>1 DEF ToldIsPinned
  <2>2. CASE l = n
    BY <1>2, <2>1, <2>2, NoneFacts
  <2>3. CASE l # n
    BY <2>1, <2>3 DEF Inv, ToldIsPinned
  <2> QED BY <2>2, <2>3
<1> QED BY <1>8, <1>12, <1>13, <1>15, <1>16 DEF Inv

LEMMA InfoReadFailsStep ==
  ASSUME TypeOK, Inv, NEW u \in Slots, InfoReadFails(u)
  PROVE  TypeOK' /\ Inv'
<1> DEFINE g0 == req[u].lease
<1>1. /\ req[u] # None /\ req[u].pc = "reading" /\ req' = [req EXCEPT ![u] = None]
      /\ leaked' = [leaked EXCEPT ![g0] = @ + 1]
      /\ UNCHANGED <<selection, generation, admitted, kept, leases, signer, winner, told>>
  BY DEF InfoReadFails, At, Respond, overlay, registries
<1>2. g0 \in Generations
  <2>1. req[u] \in Request /\ Sound(req[u], generation)
    BY <1>1 DEF TypeOK, Inv, RequestsAreSound
  <2> QED BY <1>1, <2>1 DEF Sound, Request
<1> HIDE DEF g0
<1>3. /\ leaked' \in [Generations -> Nat]
      /\ \A g \in Generations : leaked'[g] = leaked[g] + Bit(g = g0)
  BY <1>1, <1>2 DEF TypeOK, Bit
<1>4. /\ req' \in [Slots -> Request \cup {None}] /\ RequestsAreSound'
      /\ \A g \in Generations :
            /\ Cardinality(Holders(req, g)) \in Nat
            /\ Cardinality(Holders(req', g)) \in Nat
            /\ Cardinality(Holders(req', g)) + Holds1(req[u], g)
                 = Cardinality(Holders(req, g)) + Holds1(None, g)
  BY <1>1, RequestStep DEF Inv
<1>5. \A g \in Generations : Holds1(req[u], g) = Bit(g = g0) /\ Holds1(None, g) = 0
  BY <1>1 DEF Holds1, Bit, g0
<1>6. LeasesExact'
  <2>1. \A g \in Generations :
          leases'[g] = Cardinality(Holders(req', g)) + Holding(signer', g) + leaked'[g]
    <3> TAKE g \in Generations
    <3> DEFINE a == Cardinality(Holders(req, g))
               b == Cardinality(Holders(req', g))
               c == Bit(g = g0)
               d == Holding(signer, g)
    <3>1. leases[g] = a + d + leaked[g] /\ d \in Nat /\ leaked[g] \in Nat
      BY Counts
    <3>2. a \in Nat /\ b \in Nat /\ b + c = a /\ c \in Nat
      BY <1>4, <1>5 DEF Bit
    <3>3. leaked'[g] = leaked[g] + c
      BY <1>3
    <3> HIDE DEF a, b, c, d
    <3>4. leases[g] = b + d + leaked'[g]
      BY <3>1, <3>2, <3>3
    <3> QED BY <1>1, <3>4 DEF b, d
  <2> QED BY <2>1 DEF LeasesExact, Holders
<1>7. TypeOK'
  <2>1. UNCHANGED <<selection, generation, admitted, kept, leases, signer, winner, told>>
    BY <1>1
  <2> QED BY <1>3, <1>4, <2>1 DEF TypeOK
<1>8. ToldIsPinned' /\ LeasedIsKept' /\ CurrentIsKept'
  BY <1>1 DEF Inv, ToldIsPinned, LeasedIsKept, CurrentIsKept
<1> QED BY <1>4, <1>6, <1>7, <1>8 DEF Inv

LEMMA MergeEndsStep ==
  ASSUME TypeOK, Inv, NEW u \in Slots, MergeEnds(u)
  PROVE  TypeOK' /\ Inv'
<1> DEFINE n == req[u].nar
           pub == req[u].source
           e == [nar |-> n, pub |-> pub, due |-> FALSE]
<1>1. /\ req[u] # None /\ req[u].pc = "merging" /\ req' = [req EXCEPT ![u] = None]
      /\ IF pub = None THEN UNCHANGED <<winner, told>>
         ELSE /\ winner' = Append(Kept(winner, n), e)
              /\ told' = [Untold(winner') EXCEPT ![n] = pub]
      /\ UNCHANGED <<selection, generation, admitted, kept, leases, signer, leaked>>
  BY DEF MergeEnds, At, Respond, overlay
<1>2. /\ n \in NARs /\ pub \in Pubs \cup {None} /\ req[u].lease = None
  <2>1. req[u] \in Request /\ Sound(req[u], generation)
    BY <1>1 DEF TypeOK, Inv, RequestsAreSound
  <2> QED BY <1>1, <2>1 DEF Sound, Request, Sources
<1>3. \A g \in Generations : Holds1(None, g) = Holds1(req[u], g)
  BY <1>2, NoneFacts DEF Holds1
<1>4. /\ req' \in [Slots -> Request \cup {None}]
      /\ RequestsAreSound' /\ LeasesExact' /\ LeasedIsKept' /\ CurrentIsKept'
  <2>1. UNCHANGED <<overlay, signer, leaked>>
    BY <1>1 DEF overlay
  <2> QED BY <1>1, <1>3, <2>1, QuietStep
<1>5. CASE pub = None
  BY <1>1, <1>4, <1>5 DEF TypeOK, Inv, ToldIsPinned
<1>6. CASE pub # None
  <2> DEFINE w == Append(Kept(winner, n), e)
  <2>1. /\ winner \in Seq(WinnerPin) /\ Registry(winner) /\ pub \in Pubs
        /\ e \in WinnerPin /\ e.nar = n /\ e.pub = pub /\ ~e.due
    BY <1>2, <1>6, RegistriesOK DEF WinnerPin
  <2>2. winner' = w /\ told' = [Untold(w) EXCEPT ![n] = pub]
    BY <1>1, <1>6
  <2> HIDE DEF e, n, pub
  <2>3. /\ KeptAt(winner, n) \in SUBSET DOMAIN winner
        /\ w \in Seq(WinnerPin) /\ Registry(w)
        /\ \A m \in DOMAIN w : w[m] = e \/ \E k \in KeptAt(winner, n) : w[m] = winner[k]
        /\ \E m \in DOMAIN w : w[m] = e
    BY <2>1, RegistrySet
  <2> HIDE DEF w
  <2>4. told' \in [NARs -> Sources \cup {None}]
    <3>1. Untold(w) \in [NARs -> Sources \cup {None}]
      BY UntoldType
    <3> DEFINE f == Untold(w)
    <3> HIDE DEF f
    <3>2. f \in [NARs -> Sources \cup {None}] /\ told' = [f EXCEPT ![n] = pub]
      BY <2>2, <3>1 DEF f
    <3> QED BY <2>1, <3>2 DEF Sources
  <2>5. told'[n] = pub /\ \A l \in NARs \ {n} : told'[l] = Untold(w)[l]
    BY <1>2, <2>2, UntoldType
  <2>6. ASSUME NEW l \in NARs \ {n}
        PROVE  /\ told'[l] \in {told[l], None}
               /\ told'[l] \in Pubs => \E m \in DOMAIN w : /\ w[m].nar = l /\ ~w[m].due
                                                           /\ w[m].pub = told'[l]
    <3>1. \A m \in DOMAIN w : w[m].nar = l /\ ~w[m].due =>
            \E k \in DOMAIN winner : winner[k].nar = l /\ winner[k].pub = w[m].pub
      BY <2>1, <2>3
    <3>2. /\ Untold(w)[l] \in {told[l], None}
          /\ Untold(w)[l] \in Pubs => \E m \in DOMAIN w : /\ w[m].nar = l /\ ~w[m].due
                                                          /\ w[m].pub = Untold(w)[l]
      BY <3>1, UntoldPinned DEF Inv
    <3> QED BY <2>5, <3>2
  <2>7. ToldIsPinned'
    <3> SUFFICES ASSUME NEW l \in NARs
                 PROVE  /\ told'[l] \in Pubs =>
                              \E m \in DOMAIN winner' : /\ winner'[m].nar = l
                                                        /\ ~winner'[m].due
                                                        /\ winner'[m].pub = told'[l]
                        /\ told'[l] = "overlay" => l \in NarsOf(Contents[generation'])
      BY DEF ToldIsPinned
    <3>1. CASE l = n
      BY <2>1, <2>2, <2>3, <2>5, <3>1, NoneFacts
    <3>2. CASE l # n
      BY <1>1, <2>2, <2>6, <3>2, NoneFacts DEF Inv, ToldIsPinned
    <3> QED BY <3>1, <3>2
  <2>8. TypeOK'
    <3>1. winner' \in Seq(WinnerPin) /\ Registry(winner')
      BY <2>2, <2>3
    <3>2. UNCHANGED <<selection, generation, admitted, kept, leases, signer, leaked>>
      BY <1>1
    <3> QED BY <1>4, <2>4, <3>1, <3>2 DEF TypeOK, Registry
  <2> QED BY <1>4, <2>7, <2>8 DEF Inv
<1> QED BY <1>5, <1>6

LEMMA CommitStep ==
  ASSUME TypeOK, Inv, Commit
  PROVE  TypeOK' /\ Inv'
<1> DEFINE h == generation + 1
<1>1. /\ generation < Len(Contents) /\ generation' = h /\ kept' = kept \cup {h}
      /\ UNCHANGED <<selection, admitted, leases, req, signer, winner, told, leaked>>
  BY DEF Commit, registries
<1>2. Contents \in Seq(SUBSET Paths) /\ generation \in DOMAIN Contents
  BY ServeAssumption DEF TypeOK, Generations
<1>3. /\ generation \in Nat /\ h \in DOMAIN Contents /\ generation < h
      /\ 1..generation \subseteq 1..h /\ h \in 1..h /\ 0..generation \subseteq 0..h
  BY <1>1, <1>2
<1>4. Contents[generation] \subseteq Contents[h]
  BY <1>2, <1>3, ServeAssumption
<1>5. NarsOf(Contents[generation]) \subseteq NarsOf(Contents[h])
  BY <1>4 DEF NarsOf
<1> HIDE DEF h
<1>6. TypeOK'
  <2>1. generation' \in Generations /\ admitted' \in 0..generation' /\ kept' \subseteq 1..generation'
    BY <1>1, <1>3 DEF TypeOK, Generations
  <2> QED BY <1>1, <2>1 DEF TypeOK
<1>7. RequestsAreSound' /\ ToldIsPinned'
  BY <1>1, <1>5 DEF Inv, RequestsAreSound, Sound, ToldIsPinned
<1>8. LeasesExact' /\ LeasedIsKept' /\ CurrentIsKept'
  BY <1>1 DEF Inv, LeasesExact, LeasedIsKept, CurrentIsKept
<1> QED BY <1>6, <1>7, <1>8 DEF Inv

LEMMA AdmitStep ==
  ASSUME TypeOK, Inv, Admit
  PROVE  TypeOK' /\ Inv'
<1>1. PICK a \in (admitted + 1)..generation : admitted' = a /\ Prune(leases, a)
  BY DEF Admit
<1>2. UNCHANGED <<selection, generation, leases, req, signer, winner, told, leaked>>
  BY DEF Admit, registries
<1>3. kept' = {g \in kept : g >= a \/ g = generation \/ leases[g] > 0}
  BY <1>1 DEF Prune
<1>4. generation \in Nat /\ admitted \in Nat
  BY ServeAssumption DEF TypeOK, Generations
<1>5. admitted' \in 0..generation /\ kept' \subseteq kept
  BY <1>1, <1>3, <1>4
<1>6. LeasedIsKept' /\ CurrentIsKept'
  BY <1>2, <1>3 DEF Inv, LeasedIsKept, CurrentIsKept
<1>7. LeasesExact' /\ RequestsAreSound' /\ ToldIsPinned'
  BY <1>2 DEF Inv, LeasesExact, RequestsAreSound, ToldIsPinned
<1>8. TypeOK'
  BY <1>2, <1>5 DEF TypeOK
<1> QED BY <1>6, <1>7, <1>8 DEF Inv

LEMMA TimerStep ==
  ASSUME TypeOK, Inv, TimerFires
  PROVE  TypeOK' /\ Inv'
<1> DEFINE I == Due
<1>1. /\ signer' = Where(signer, DOMAIN signer \ I) /\ Return(Where(signer, I), {})
      /\ UNCHANGED <<selection, generation, admitted, req, winner, told, leaked>>
      /\ I \in SUBSET DOMAIN signer
  BY DEF TimerFires, Due
<1> HIDE DEF I
<1>2. /\ leases' \in [Generations -> Nat] /\ kept' \subseteq 1..generation
      /\ signer' \in Seq(SignerPin) /\ Registry(signer')
      /\ LeasesExact' /\ LeasedIsKept' /\ CurrentIsKept'
  BY <1>1, PinsLeave
<1>3. UNCHANGED <<selection, generation, admitted, req, winner, told, leaked>>
  BY <1>1
<1>4. TypeOK'
  BY <1>2, <1>3 DEF TypeOK, Registry
<1>5. RequestsAreSound' /\ ToldIsPinned'
  BY <1>3 DEF Inv, RequestsAreSound, ToldIsPinned
<1> QED BY <1>2, <1>4, <1>5 DEF Inv

\* Ageing changes no generation of a pin.
LEMMA AgedSigner ==
  ASSUME NEW s \in Seq(SignerPin), Registry(s), NEW n \in DOMAIN s,
         NEW t, t = [s EXCEPT ![n].due = TRUE]
  PROVE  /\ t \in Seq(SignerPin) /\ Registry(t)
         /\ \A g : Holding(t, g) = Holding(s, g)
<1> DEFINE e == [s[n] EXCEPT !.due = TRUE]
<1>1. s[n] \in SignerPin /\ DOMAIN s = 1..Len(s) /\ Len(s) \in Nat
  OBVIOUS
<1>2. e \in SignerPin /\ e.nar = s[n].nar /\ e.gen = s[n].gen
  BY <1>1 DEF SignerPin
<1>3. t = [s EXCEPT ![n] = e]
  OBVIOUS
<1> HIDE DEF e
<1>4. t \in Seq(SignerPin) /\ Len(t) = Len(s) /\ DOMAIN t = DOMAIN s
  <2>1. s \in [1..Len(s) -> SignerPin]
    BY <1>1
  <2>2. t \in [1..Len(s) -> SignerPin]
    BY <1>1, <1>2, <1>3, <2>1
  <2> QED BY <1>1, <2>2
<1>5. \A m \in DOMAIN s : t[m].nar = s[m].nar /\ t[m].gen = s[m].gen
  BY <1>2, <1>3
<1>6. \A g : {m \in DOMAIN t : t[m].gen = g} = {m \in DOMAIN s : s[m].gen = g}
  BY <1>4, <1>5
<1>7. \A g : Holding(t, g) = Holding(s, g)
  BY <1>6 DEF Holding
<1>8. Registry(t)
  BY <1>4, <1>5 DEF Registry
<1> QED BY <1>4, <1>7, <1>8

LEMMA AgeSignerStep ==
  ASSUME TypeOK, Inv, AgeSigner
  PROVE  TypeOK' /\ Inv'
<1>1. PICK n \in DOMAIN signer : signer' = [signer EXCEPT ![n].due = TRUE]
  BY DEF AgeSigner
<1>2. UNCHANGED <<selection, generation, admitted, kept, leases, req, winner, told, leaked>>
  BY DEF AgeSigner, overlay
<1> DEFINE t == signer'
<1>3. t = [signer EXCEPT ![n].due = TRUE]
  BY <1>1
<1> HIDE DEF t
<1>4. /\ t \in Seq(SignerPin) /\ Registry(t)
      /\ \A g : Holding(t, g) = Holding(signer, g)
  BY <1>3, AgedSigner, RegistriesOK
<1>5. TypeOK'
  <2>1. signer' \in Seq(SignerPin) /\ Registry(signer')
    BY <1>4 DEF t
  <2> QED BY <1>2, <2>1 DEF TypeOK, Registry
<1>6. LeasesExact'
  BY <1>2, <1>4 DEF Inv, LeasesExact, t
<1>7. LeasedIsKept' /\ CurrentIsKept' /\ RequestsAreSound' /\ ToldIsPinned'
  BY <1>2 DEF Inv, LeasedIsKept, CurrentIsKept, RequestsAreSound, ToldIsPinned
<1> QED BY <1>5, <1>6, <1>7 DEF Inv

LEMMA AgeWinnerStep ==
  ASSUME TypeOK, Inv, AgeWinner
  PROVE  TypeOK' /\ Inv'
<1>1. PICK n \in DOMAIN winner : winner' = [winner EXCEPT ![n].due = TRUE]
  BY DEF AgeWinner
<1>2. /\ UNCHANGED <<selection, generation, admitted, kept, leases, req, signer, leaked>>
      /\ told' = Untold(winner')
  BY DEF AgeWinner, overlay
<1> DEFINE w == winner'
<1>3. w = [winner EXCEPT ![n].due = TRUE] /\ told' = Untold(w)
  BY <1>1, <1>2
<1> HIDE DEF w
<1>4. /\ w \in Seq(WinnerPin) /\ Registry(w) /\ DOMAIN w = DOMAIN winner
      /\ \A m \in DOMAIN winner : w[m].nar = winner[m].nar /\ w[m].pub = winner[m].pub
  <2> DEFINE s == winner
             e == [s[n] EXCEPT !.due = TRUE]
  <2>1. s \in Seq(WinnerPin) /\ Registry(s) /\ n \in DOMAIN s /\ w = [s EXCEPT ![n] = e]
    BY <1>3, RegistriesOK
  <2> HIDE DEF s
  <2>2. s[n] \in WinnerPin /\ DOMAIN s = 1..Len(s) /\ Len(s) \in Nat
    BY <2>1
  <2>3. e \in WinnerPin /\ e.nar = s[n].nar /\ e.pub = s[n].pub
    BY <2>2 DEF WinnerPin
  <2> HIDE DEF e
  <2>4. w \in Seq(WinnerPin) /\ Len(w) = Len(s) /\ DOMAIN w = DOMAIN s
    <3>1. s \in [1..Len(s) -> WinnerPin]
      BY <2>1, <2>2
    <3>2. w \in [1..Len(s) -> WinnerPin]
      BY <2>1, <2>2, <2>3, <3>1
    <3> QED BY <2>2, <3>2
  <2>5. \A m \in DOMAIN s : w[m].nar = s[m].nar /\ w[m].pub = s[m].pub
    BY <2>1, <2>3
  <2> QED BY <2>1, <2>4, <2>5 DEF Registry, s
<1>5. ASSUME NEW l \in NARs
      PROVE  /\ told'[l] \in {told[l], None}
             /\ told'[l] \in Pubs => \E m \in DOMAIN w : /\ w[m].nar = l /\ ~w[m].due
                                                         /\ w[m].pub = told'[l]
  <2>1. \A m \in DOMAIN w : w[m].nar = l /\ ~w[m].due =>
          \E k \in DOMAIN winner : winner[k].nar = l /\ winner[k].pub = w[m].pub
    BY <1>4
  <2>2. /\ Untold(w)[l] \in {told[l], None}
        /\ Untold(w)[l] \in Pubs => \E m \in DOMAIN w : /\ w[m].nar = l /\ ~w[m].due
                                                        /\ w[m].pub = Untold(w)[l]
    BY <2>1, UntoldPinned DEF Inv
  <2> QED BY <1>3, <2>2
<1>6. ToldIsPinned'
  BY <1>2, <1>5, NoneFacts DEF Inv, ToldIsPinned, w
<1>7. TypeOK'
  <2>1. winner' \in Seq(WinnerPin) /\ Registry(winner')
    BY <1>4 DEF w
  <2>2. told' \in [NARs -> Sources \cup {None}]
    BY <1>3, UntoldType
  <2>3. UNCHANGED <<selection, generation, admitted, kept, leases, req, signer, leaked>>
    BY <1>2
  <2> QED BY <2>1, <2>2, <2>3 DEF TypeOK, Registry
<1>8. LeasesExact' /\ LeasedIsKept' /\ CurrentIsKept' /\ RequestsAreSound'
  BY <1>2 DEF Inv, LeasesExact, LeasedIsKept, CurrentIsKept, RequestsAreSound
<1> QED BY <1>6, <1>7, <1>8 DEF Inv

LEMMA CloseStep ==
  ASSUME TypeOK, Inv, Close
  PROVE  TypeOK' /\ Inv'
<1>1. /\ signer' = <<>> /\ winner' = <<>> /\ told' = [n \in NARs |-> None]
      /\ Return(signer, {})
      /\ UNCHANGED <<selection, generation, admitted, req, leaked>>
  BY DEF Close
<1>2. \A g \in Generations : /\ Bit(g \in {}) = 0 /\ Holding(signer, g) \in Nat
                             /\ leases[g] - Holding(signer, g) - Bit(g \in {}) \in Nat
  <2> TAKE g \in Generations
  <2>1. Bit(g \in {}) = 0
    BY DEF Bit
  <2> QED BY <2>1, Counts
<1> DEFINE pins == signer
<1>3. /\ leases' \in [Generations -> Nat]
      /\ \A g \in Generations : leases'[g] = leases[g] - Holding(pins, g) - Bit(g \in {})
      /\ kept' \subseteq 1..generation /\ LeasedIsKept' /\ CurrentIsKept'
  <2>1. Return(pins, {}) /\ \A g \in Generations : Holding(pins, g) \in Nat
            /\ leases[g] - Holding(pins, g) - Bit(g \in {}) \in Nat
    BY <1>1, <1>2
  <2> HIDE DEF pins
  <2> QED BY <1>1, <2>1, ReturnEffect DEF Inv
<1>4. LeasesExact'
  <2>1. \A g \in Generations :
          leases'[g] = Cardinality(Holders(req', g)) + Holding(signer', g) + leaked'[g]
    <3> TAKE g \in Generations
    <3>1. /\ leases[g] = Cardinality(Holders(req, g)) + Holding(signer, g) + leaked[g]
          /\ Cardinality(Holders(req, g)) \in Nat /\ leaked[g] \in Nat
          /\ Holding(signer, g) \in Nat
      BY Counts
    <3>2. leases'[g] = leases[g] - Holding(signer, g)
      BY <1>2, <1>3, <3>1
    <3>3. Holding(signer', g) = 0
      BY <1>1, NothingHeld
    <3> QED BY <1>1, <3>1, <3>2, <3>3
  <2> QED BY <2>1 DEF LeasesExact, Holders
<1>5. TypeOK'
  <2>1. /\ told' \in [NARs -> Sources \cup {None}]
        /\ signer' \in Seq(SignerPin) /\ winner' \in Seq(WinnerPin)
    BY <1>1
  <2>2. Len(<<>>) <= MaxEntries /\ DOMAIN <<>> = {}
    BY ServeAssumption
  <2>3. UNCHANGED <<selection, generation, admitted, req, leaked>>
    BY <1>1
  <2> QED BY <1>1, <1>3, <2>1, <2>2, <2>3 DEF TypeOK
<1>6. RequestsAreSound' /\ ToldIsPinned'
  BY <1>1, NoneFacts DEF Inv, RequestsAreSound, ToldIsPinned
<1> QED BY <1>3, <1>4, <1>5, <1>6 DEF Inv

LEMMA InvInductive ==
  ASSUME TypeOK, Inv, [Next]_vars
  PROVE  TypeOK' /\ Inv'
<1>1. ASSUME NEW u \in Slots, Client(u)
      PROVE  TypeOK' /\ Inv'
  BY <1>1, InfoFromOverlayStep, InfoFromPublicationsStep, NarFromPinStep,
     NarFromOverlayStep, NarFromPublicationsStep DEF Client
<1>2. ASSUME NEW u \in Slots, NotFound(u) \/ StreamEnds(u) \/ Fails(u)
      PROVE  TypeOK' /\ Inv'
  BY <1>2, AnswerStep DEF NotFound, StreamEnds, Fails, At
<1>3. ASSUME NEW u \in Slots, Open(u)
      PROVE  TypeOK' /\ Inv'
  BY <1>3, AnswerStep, RequestMoves DEF Open, At
<1>4. ASSUME NEW u \in Slots, Progress(u) \/ InfoReadFails(u)
      PROVE  TypeOK' /\ Inv'
  BY <1>2, <1>3, <1>4, InfoReadStep, InfoReadFailsStep, RequestMoves, MergeEndsStep
     DEF Progress
<1>5. CASE SelectionChanges
  <2>1. /\ selection' \in Snapshots
        /\ UNCHANGED <<generation, admitted, kept, leases, req, signer, winner, told, leaked>>
    BY <1>5 DEF SelectionChanges, overlay, registries
  <2> QED BY <2>1 DEF TypeOK, Inv, LeasesExact, LeasedIsKept, CurrentIsKept,
             RequestsAreSound, ToldIsPinned
<1>6. CASE UNCHANGED vars
  <2>1. UNCHANGED <<selection, generation, admitted, kept, leases, req, signer, winner,
                    told, leaked>>
    BY <1>6 DEF vars, overlay, registries
  <2> QED BY <2>1 DEF TypeOK, Inv, LeasesExact, LeasedIsKept, CurrentIsKept,
             RequestsAreSound, ToldIsPinned
<1> QED BY <1>1, <1>2, <1>4, <1>5, <1>6, CommitStep, AdmitStep, CloseStep, AgeSignerStep,
        AgeWinnerStep, TimerStep DEF Next

LEMMA InitInv == Init => TypeOK /\ Inv
<1> SUFFICES ASSUME Init PROVE TypeOK /\ Inv
  OBVIOUS
<1>1. generation \in Generations /\ generation = 1
  BY ServeAssumption DEF Init, Generations
<1>2. /\ leases \in [Generations -> Nat] /\ leaked \in [Generations -> Nat]
      /\ req \in [Slots -> Request \cup {None}]
      /\ told \in [NARs -> Sources \cup {None}]
  BY DEF Init
<1>3. signer = <<>> /\ winner = <<>> /\ signer \in Seq(SignerPin) /\ winner \in Seq(WinnerPin)
  BY DEF Init
<1>4. Len(<<>>) <= MaxEntries /\ DOMAIN <<>> = {}
  BY ServeAssumption
<1>5. selection \in Snapshots /\ admitted \in 0..generation /\ kept \subseteq 1..generation
  BY <1>1 DEF Init
<1>6. TypeOK
  BY <1>1, <1>2, <1>3, <1>4, <1>5 DEF TypeOK
<1>7. RequestsAreSound /\ ToldIsPinned /\ CurrentIsKept /\ LeasedIsKept
  BY NoneFacts DEF Init, RequestsAreSound, ToldIsPinned, CurrentIsKept, LeasedIsKept
<1>8. LeasesExact
  <2>1. \A g \in Generations :
          leases[g] = Cardinality(Holders(req, g)) + Holding(signer, g) + leaked[g]
    <3> TAKE g \in Generations
    <3>1. Holders(req, g) = {}
      BY DEF Init, Holders
    <3>2. Cardinality(Holders(req, g)) = 0
      BY <3>1, FS_EmptySet
    <3>3. Holding(signer, g) = 0
      BY <1>3, NothingHeld
    <3> QED BY <3>2, <3>3 DEF Init
  <2> QED BY <2>1, ExactMeans
<1> QED BY <1>6, <1>7, <1>8 DEF Inv

LEMMA Invariance == Spec => [](TypeOK /\ Inv)
<1>1. TypeOK /\ Inv /\ [Next]_vars => (TypeOK /\ Inv)'
  BY InvInductive
<1> QED BY InitInv, <1>1, PTL DEF Spec

-----------------------------------------------------------------------------
(* The theorems. *)

\* Type correctness of the handler and of the leases of write_repository.ts;
\* both route registries of merged_cache.ts stay within their capacity, with
\* one pin per NAR.
THEOREM TypeCorrect == Spec => []TypeOK
<1>1. TypeOK /\ Inv => TypeOK
  OBVIOUS
<1> QED BY Invariance, <1>1, PTL

\* acquireGeneration and its releases balance: however requests, expiry,
\* eviction and shutdown overlap, the count of a generation is the number of
\* requests and pins that hold it, plus the leases that failed narinfo reads
\* leave behind.
THEOREM LeasesBalance == Spec => []LeasesExact
<1>1. TypeOK /\ Inv => LeasesExact
  BY DEF Inv
<1> QED BY Invariance, <1>1, PTL

\* #pruneAdmitted never removes the rows of a generation that a response or a
\* pin still uses.
THEOREM ServedIsKept == Spec => []LeasedIsKept
<1>1. TypeOK /\ Inv => LeasedIsKept
  BY DEF Inv
<1> QED BY Invariance, <1>1, PTL

\* The handler takes a NAR from the publication whose narinfo it served last
\* for its URL, or from the overlay, however the selection changes in between.
THEOREM NarFollowsNarinfo == Spec => []NarFromTheSamePublication
<1>1. TypeOK /\ Inv => NarFromTheSamePublication
  BY DEF Inv, RequestsAreSound, Sound, NarFromTheSamePublication, Serving
<1> QED BY Invariance, <1>1, PTL
=============================================================================
