-------------------------- MODULE WritePath_proofs --------------------------
(***************************************************************************)
(* Theorems about the write path, for any set of paths, references, NARs   *)
(* and overlapping uploads: no generation has a missing dependency, what   *)
(* the overlay serves is there, what is complete becomes visible, routes   *)
(* are immutable, the quota is kept, and every recomputation comes to an   *)
(* await or to its end.                                                    *)
(***************************************************************************)
EXTENDS WritePath, Subsequence_proofs, FiniteSetTheorems

-----------------------------------------------------------------------------
(* The inductive invariant. *)

\* The right narinfo of p is staged, unless discard() took it.
IsStaged(p) == p \in torn \/ staged[<<"info", p>>] = p

\* What an upload relies on at each of its awaits.
Sound(u, q) ==
    /\ q.pc \in {"reading", "linked", "staged", "read"}
          => IsInfo(q.route) /\ q.body \in Texts
    /\ q.pc \in {"reading", "linked"} => u \in reserved
    /\ q.pc \in {"staged", "read"} /\ q.body = q.route[2] => IsStaged(q.body)
    /\ q.pc = "read" /\ q.body = q.route[2] => q.body \in torn \cup files

UploadsAreSound == \A u \in Slots : put[u] # None => Sound(u, put[u])

\* A recorded path has its row and its file, unless discard() took them.
InfosAreStaged ==
    \A p \in infos :
        p \in torn \/ (staged[<<"info", p>>] = p /\ p \in files)

OverlayIsStaged ==
    \A p \in overlay : p \in infos /\ staged[<<"nar", NarOf[p]>>] # None

\* A recomputation, before it comes to an await.
Pass == [job : Job, todo : SUBSET Paths, candidates : SUBSET Paths,
         admitted : SUBSET Paths, progressed : BOOLEAN,
         asks : Paths \cup {None}]

\* It admits recorded paths only, each with all that it refers to.
Sane(c) ==
    /\ c \in Pass
    /\ c.candidates \subseteq infos
    /\ c.todo \subseteq c.candidates /\ c.admitted \subseteq c.candidates
    /\ c.progressed => c.admitted # {}
    /\ c.asks \in c.todo \cup {None}
    /\ \A p \in c.admitted :
          Refs[p] \subseteq {p} \cup overlay \cup c.admitted \cup Lower

RunIsSane == run # None => Sane(run) /\ run.asks # None

ResidentStays ==
    \A n \in NARs : Resident[n] # None => staged[<<"nar", n>>] = Resident[n]

\* The recomputation that an upload queued finds it waiting, and no other one
\* answers that upload.
JobsAreOwned ==
    /\ \A i \in DOMAIN queue :
          queue[i].by = "put" =>
             /\ queue[i].id \in Slots /\ At(queue[i].id, "waiting")
             /\ \A j \in DOMAIN queue :
                   queue[j].by = "put" /\ j # i => queue[j].id # queue[i].id
             /\ run # None /\ run.job.by = "put" => run.job.id # queue[i].id
    /\ run # None /\ run.job.by = "put" =>
          run.job.id \in Slots /\ At(run.job.id, "waiting")

\* A process that is down has no uploads and no recomputation; every
\* reservation of a running one belongs to an upload still to be admitted.
ReservationsAreOwned ==
    /\ status = "down" => run = None /\ \A u \in Slots : put[u] = None
    /\ status # "down" =>
          \A u \in reserved : At(u, "reading") \/ At(u, "linked")

QuotaIsKept == Used + Reserved <= Allowed + Cardinality(Late)

Inv == /\ UploadsAreSound /\ InfosAreStaged /\ OverlayIsStaged /\ RunIsSane
       /\ OverlayClosed /\ ResidentStays /\ JobsAreOwned /\ ReservationsAreOwned
       /\ QuotaIsKept

-----------------------------------------------------------------------------
(* Recomputations: one step of a pass. *)

LEMMA MinIsMember ==
  ASSUME NEW S \in SUBSET Nat, S # {}
  PROVE  Min(S) \in S
<1>1. PICK n \in S : \A m \in S : n <= m
  BY NatMin
<1>2. \E k \in S : \A m \in S : k =< m
  BY <1>1
<1> QED BY <1>2 DEF Min

\* The references of a path that is admitted are answered.
LEMMA AdmitIsSane ==
  ASSUME WriteAssumption, NEW c, Sane(c), NEW p \in c.todo,
         Unresolved(c, p) \subseteq Lower
  PROVE  Sane(Admit(c, p))
<1>1. /\ c \in Pass /\ p \in Paths /\ p \in c.candidates
  BY DEF Sane, Pass
<1>3. Refs[p] \subseteq {p} \cup overlay \cup (c.admitted \cup {p}) \cup Lower
  BY DEF Unresolved
<1>4. \A q \in c.admitted :
         Refs[q] \subseteq {q} \cup overlay \cup (c.admitted \cup {p}) \cup Lower
  BY DEF Sane
<1>5. Admit(c, p) \in Pass
  BY <1>1 DEF Pass, Admit, Onward
<1>6. c.candidates \subseteq infos /\ c.todo \subseteq c.candidates
      /\ c.admitted \subseteq c.candidates
  BY DEF Sane
<1> QED BY <1>1, <1>3, <1>4, <1>5, <1>6 DEF Sane, Admit, Onward

LEMMA PassedIsSane ==
  ASSUME WriteAssumption, NEW c, Sane(c), NEW p \in c.todo
  PROVE  Sane(Passed(c, p))
<1>1. Passed(c, p) \in Pass
  BY DEF Pass, Passed, Onward, Sane
<1> QED BY <1>1 DEF Sane, Passed, Onward

LEMMA AskIsSane ==
  ASSUME WriteAssumption, NEW c, Sane(c), NEW p \in c.todo
  PROVE  Sane(Ask(c, p))
<1>1. Ask(c, p) \in Pass
  BY DEF Pass, Ask, Onward, Sane
<1> QED BY <1>1 DEF Sane, Ask, Onward

LEMMA NextPassIsSane ==
  ASSUME WriteAssumption, NEW c, Sane(c)
  PROVE  Sane(NextPass(c))
<1>1. NextPass(c) \in Pass
  BY DEF Pass, NextPass, Onward, Sane
<1> QED BY <1>1 DEF Sane, NextPass, Onward

\* What one step of a pass does.
LEMMA StepCases ==
  ASSUME WriteAssumption, NEW c, Sane(c)
  PROVE  \/ (c.asks # None \/ Finished(c)) /\ Step(c) = c
         \/ c.asks = None /\ c.todo = {} /\ c.progressed /\ Step(c) = NextPass(c)
         \/ c.asks = None /\
            \E p \in c.todo :
               \/ /\ \/ p \in overlay \cup c.admitted
                     \/ staged[<<"nar", NarOf[p]>>] = None
                  /\ Step(c) = Passed(c, p)
               \/ Step(c) = Ask(c, p)
               \/ /\ p \notin c.admitted /\ Unresolved(c, p) = {}
                  /\ Step(c) = Admit(c, p)
<1>1. c \in Pass
  BY DEF Sane
<1>2. CASE c.asks # None \/ Finished(c)
  BY <1>2 DEF Step
<1>3. CASE ~(c.asks # None \/ Finished(c)) /\ c.todo = {}
  BY <1>1, <1>3 DEF Step, Finished
<1>4. CASE ~(c.asks # None \/ Finished(c)) /\ c.todo # {}
  <2>1. c.todo \in SUBSET Nat
    BY <1>1 DEF Pass, WriteAssumption
  <2>2. PICK p \in c.todo : p = Min(c.todo)
    BY <1>4, <2>1, MinIsMember
  <2>3. Step(c) = Examine(c, p)
    BY <1>4, <2>2 DEF Step
  <2> QED BY <1>4, <2>3 DEF Examine
<1> QED BY <1>2, <1>3, <1>4

LEMMA StepIsSane ==
  ASSUME WriteAssumption, NEW c, Sane(c)
  PROVE  Sane(Step(c)) /\ Step(c).job = c.job
<1>1. CASE Step(c) = c
  BY <1>1
<1>2. CASE Step(c) = NextPass(c)
  BY <1>2, NextPassIsSane DEF NextPass, Onward
<1>3. CASE \E p \in c.todo :
               \/ Step(c) = Passed(c, p) \/ Step(c) = Ask(c, p)
               \/ Unresolved(c, p) = {} /\ Step(c) = Admit(c, p)
  <2>1. PICK p \in c.todo :
               \/ Step(c) = Passed(c, p) \/ Step(c) = Ask(c, p)
               \/ Unresolved(c, p) = {} /\ Step(c) = Admit(c, p)
    BY <1>3
  <2> QED BY <2>1, PassedIsSane, AskIsSane, AdmitIsSane DEF Passed, Ask, Admit, Onward
<1> QED BY <1>1, <1>2, <1>3, StepCases

-----------------------------------------------------------------------------
(* Recomputations: the passes come to an end. *)

\* How many steps a recomputation may still take without an await: a pass for
\* every path that is not admitted, and the rest of this one.
Size == Cardinality(Paths) + 1
Left(c) == Size * Cardinality(Paths \ c.admitted) + Cardinality(c.todo)
           + (IF c.progressed THEN Size ELSE 0)
Settled(c) == c.asks # None \/ Finished(c)

LEMMA NatTimes ==
  ASSUME NEW k \in Nat, NEW a \in Nat
  PROVE  k * a \in Nat /\ k * (a + 1) = k * a + k
OBVIOUS

LEMMA TimesMonotone ==
  ASSUME NEW k \in Nat, NEW a \in Nat, NEW b \in Nat, a <= b
  PROVE  k * a <= k * b
OBVIOUS

LEMMA RemoveOne ==
  ASSUME NEW S, IsFiniteSet(S), NEW x \in S
  PROVE  /\ Cardinality(S) \in Nat /\ Cardinality(S) > 0
         /\ Cardinality(S \ {x}) = Cardinality(S) - 1
<1>1. IsFiniteSet(S \ {x}) /\ Cardinality(S \ {x}) = Cardinality(S) - 1
  BY FS_RemoveElement
<1>2. Cardinality(S) \in Nat /\ Cardinality(S \ {x}) \in Nat
  BY <1>1, FS_CardinalityType
<1> QED BY <1>1, <1>2

LEMMA LeftParts ==
  ASSUME WriteAssumption, NEW c, Sane(c)
  PROVE  /\ Size \in Nat /\ Size = Cardinality(Paths) + 1
         /\ Cardinality(Paths) \in Nat
         /\ IsFiniteSet(c.todo) /\ Cardinality(c.todo) \in Nat
         /\ Cardinality(c.todo) <= Cardinality(Paths)
         /\ IsFiniteSet(Paths \ c.admitted)
         /\ Cardinality(Paths \ c.admitted) \in Nat
         /\ Cardinality(Paths \ c.admitted) <= Cardinality(Paths)
         /\ Left(c) \in Nat
<1>1. IsFiniteSet(Paths) /\ Cardinality(Paths) \in Nat
  BY FS_CardinalityType DEF WriteAssumption
<1>2. c.todo \in SUBSET Paths /\ Paths \ c.admitted \in SUBSET Paths
  BY DEF Sane, Pass
<1>3. /\ IsFiniteSet(c.todo) /\ Cardinality(c.todo) <= Cardinality(Paths)
      /\ IsFiniteSet(Paths \ c.admitted)
      /\ Cardinality(Paths \ c.admitted) <= Cardinality(Paths)
  BY <1>1, <1>2, FS_Subset
<1>4. Cardinality(c.todo) \in Nat /\ Cardinality(Paths \ c.admitted) \in Nat
  BY <1>3, FS_CardinalityType
<1>5. Size \in Nat
  BY <1>1 DEF Size
<1>6. Size * Cardinality(Paths \ c.admitted) \in Nat
  BY <1>4, <1>5, NatTimes
<1> QED BY <1>1, <1>3, <1>4, <1>5, <1>6 DEF Left, Size

\* A recomputation begins with fewer steps than ToAwait makes.
LEMMA LeftIsBounded ==
  ASSUME WriteAssumption, NEW c, Sane(c)
  PROVE  Left(c) <= Size * Size
<1> DEFINE N == Cardinality(Paths)
           a == Cardinality(Paths \ c.admitted)
           t == Cardinality(c.todo)
<1>1. /\ N \in Nat /\ a \in Nat /\ t \in Nat /\ a <= N /\ t <= N
      /\ Size = N + 1 /\ Size \in Nat
  BY LeftParts
<1>2. c.progressed => a < N
  <2> SUFFICES ASSUME c.progressed PROVE a < N
    OBVIOUS
  <2>1. PICK p \in c.admitted : p \in Paths
    BY DEF Sane, Pass
  <2>2. IsFiniteSet(Paths) /\ Paths \ c.admitted \in SUBSET Paths
        /\ Paths \ c.admitted # Paths
    BY <2>1 DEF WriteAssumption
  <2> QED BY <1>1, <2>2, FS_Subset
<1>3. Left(c) = Size * a + t + (IF c.progressed THEN Size ELSE 0)
  BY DEF Left
<1> HIDE DEF N, a, t
<1>4. /\ Size * N \in Nat /\ Size * Size = Size * N + Size
      /\ Size * a \in Nat /\ Size * a <= Size * N
  BY <1>1, NatTimes, TimesMonotone
<1>5. CASE c.progressed
  <2>1. Size * (a + 1) <= Size * N
    BY <1>1, <1>2, <1>5, TimesMonotone
  <2>2. Size * (a + 1) = Size * a + Size
    BY <1>1, NatTimes
  <2> QED BY <1>1, <1>3, <1>4, <1>5, <2>1, <2>2
<1>6. CASE ~c.progressed
  BY <1>1, <1>3, <1>4, <1>6
<1> QED BY <1>5, <1>6

\* Every step of a pass uses up one of them.
LEMMA StepUsesOne ==
  ASSUME WriteAssumption, NEW c, Sane(c)
  PROVE  Settled(Step(c)) \/ Left(Step(c)) + 1 <= Left(c)
<1> DEFINE N == Cardinality(Paths)
           a == Cardinality(Paths \ c.admitted)
           t == Cardinality(c.todo)
           g == IF c.progressed THEN Size ELSE 0
<1>1. /\ N \in Nat /\ a \in Nat /\ t \in Nat /\ a <= N /\ t <= N
      /\ Size = N + 1 /\ Size \in Nat /\ IsFiniteSet(c.todo)
      /\ IsFiniteSet(Paths \ c.admitted)
  BY LeftParts
<1>2. Left(c) = Size * a + t + g /\ g \in Nat /\ Size * a \in Nat
  BY <1>1, NatTimes DEF Left
<1>3. CASE Settled(c) /\ Step(c) = c
  BY <1>3
<1>4. CASE c.todo = {} /\ c.progressed /\ Step(c) = NextPass(c)
  <2>1. Sane(NextPass(c))
    BY NextPassIsSane
  <2>2. /\ NextPass(c).todo = c.candidates /\ NextPass(c).admitted = c.admitted
        /\ NextPass(c).progressed = FALSE
    BY DEF NextPass, Onward
  <2>3. Cardinality(NextPass(c).todo) \in Nat /\ Cardinality(NextPass(c).todo) <= N
    BY <2>1, LeftParts
  <2>4. Left(NextPass(c)) = Size * a + Cardinality(NextPass(c).todo)
    BY <1>1, <1>2, <2>2, <2>3 DEF Left
  <2>5. g = Size
    BY <1>4
  <2> HIDE DEF N, a, t, g
  <2> QED BY <1>1, <1>2, <1>4, <2>3, <2>4, <2>5
<1>5. ASSUME NEW p \in c.todo, Step(c) = Passed(c, p)
      PROVE  Left(Step(c)) + 1 <= Left(c)
  <2>1. /\ Passed(c, p).todo = c.todo \ {p} /\ Passed(c, p).admitted = c.admitted
        /\ Passed(c, p).progressed = c.progressed
    BY DEF Passed, Onward
  <2>2. Cardinality(c.todo \ {p}) = t - 1 /\ t > 0
    BY <1>1, <1>5, RemoveOne
  <2>3. Left(Passed(c, p)) = Size * a + (t - 1) + g
    BY <2>1, <2>2 DEF Left
  <2> HIDE DEF N, a, t, g
  <2> QED BY <1>1, <1>2, <1>5, <2>2, <2>3
<1>6. ASSUME NEW p \in c.todo, p \notin c.admitted, Step(c) = Admit(c, p)
      PROVE  Left(Step(c)) + 1 <= Left(c)
  <2>1. /\ Admit(c, p).todo = c.todo \ {p}
        /\ Admit(c, p).admitted = c.admitted \cup {p}
        /\ Admit(c, p).progressed = TRUE
    BY DEF Admit, Onward
  <2>2. Cardinality(c.todo \ {p}) = t - 1 /\ t > 0
    BY <1>1, <1>6, RemoveOne
  <2>3. p \in Paths \ c.admitted
    BY <1>6 DEF Sane, Pass
  <2>4. Paths \ (c.admitted \cup {p}) = (Paths \ c.admitted) \ {p}
    OBVIOUS
  <2>5. Cardinality(Paths \ (c.admitted \cup {p})) = a - 1 /\ a > 0
    BY <1>1, <2>3, <2>4, RemoveOne
  <2>6. Left(Admit(c, p)) = Size * (a - 1) + (t - 1) + Size
    BY <2>1, <2>2, <2>5 DEF Left
  <2> HIDE DEF N, a, t, g
  <2>7. Size * ((a - 1) + 1) = Size * (a - 1) + Size /\ (a - 1) + 1 = a
    BY <1>1, <2>5, NatTimes
  <2> QED BY <1>1, <1>2, <1>6, <2>2, <2>5, <2>6, <2>7
<1>7. ASSUME NEW p \in c.todo, Step(c) = Ask(c, p)
      PROVE  Settled(Step(c))
  BY <1>7 DEF Settled, Ask, Onward, WriteAssumption, Sane, Pass
<1> HIDE DEF N, a, t, g
<1> QED BY <1>3, <1>4, <1>5, <1>6, <1>7, StepCases DEF Settled

\* f is the recursive function of ToAwait up to B.
Advances(f, C, B) ==
    f = [n \in 0..B |-> IF n = 0 THEN C ELSE {Step(c) : c \in f[n - 1]}]

LEMMA ToAwaitUnfold ==
  ASSUME NEW C
  PROVE  ToAwait(C) = (CHOOSE f : Advances(f, C, Size * Size))[Size * Size]
BY DEF ToAwait, Advances, Size

\* The recursion has a solution, by induction on the bound.
LEMMA AdvancesExists ==
  ASSUME NEW C, NEW B \in Nat
  PROVE  \E f : Advances(f, C, B)
<1> DEFINE Bad == {n \in 0..B : ~\E f : Advances(f, C, n)}
<1>1. Bad = {}
  <2> SUFFICES ASSUME Bad # {} PROVE FALSE
    OBVIOUS
  <2>0. Bad \in SUBSET Nat
    OBVIOUS
  <2> HIDE DEF Bad
  <2>1. PICK n \in Bad : \A m \in Bad : n <= m
    BY <2>0, NatMin
  <2> USE DEF Bad
  <2>2. n \in 0..B
    OBVIOUS
  <2>3. CASE n = 0
    <3> DEFINE f == [m \in 0..0 |-> C]
    <3>1. Advances(f, C, 0)
      BY DEF Advances
    <3> QED BY <2>1, <2>3, <3>1
  <2>4. CASE n # 0
    <3>1. n - 1 \in 0..B /\ n - 1 \notin Bad
      BY <2>1, <2>2, <2>4
    <3>2. PICK g : Advances(g, C, n - 1)
      BY <3>1
    <3> DEFINE next == {Step(c) : c \in g[n - 1]}
               f == [m \in 0..n |-> IF m = n THEN next ELSE g[m]]
    <3>5. \A m \in 0..n :
             f[m] = IF m = 0 THEN C ELSE {Step(c) : c \in f[m - 1]}
      <4> TAKE m \in 0..n
      <4>1. CASE m = n
        <5>1. f[m] = next /\ f[m - 1] = g[n - 1]
          BY <4>1, <2>2, <2>4
        <5> QED BY <4>1, <5>1, <2>4
      <4>2. CASE m # n
        <5>1. m \in 0..(n - 1) /\ f[m] = g[m]
          BY <4>2, <2>2
        <5>2. m # 0 => f[m - 1] = g[m - 1]
          BY <5>1, <2>2
        <5>3. g[m] = IF m = 0 THEN C ELSE {Step(c) : c \in g[m - 1]}
          BY <3>2, <5>1 DEF Advances
        <5> HIDE DEF f
        <5> QED BY <5>1, <5>2, <5>3
      <4> QED BY <4>1, <4>2
    <3>6. Advances(f, C, n)
      BY <3>5 DEF Advances
    <3> QED BY <2>1, <3>6
  <2> QED BY <2>3, <2>4
<1>2. B \in 0..B
  OBVIOUS
<1> QED BY <1>1, <1>2

\* Where a recomputation stands at its next await or at its end: it is sane,
\* and it did get there.
LEMMA ToAwaitSettles ==
  ASSUME WriteAssumption, NEW j, NEW C, \A c \in C : Sane(c) /\ c.job = j
  PROVE  \A c \in ToAwait(C) : Sane(c) /\ c.job = j /\ Settled(c)
<1> DEFINE B == Size * Size
           f == CHOOSE f : Advances(f, C, B)
<1>1. Size \in Nat /\ B \in Nat
  <2>1. Cardinality(Paths) \in Nat
    BY FS_CardinalityType DEF WriteAssumption
  <2>2. Size \in Nat
    BY <2>1 DEF Size
  <2> QED BY <2>2, NatTimes
<1>2. ToAwait(C) = f[B]
  BY ToAwaitUnfold
<1>3. Advances(f, C, B)
  BY <1>1, AdvancesExists
<1> HIDE DEF f, B
<1>4. f[0] = C /\ \A n \in 1..B : f[n] = {Step(c) : c \in f[n - 1]}
  <2>1. \A n \in 0..B : f[n] = IF n = 0 THEN C ELSE {Step(c) : c \in f[n - 1]}
    BY <1>3 DEF Advances
  <2>2. 0 \in 0..B /\ \A n \in 1..B : n \in 0..B /\ n # 0
    BY <1>1
  <2> QED BY <2>1, <2>2
<1> DEFINE Good(n) == \A c \in f[n] : /\ Sane(c) /\ c.job = j
                                      /\ Settled(c) \/ Left(c) + n <= B
           Bad == {n \in 0..B : ~Good(n)}
<1>5. Good(0)
  <2>1. ASSUME NEW c \in C PROVE Left(c) + 0 <= B
    <3>1. Sane(c)
      BY <2>1
    <3>2. Left(c) <= B /\ Left(c) \in Nat
      BY <3>1, LeftIsBounded, LeftParts DEF B
    <3> QED BY <1>1, <3>2
  <2> QED BY <1>4, <2>1
<1>6. ASSUME NEW n \in 1..B, Good(n - 1) PROVE Good(n)
  <2>1. ASSUME NEW c \in f[n - 1]
        PROVE  /\ Sane(Step(c)) /\ Step(c).job = j
               /\ Settled(Step(c)) \/ Left(Step(c)) + n <= B
    <3>1. Sane(c) /\ c.job = j /\ (Settled(c) \/ Left(c) + (n - 1) <= B)
      BY <1>6, <2>1
    <3>2. Sane(Step(c)) /\ Step(c).job = j
      BY <3>1, StepIsSane
    <3>3. CASE Settled(c)
      BY <3>2, <3>3, <3>1, StepCases DEF Settled, Step
    <3>4. CASE ~Settled(c)
      <4>1. Left(c) \in Nat /\ Left(Step(c)) \in Nat
        BY <3>1, <3>2, LeftParts
      <4>2. Settled(Step(c)) \/ Left(Step(c)) + 1 <= Left(c)
        BY <3>1, StepUsesOne
      <4> QED BY <1>1, <3>1, <3>2, <3>4, <4>1, <4>2
    <3> QED BY <3>3, <3>4
  <2> QED BY <1>4, <2>1
<1>7. Bad = {}
  <2> SUFFICES ASSUME Bad # {} PROVE FALSE
    OBVIOUS
  <2>1. Bad \in SUBSET Nat
    BY <1>1
  <2> HIDE DEF Bad, Good
  <2>2. PICK n \in Bad : \A m \in Bad : n <= m
    BY <2>1, NatMin
  <2>3. n \in 0..B /\ ~Good(n)
    BY DEF Bad
  <2>4. n # 0
    BY <1>5, <2>3
  <2>5. n \in 1..B /\ n - 1 \in 0..B /\ n - 1 \notin Bad
    BY <1>1, <2>2, <2>3, <2>4
  <2>6. Good(n - 1)
    BY <2>5 DEF Bad
  <2> QED BY <1>6, <2>3, <2>5, <2>6
<1>8. Good(B)
  BY <1>1, <1>7
<1>9. ASSUME NEW c, Sane(c), ~Settled(c) PROVE ~(Left(c) + B <= B)
  <2>1. /\ Cardinality(c.todo) \in Nat /\ IsFiniteSet(c.todo)
        /\ Size \in Nat /\ Size > 0 /\ Left(c) \in Nat
        /\ Cardinality(Paths \ c.admitted) \in Nat
    <3>1. Cardinality(Paths) \in Nat /\ Size = Cardinality(Paths) + 1
      BY <1>9, LeftParts
    <3>2. Size > 0
      BY <3>1
    <3> QED BY <1>9, <3>2, LeftParts
  <2>2. Size * Cardinality(Paths \ c.admitted) \in Nat
    BY <2>1, NatTimes
  <2>3. CASE c.todo # {}
    <3>1. Cardinality(c.todo) > 0
      BY <2>1, <2>3, RemoveOne
    <3>2. Left(c) > 0
      BY <2>1, <2>2, <3>1 DEF Left
    <3> QED BY <1>1, <2>1, <3>2
  <2>4. CASE c.todo = {}
    <3>1. c.progressed
      BY <1>9, <2>4 DEF Settled, Finished
    <3>2. Left(c) > 0
      BY <2>1, <2>2, <3>1 DEF Left
    <3> QED BY <1>1, <2>1, <3>2
  <2> QED BY <2>3, <2>4
<1> QED BY <1>2, <1>8, <1>9

-----------------------------------------------------------------------------
(* Uploads: what moving one does to the others. *)

LEMMA UploadFields ==
  ASSUME TypeOK, NEW u \in Slots, put[u] # None
  PROVE  /\ put[u] \in Upload /\ put[u].route \in Routes
         /\ put[u].body \in Texts \cup NarBytes
BY DEF TypeOK, Upload

LEMMA MoveEffect ==
  ASSUME WriteAssumption, TypeOK, NEW u \in Slots, put[u] # None,
         NEW pc \in {"reading", "linked", "staged", "read", "recorded", "waiting"},
         Move(u, pc)
  PROVE  /\ put' \in [Slots -> Upload \cup {None}]
         /\ put'[u] # None /\ put'[u].pc = pc
         /\ put'[u].route = put[u].route /\ put'[u].body = put[u].body
         /\ \A v \in Slots : v # u => put'[v] = put[v]
<1>1. put[u] \in Upload /\ put \in [Slots -> Upload \cup {None}]
  BY UploadFields DEF TypeOK
<1>2. put' = [put EXCEPT ![u] = [put[u] EXCEPT !.pc = pc]]
  BY DEF Move
<1>3. /\ [put[u] EXCEPT !.pc = pc] \in Upload
      /\ [put[u] EXCEPT !.pc = pc].pc = pc
      /\ [put[u] EXCEPT !.pc = pc].route = put[u].route
      /\ [put[u] EXCEPT !.pc = pc].body = put[u].body
  BY <1>1 DEF Upload
<1> QED BY <1>1, <1>2, <1>3 DEF WriteAssumption

LEMMA RespondEffect ==
  ASSUME TypeOK, NEW u, Respond(u)
  PROVE  /\ put' \in [Slots -> Upload \cup {None}]
         /\ u \in Slots => put'[u] = None
         /\ \A v \in Slots : v # u => put'[v] = put[v]
BY DEF Respond, TypeOK

LEMMA BeginEffect ==
  ASSUME WriteAssumption, TypeOK, NEW u \in Slots, NEW r \in Routes,
         NEW b \in Texts \cup NarBytes, NEW pc \in {"reading", "recorded"},
         Begin(u, r, b, pc)
  PROVE  /\ put' \in [Slots -> Upload \cup {None}]
         /\ put'[u] # None /\ put'[u].pc = pc
         /\ put'[u].route = r /\ put'[u].body = b
         /\ \A v \in Slots : v # u => put'[v] = put[v]
<1>1. put \in [Slots -> Upload \cup {None}]
  BY DEF TypeOK
<1>2. [pc |-> pc, route |-> r, body |-> b] \in Upload
  BY DEF Upload
<1> QED BY <1>1, <1>2 DEF Begin, WriteAssumption

-----------------------------------------------------------------------------
(* Routes: what a step may do to the rows and files. *)

\* The action of RouteImmutable.
Immutable ==
    \A r \in Routes :
        staged[r] # None =>
           \/ staged'[r] = staged[r]
           \/ /\ IsInfo(r) /\ staged'[r] = None
              /\ staged[r] = r[2] => r[2] \in torn'

RowsKept ==
    /\ Immutable /\ torn \subseteq torn' /\ infos \subseteq infos'
    /\ \A p \in Paths :
          /\ p \in files /\ staged[<<"info", p>>] = p
          /\ staged'[<<"info", p>>] = p
          => p \in files'

LEMMA InfoRoute ==
  ASSUME NEW p \in Paths
  PROVE  /\ <<"info", p>> \in Routes /\ IsInfo(<<"info", p>>)
         /\ <<"info", p>>[2] = p
BY DEF Routes, IsInfo

LEMMA NarRoute ==
  ASSUME NEW n \in NARs
  PROVE  /\ <<"nar", n>> \in Routes /\ ~IsInfo(<<"nar", n>>)
         /\ <<"nar", n>>[2] = n
BY DEF Routes, IsInfo

LEMMA InfoRouteForm ==
  ASSUME NEW r \in Routes, IsInfo(r)
  PROVE  r[2] \in Paths /\ r = <<"info", r[2]>>
BY DEF Routes, IsInfo

LEMMA QuietRows ==
  ASSUME UNCHANGED <<staged, torn>>, files \subseteq files', infos \subseteq infos'
  PROVE  RowsKept
BY DEF RowsKept, Immutable

\* discard() of a route takes no file that another row refers to.
LEMMA DiscardRows ==
  ASSUME WriteAssumption, TypeOK, NEW r \in Routes, IsInfo(r), Discard(r),
         torn \subseteq torn', staged[r] = r[2] => r[2] \in torn',
         UNCHANGED infos
  PROVE  RowsKept
<1>1. staged \in [Routes -> Texts \cup NarBytes \cup {None}]
  BY DEF TypeOK
<1>2. CASE staged[r] = None
  BY <1>2, QuietRows DEF Discard, RowsKept, Immutable
<1>3. CASE staged[r] # None
  <2>1. /\ staged' = [staged EXCEPT ![r] = None]
        /\ files' = files \ {d \in {staged[r]} :
                                \A q \in Routes \ {r} : staged[q] # d}
    BY <1>3 DEF Discard
  <2>2. Immutable
    BY <1>1, <2>1 DEF Immutable
  <2>3. ASSUME NEW p \in Paths, p \in files, staged[<<"info", p>>] = p,
               staged'[<<"info", p>>] = p
        PROVE  p \in files'
    <3>1. <<"info", p>> \in Routes /\ p # None
      BY InfoRoute DEF WriteAssumption
    <3>2. <<"info", p>> # r
      BY <1>1, <2>1, <2>3, <3>1
    <3> QED BY <2>1, <2>3, <3>1, <3>2
  <2> QED BY <2>2, <2>3 DEF RowsKept
<1> QED BY <1>2, <1>3

LEMMA RowsStay ==
  ASSUME WriteAssumption, TypeOK, UploadsAreSound, [Next]_vars
  PROVE  RowsKept
<1>1. ASSUME NEW u \in Slots, Client(u) \/ Progress(u)
      PROVE  RowsKept
  <2>1. CASE BeginInfo(u)
    BY <2>1, QuietRows DEF BeginInfo, memory
  <2>2. CASE StageNar(u)
    <3>1. PICK n \in NARs, b \in NarBytes :
             /\ NarFits(n, b)
             /\ IF staged[<<"nar", n>>] # b
                THEN staged' = [staged EXCEPT ![<<"nar", n>>] = b]
                ELSE UNCHANGED staged
             /\ UNCHANGED <<files, infos, torn>>
      BY <2>2 DEF StageNar
    <3>2. CASE UNCHANGED staged
      BY <3>1, <3>2, QuietRows
    <3>3. CASE staged' = [staged EXCEPT ![<<"nar", n>>] = b]
               /\ staged[<<"nar", n>>] # b
      <4>1. staged[<<"nar", n>>] = None
        BY <3>1, <3>3 DEF NarFits
      <4>2. \A r \in Routes : staged[r] # None => staged'[r] = staged[r]
        BY <3>3, <4>1 DEF TypeOK
      <4> QED BY <3>1, <4>2 DEF RowsKept, Immutable
    <3> QED BY <3>1, <3>2, <3>3
  <2>3. CASE ReadFails(u)
    BY <2>3, QuietRows DEF ReadFails, memory
  <2>4. CASE RecordFails(u)
    <3>1. At(u, "read") /\ put[u].route \in Routes /\ IsInfo(put[u].route)
      BY <2>4, UploadFields DEF RecordFails, At, UploadsAreSound, Sound
    <3> QED BY <2>4, <3>1, DiscardRows DEF RecordFails
  <2>5. CASE OnStagedRefused(u)
    BY <2>5, QuietRows DEF OnStagedRefused, tables
  <2>6. CASE ReadInfo(u)
    BY <2>6, QuietRows DEF ReadInfo, memory
  <2>7. CASE InsertInfo(u)
    <3>1. PICK r : r = put[u].route
      OBVIOUS
    <3>2. CASE UNCHANGED staged
      BY <2>7, <3>2, QuietRows DEF InsertInfo
    <3>3. CASE staged[r] = None /\ staged' = [staged EXCEPT ![r] = put[u].body]
      <4>2. \A q \in Routes : staged[q] # None => staged'[q] = staged[q]
        BY <3>3 DEF TypeOK
      <4> QED BY <2>7, <4>2 DEF RowsKept, Immutable, InsertInfo
    <3> QED BY <2>7, <3>1, <3>2, <3>3 DEF InsertInfo
  <2>8. CASE ReadBack(u) \/ ReadBackFails(u)
    BY <2>8, QuietRows DEF ReadBack, ReadBackFails, tables
  <2>9. CASE RecordInfo(u)
    BY <2>9, QuietRows DEF RecordInfo
  <2>10. CASE RejectInfo(u)
    <3>1. At(u, "read") /\ put[u].route \in Routes /\ IsInfo(put[u].route)
      BY <2>10, UploadFields DEF RejectInfo, At, UploadsAreSound, Sound
    <3>2. /\ torn \subseteq torn'
          /\ staged[put[u].route] = put[u].route[2] => put[u].route[2] \in torn'
      BY <2>10 DEF RejectInfo
    <3> QED BY <2>10, <3>1, <3>2, DiscardRows DEF RejectInfo
  <2>11. CASE OnStaged(u)
    BY <2>11, QuietRows DEF OnStaged, tables
  <2> QED BY <1>1, <2>1, <2>2, <2>3, <2>4, <2>5, <2>6, <2>7, <2>8, <2>9,
             <2>10, <2>11 DEF Client, Progress
<1>2. CASE Recompute
  <2>1. UNCHANGED <<staged, torn, files, infos>>
    BY <1>2 DEF Recompute, RecomputeStart, LowerAnswers, Continue
  <2> QED BY <2>1, QuietRows
<1>3. CASE LowerFails \/ OnCommitted \/ Starting \/ Crash \/ CrashInStageNar
           \/ OperatorRestarts
  <2>1. UNCHANGED <<staged, torn, files, infos>>
    BY <1>3 DEF LowerFails, OnCommitted, Starting, Activate, Activated, Crash,
                CrashInStageNar, OperatorRestarts, tables
  <2> QED BY <2>1, QuietRows
<1>4. CASE UNCHANGED vars
  BY <1>4, QuietRows DEF vars
<1> QED BY <1>1, <1>2, <1>3, <1>4 DEF Next

-----------------------------------------------------------------------------
(* Recomputations: how a step of one ends. *)

\* The job a recomputation works on, and the jobs behind it.
IsNextJob(job, rest) ==
    \/ /\ run = None /\ queue # <<>> /\ status # "down"
       /\ job = Head(queue) /\ rest = Tail(queue)
    \/ run # None /\ job = run.job /\ rest = queue

Waits(job, rest) ==
    /\ Sane(run') /\ run'.asks # None /\ run' # None /\ run'.job = job
    /\ queue' = rest
    /\ UNCHANGED <<status, put, overlay, generation, due>>

\* It resolves or rejects, and only its own upload hears of it.
Ends(job, rest) ==
    /\ run' = None
    /\ \/ /\ job.by = "put" /\ Respond(job.id)
          /\ queue' = rest /\ UNCHANGED status
       \/ job.by # "put" /\ queue' = rest /\ UNCHANGED <<status, put>>
       \/ status' = "failed" /\ queue' = <<>> /\ UNCHANGED put
       \/ Down

Commits ==
    \/ UNCHANGED overlay
    \/ \E c : Sane(c) /\ Committable(c) /\ overlay' = overlay \cup c.admitted

LEMMA RejectEnds ==
  ASSUME NEW job, NEW rest, Reject(job, rest)
  PROVE  Ends(job, rest) /\ (due' = due \/ due' = FALSE)
BY DEF Reject, Ends, Down

LEMMA ContinueCases ==
  ASSUME WriteAssumption, TypeOK, NEW c, Sane(c), Settled(c), NEW rest,
         Continue(c, rest)
  PROVE  /\ \/ Waits(c.job, rest)
            \/ Ends(c.job, rest) /\ Commits /\ generation' \in Nat
         /\ due' \in BOOLEAN
         /\ UNCHANGED <<staged, routed, files, reserved, infos, lastDirtied,
                        dirty, torn, crashes>>
<1>1. UNCHANGED <<staged, routed, files, reserved, infos, lastDirtied,
                        dirty, torn, crashes>>
  BY DEF Continue
<1>2. due \in BOOLEAN /\ generation \in Nat /\ c.job \in Job
  BY DEF TypeOK, Sane, Pass
<1>3. CASE /\ ~Finished(c) /\ run' = c /\ queue' = rest
           /\ UNCHANGED <<status, put, overlay, generation, due>>
  <2>1. c.asks # None
    BY <1>3 DEF Settled
  <2>2. c \in Recomputation
    BY <2>1 DEF Sane, Pass, Recomputation
  <2>3. c # None
    BY <2>2 DEF WriteAssumption
  <2> QED BY <1>1, <1>2, <1>3, <2>1, <2>3 DEF Waits
<1>4. CASE /\ Finished(c) /\ Committable(c)
           /\ overlay' = overlay \cup c.admitted
           /\ generation' = IF c.admitted = {} THEN generation ELSE generation + 1
           /\ due' = (due \/ (c.admitted # {} /\ c.job.by # "put"))
           /\ IF c.job.by = "put" THEN Respond(c.job.id) ELSE UNCHANGED put
           /\ run' = None /\ queue' = rest /\ UNCHANGED status
  <2>1. Ends(c.job, rest)
    BY <1>4 DEF Ends
  <2>2. Commits
    BY <1>4 DEF Commits
  <2>3. generation' \in Nat
    BY <1>2, <1>4
  <2>4. due' \in BOOLEAN
    BY <1>4, Zenon
  <2> QED BY <1>1, <2>1, <2>2, <2>3, <2>4
<1>5. CASE Reject(c.job, rest) /\ UNCHANGED <<overlay, generation>>
  BY <1>1, <1>2, <1>5, RejectEnds DEF Commits
<1> QED BY <1>3, <1>4, <1>5 DEF Continue

LEMMA StartIsSane ==
  ASSUME WriteAssumption, TypeOK, NEW j \in Job, NEW S, S \subseteq infos
  PROVE  Sane(Start(j, S)) /\ Start(j, S).job = j
<1>1. Start(j, S) \in Pass
  BY DEF Start, Pass, TypeOK
<1> QED BY <1>1 DEF Sane, Start

LEMMA RecomputeCases ==
  ASSUME WriteAssumption, TypeOK, RunIsSane, Recompute \/ LowerFails
  PROVE  /\ \E job \in Job, rest \in Seq(Job) :
               /\ IsNextJob(job, rest)
               /\ \/ Waits(job, rest)
                  \/ Ends(job, rest) /\ Commits /\ generation' \in Nat
         /\ due' \in BOOLEAN /\ faults' \in Nat
         /\ UNCHANGED <<staged, routed, files, reserved, infos, lastDirtied,
                        dirty, torn, crashes>>
<1>0. queue \in Seq(Job) /\ faults \in Nat /\ due \in BOOLEAN /\ generation \in Nat
  BY DEF TypeOK
<1>1. CASE RecomputeStart
  <2>1. run = None /\ queue # <<>> /\ status # "down" /\ UNCHANGED faults
    BY <1>1 DEF RecomputeStart
  <2>2. Head(queue) \in Job /\ Tail(queue) \in Seq(Job)
    BY <1>0, <2>1
  <2> DEFINE seeds == Seeds(Head(queue).seed)
             candidates == IF seeds = {} THEN {{}} ELSE {AffectedBy(p) : p \in seeds}
             C == {Start(Head(queue), S) : S \in candidates}
  <2>3. \A S \in candidates : S \subseteq infos
    BY DEF AffectedBy
  <2>4. PICK c \in ToAwait(C) : Continue(c, Tail(queue))
    BY <1>1 DEF RecomputeStart
  <2> HIDE DEF candidates
  <2>5. \A c1 \in C : Sane(c1) /\ c1.job = Head(queue)
    BY <2>2, <2>3, StartIsSane
  <2> HIDE DEF C
  <2>6. Sane(c) /\ c.job = Head(queue) /\ Settled(c)
    BY <2>5, ToAwaitSettles
  <2>7. IsNextJob(Head(queue), Tail(queue))
    BY <2>1 DEF IsNextJob
  <2> QED BY <1>0, <2>1, <2>2, <2>4, <2>6, <2>7, ContinueCases
<1>2. CASE LowerAnswers
  <2>1. run # None /\ UNCHANGED faults
    BY <1>2 DEF LowerAnswers
  <2>2. Sane(run) /\ run.asks \in run.todo /\ run.job \in Job
    BY <2>1 DEF RunIsSane, Sane, Pass
  <2> DEFINE p == run.asks
             next == IF Unresolved(run, p) \subseteq Lower
                     THEN Admit(run, p) ELSE Passed(run, p)
  <2>3. PICK c \in ToAwait({next}) : Continue(c, queue)
    BY <1>2 DEF LowerAnswers
  <2>4. Sane(next) /\ next.job = run.job
    BY <2>2, AdmitIsSane, PassedIsSane DEF Admit, Passed, Onward
  <2> HIDE DEF next
  <2>5. \A d \in {next} : Sane(d) /\ d.job = run.job
    BY <2>4
  <2>6. Sane(c) /\ c.job = run.job /\ Settled(c)
    BY <2>5, ToAwaitSettles
  <2>7. IsNextJob(run.job, queue)
    BY <2>1 DEF IsNextJob
  <2> QED BY <1>0, <2>1, <2>2, <2>3, <2>6, <2>7, ContinueCases
<1>3. CASE LowerFails
  <2>1. /\ run # None /\ faults' = faults + 1 /\ Reject(run.job, queue)
        /\ UNCHANGED <<tables, lastDirtied, dirty, torn, crashes>>
    BY <1>3 DEF LowerFails
  <2>2. run.job \in Job
    BY <2>1 DEF RunIsSane, Sane, Pass
  <2>3. Ends(run.job, queue) /\ due' \in BOOLEAN
    BY <1>0, <2>1, RejectEnds
  <2>4. Commits /\ generation' \in Nat
    BY <1>0, <2>1 DEF Commits, tables
  <2>5. IsNextJob(run.job, queue)
    BY <2>1 DEF IsNextJob
  <2> QED BY <1>0, <2>1, <2>2, <2>3, <2>4, <2>5 DEF tables
<1> QED BY <1>1, <1>2, <1>3 DEF Recompute

-----------------------------------------------------------------------------
(* Types. *)

LEMMA EnqueueType ==
  ASSUME TypeOK, NEW j \in Job, Enqueue(j)
  PROVE  queue' \in Seq(Job)
BY DEF TypeOK, Enqueue

LEMMA ChangedType ==
  ASSUME NEW r \in Routes
  PROVE  Changed(r) \in Job /\ Changed(r).by = "changes"
BY DEF Changed, Job

LEMMA RowType ==
  ASSUME TypeOK, NEW r \in Routes, NEW b \in Bodies(r) \cup {None},
         staged' = [staged EXCEPT ![r] = b]
  PROVE  /\ staged' \in [Routes -> Texts \cup NarBytes \cup {None}]
         /\ \A q \in Routes : staged'[q] \in Bodies(q) \cup {None}
BY DEF TypeOK, Bodies

LEMMA DiscardType ==
  ASSUME TypeOK, NEW r \in Routes, Discard(r)
  PROVE  /\ staged' \in [Routes -> Texts \cup NarBytes \cup {None}]
         /\ \A q \in Routes : staged'[q] \in Bodies(q) \cup {None}
         /\ files' \subseteq Texts
<1>1. CASE staged[r] = None
  BY <1>1 DEF Discard, TypeOK
<1>2. CASE staged[r] # None
  BY <1>2, RowType DEF Discard, TypeOK
<1> QED BY <1>1, <1>2

LEMMA TypeInit ==
  ASSUME WriteAssumption, Init
  PROVE  TypeOK
<1>1. \A r \in Routes : staged[r] \in Bodies(r) \cup {None}
  <2> SUFFICES ASSUME NEW r \in Routes PROVE staged[r] \in Bodies(r) \cup {None}
    OBVIOUS
  <2>1. CASE IsInfo(r)
    BY <2>1 DEF Init
  <2>2. CASE ~IsInfo(r)
    <3>1. r[2] \in NARs
      BY <2>2 DEF Routes, IsInfo
    <3> QED BY <2>2, <3>1 DEF Init, Bodies, WriteAssumption
  <2> QED BY <2>1, <2>2
<1>2. staged \in [Routes -> Texts \cup NarBytes \cup {None}]
  BY <1>1 DEF Init, Bodies
<1>3. routed \in [NARs -> NarBytes \cup {None}]
  BY DEF Init, WriteAssumption
<1>4. due \in BOOLEAN
  BY Zenon DEF Init
<1>5. put \in [Slots -> Upload \cup {None}] /\ queue \in Seq(Job)
  BY DEF Init
<1> QED BY <1>1, <1>2, <1>3, <1>4, <1>5 DEF Init, TypeOK

LEMMA TypeClient ==
  ASSUME WriteAssumption, TypeOK, UploadsAreSound, NEW u \in Slots, Client(u)
  PROVE  TypeOK'
<1>1. CASE BeginInfo(u)
  <2>1. PICK p \in Paths, b \in Texts : Begin(u, <<"info", p>>, b, "reading")
    BY <1>1 DEF BeginInfo
  <2>2. put' \in [Slots -> Upload \cup {None}]
    BY <2>1, InfoRoute, BeginEffect
  <2> QED BY <1>1, <2>2 DEF BeginInfo, TypeOK, memory
<1>2. CASE StageNar(u)
  <2>1. PICK n \in NARs, b \in NarBytes :
           /\ Begin(u, <<"nar", n>>, b, "recorded")
           /\ IF staged[<<"nar", n>>] # b
              THEN /\ staged' = [staged EXCEPT ![<<"nar", n>>] = b]
                   /\ routed' = [routed EXCEPT ![n] = b]
                   /\ Enqueue(Changed(<<"nar", n>>))
              ELSE UNCHANGED <<staged, routed, queue>>
           /\ UNCHANGED <<status, files, reserved, infos, overlay, generation,
                          run, due, lastDirtied, dirty, torn, faults, crashes>>
    BY <1>2 DEF StageNar
  <2>2. <<"nar", n>> \in Routes /\ b \in Bodies(<<"nar", n>>)
    BY NarRoute DEF Bodies
  <2>3. put' \in [Slots -> Upload \cup {None}]
    BY <2>1, <2>2, BeginEffect
  <2>4. CASE UNCHANGED <<staged, routed, queue>>
    BY <2>1, <2>3, <2>4 DEF TypeOK
  <2>5. CASE /\ staged' = [staged EXCEPT ![<<"nar", n>>] = b]
             /\ routed' = [routed EXCEPT ![n] = b]
             /\ Enqueue(Changed(<<"nar", n>>))
    <3>1. queue' \in Seq(Job)
      BY <2>2, <2>5, ChangedType, EnqueueType
    <3>2. /\ staged' \in [Routes -> Texts \cup NarBytes \cup {None}]
          /\ \A q \in Routes : staged'[q] \in Bodies(q) \cup {None}
      BY <2>2, <2>5, RowType
    <3>3. routed' \in [NARs -> NarBytes \cup {None}]
      BY <2>5 DEF TypeOK
    <3> QED BY <2>1, <2>3, <3>1, <3>2, <3>3 DEF TypeOK
  <2> QED BY <2>1, <2>4, <2>5
<1>3. CASE ReadFails(u)
  BY <1>3, RespondEffect DEF ReadFails, TypeOK, memory
<1>4. CASE RecordFails(u)
  <2>1. put[u].route \in Routes /\ put[u].route[2] \in Paths
    BY <1>4, UploadFields, InfoRouteForm
       DEF RecordFails, At, UploadsAreSound, Sound
  <2>2. put' \in [Slots -> Upload \cup {None}]
    BY <1>4, RespondEffect DEF RecordFails
  <2>3. /\ staged' \in [Routes -> Texts \cup NarBytes \cup {None}]
        /\ \A q \in Routes : staged'[q] \in Bodies(q) \cup {None}
        /\ files' \subseteq Texts
    BY <1>4, <2>1, DiscardType DEF RecordFails
  <2>4. /\ torn' = torn \cup {put[u].route[2]} /\ faults' = faults + 1
        /\ UNCHANGED <<status, routed, reserved, infos, overlay, generation,
                       memory, dirty, crashes>>
    BY <1>4 DEF RecordFails
  <2>5. faults' \in Nat /\ torn' \subseteq Paths
    <3>1. faults \in Nat /\ torn \subseteq Paths
      BY DEF TypeOK
    <3>2. faults' \in Nat
      BY ONLY <2>4, <3>1
    <3>3. torn' \subseteq Paths
      BY ONLY <2>1, <2>4, <3>1
    <3> QED BY <3>2, <3>3
  <2> QED BY ONLY TypeOK, <2>2, <2>3, <2>4, <2>5, SMTT(30) DEF TypeOK, memory
<1>5. CASE OnStagedRefused(u)
  <2>1. put' \in [Slots -> Upload \cup {None}]
    BY <1>5, RespondEffect DEF OnStagedRefused
  <2>2. faults' \in Nat
    BY <1>5 DEF OnStagedRefused, TypeOK
  <2> QED BY <1>5, <2>1, <2>2 DEF OnStagedRefused, TypeOK, memory, tables
<1> QED BY <1>1, <1>2, <1>3, <1>4, <1>5 DEF Client

LEMMA TypeProgress ==
  ASSUME WriteAssumption, TypeOK, UploadsAreSound, NEW u \in Slots, Progress(u)
  PROVE  TypeOK'
<1>0. put[u] # None /\ put[u].route \in Routes
  BY UploadFields DEF Progress, ReadInfo, InsertInfo, ReadBack, ReadBackFails,
       RecordInfo, RejectInfo, OnStaged, At
<1>1. CASE ReadInfo(u)
  <2>1. put[u].body \in Texts
    BY <1>0, <1>1 DEF ReadInfo, At, UploadsAreSound, Sound
  <2>2. put' \in [Slots -> Upload \cup {None}]
    BY <1>0, <1>1, MoveEffect, RespondEffect DEF ReadInfo
  <2> QED BY <1>1, <2>1, <2>2 DEF ReadInfo, TypeOK, memory
<1>2. CASE InsertInfo(u)
  <2>1. put[u].body \in Texts /\ IsInfo(put[u].route)
    BY <1>0, <1>2 DEF InsertInfo, At, UploadsAreSound, Sound
  <2>2. put' \in [Slots -> Upload \cup {None}]
    BY <1>0, <1>2, MoveEffect, RespondEffect DEF InsertInfo
  <2>3. CASE UNCHANGED <<staged, queue>>
    BY <1>2, <2>2, <2>3 DEF InsertInfo, TypeOK
  <2>4. CASE /\ staged' = [staged EXCEPT ![put[u].route] = put[u].body]
             /\ Enqueue(Changed(put[u].route))
    <3>1. queue' \in Seq(Job)
      BY <1>0, <2>4, ChangedType, EnqueueType
    <3>2. put[u].body \in Bodies(put[u].route)
      BY <2>1 DEF Bodies
    <3>3. /\ staged' \in [Routes -> Texts \cup NarBytes \cup {None}]
          /\ \A q \in Routes : staged'[q] \in Bodies(q) \cup {None}
      BY <1>0, <2>4, <3>2, RowType
    <3> QED BY <1>2, <2>2, <3>1, <3>3 DEF InsertInfo, TypeOK
  <2> QED BY <1>2, <2>3, <2>4 DEF InsertInfo
<1>3. CASE ReadBack(u) \/ ReadBackFails(u)
  <2>1. put' \in [Slots -> Upload \cup {None}]
    BY <1>0, <1>3, MoveEffect, RespondEffect DEF ReadBack, ReadBackFails
  <2> QED BY <1>3, <2>1 DEF ReadBack, ReadBackFails, TypeOK, memory, tables
<1>4. CASE RecordInfo(u)
  <2>1. put[u].route[2] \in Paths
    BY <1>0, <1>4, InfoRouteForm DEF RecordInfo, At, UploadsAreSound, Sound
  <2>2. put' \in [Slots -> Upload \cup {None}]
    BY <1>0, <1>4, MoveEffect DEF RecordInfo
  <2>3. queue' \in Seq(Job)
    BY <1>0, <1>4, ChangedType, EnqueueType DEF RecordInfo
  <2> QED BY <1>4, <2>1, <2>2, <2>3 DEF RecordInfo, TypeOK
<1>5. CASE RejectInfo(u)
  <2>1. put[u].route[2] \in Paths
    BY <1>0, <1>5, InfoRouteForm DEF RejectInfo, At, UploadsAreSound, Sound
  <2>2. put' \in [Slots -> Upload \cup {None}]
    BY <1>5, RespondEffect DEF RejectInfo
  <2>3. /\ staged' \in [Routes -> Texts \cup NarBytes \cup {None}]
        /\ \A q \in Routes : staged'[q] \in Bodies(q) \cup {None}
        /\ files' \subseteq Texts
    BY <1>0, <1>5, DiscardType DEF RejectInfo
  <2>4. torn' \subseteq Paths
    BY <1>5, <2>1 DEF RejectInfo, TypeOK
  <2> QED BY <1>5, <2>2, <2>3, <2>4 DEF RejectInfo, TypeOK, memory
<1>6. CASE OnStaged(u)
  <2>1. [seed |-> put[u].route, by |-> "put", id |-> u] \in Job
    BY <1>0 DEF Job
  <2>2. queue' \in Seq(Job)
    BY <1>6, <2>1, EnqueueType DEF OnStaged
  <2>3. put' \in [Slots -> Upload \cup {None}]
    BY <1>0, <1>6, MoveEffect DEF OnStaged
  <2> QED BY <1>6, <2>2, <2>3 DEF OnStaged, TypeOK, tables
<1> QED BY <1>1, <1>2, <1>3, <1>4, <1>5, <1>6 DEF Progress

LEMMA DownType ==
  ASSUME TypeOK, Down
  PROVE  /\ put' \in [Slots -> Upload \cup {None}] /\ status' = "down"
         /\ queue' = <<>> /\ queue' \in Seq(Job) /\ run' = None
         /\ due' \in BOOLEAN
<1>1. due' \in BOOLEAN
  BY Zenon DEF Down
<1> QED BY <1>1 DEF Down, TypeOK

LEMMA TypeRecompute ==
  ASSUME WriteAssumption, TypeOK, RunIsSane, Recompute \/ LowerFails
  PROVE  TypeOK'
<1>1. PICK job \in Job, rest \in Seq(Job) :
         \/ Waits(job, rest)
         \/ Ends(job, rest) /\ Commits /\ generation' \in Nat
  BY RecomputeCases
<1>2. /\ due' \in BOOLEAN /\ faults' \in Nat
      /\ UNCHANGED <<staged, routed, files, reserved, infos, lastDirtied,
                     dirty, torn, crashes>>
  BY RecomputeCases
<1>3. CASE Waits(job, rest)
  <2>1. run' \in Recomputation
    BY <1>3 DEF Waits, Sane, Pass, Recomputation
  <2> QED BY <1>2, <1>3, <2>1 DEF Waits, TypeOK
<1>4. CASE Ends(job, rest) /\ Commits /\ generation' \in Nat
  <2>1. /\ run' = None /\ put' \in [Slots -> Upload \cup {None}]
        /\ queue' \in Seq(Job)
        /\ status' \in {"down", "starting", "active", "failed"}
    <3>1. CASE Down
      BY <1>4, <3>1, DownType DEF Ends
    <3>2. CASE Respond(job.id) /\ queue' = rest /\ UNCHANGED status
      BY <1>4, <3>2, RespondEffect DEF Ends, TypeOK
    <3>3. CASE UNCHANGED put /\ queue' \in {rest, <<>>}
               /\ status' \in {status, "failed"}
      <4>0. rest \in Seq(Job) /\ <<>> \in Seq(Job)
        OBVIOUS
      <4>1. queue' \in Seq(Job)
        BY ONLY <3>3, <4>0
      <4>2. run' = None
        BY <1>4 DEF Ends
      <4> QED BY <3>3, <4>1, <4>2 DEF TypeOK
    <3> QED BY <1>4, <3>1, <3>2, <3>3 DEF Ends
  <2>2. overlay' \subseteq Paths
    BY <1>4 DEF Commits, TypeOK, Sane, Pass
  <2> QED BY <1>2, <1>4, <2>1, <2>2 DEF TypeOK
<1> QED BY <1>1, <1>3, <1>4

LEMMA TypeProcess ==
  ASSUME WriteAssumption, TypeOK,
         OnCommitted \/ Starting \/ Crash \/ CrashInStageNar \/ OperatorRestarts
  PROVE  TypeOK'
<1>1. CASE OnCommitted
  <2>1. due' \in BOOLEAN
    BY <1>1, Zenon DEF OnCommitted
  <2>2. {lastDirtied', dirty'} \subseteq Nat
    BY <1>1 DEF OnCommitted, TypeOK
  <2> QED BY <1>1, <2>1, <2>2 DEF OnCommitted, TypeOK, tables
<1>2. CASE Activate
  <2>1. PICK order \in [1..Cardinality(infos) -> infos] :
           queue' = [i \in DOMAIN order |->
                        [seed |-> <<"info", order[i]>>,
                         by |-> "reconcile", id |-> None]]
    BY <1>2 DEF Activate
  <2>2. IsFiniteSet(infos) /\ Cardinality(infos) \in Nat
    BY FS_Subset, FS_CardinalityType DEF TypeOK, WriteAssumption
  <2>3. \A i \in DOMAIN order :
           [seed |-> <<"info", order[i]>>, by |-> "reconcile", id |-> None] \in Job
    BY InfoRoute DEF TypeOK, Job
  <2>4. queue' \in Seq(Job)
    BY <2>1, <2>2, <2>3
  <2> QED BY <1>2, <2>4, SMTT(30) DEF Activate, TypeOK
<1>3. CASE Activated
  BY <1>3 DEF Activated, TypeOK, tables, memory
<1>4. CASE Crash \/ OperatorRestarts
  <2>1. Down /\ crashes' \in Nat
    BY <1>4 DEF Crash, OperatorRestarts, TypeOK
  <2>2. UNCHANGED <<tables, lastDirtied, dirty, torn, faults>>
    BY <1>4 DEF Crash, OperatorRestarts
  <2> QED BY <2>1, <2>2, DownType DEF TypeOK, tables
<1>5. CASE CrashInStageNar
  <2>1. routed' \in [NARs -> NarBytes \cup {None}]
    BY <1>5 DEF CrashInStageNar, TypeOK
  <2>2. Down /\ crashes' \in Nat
    BY <1>5 DEF CrashInStageNar, TypeOK
  <2>3. UNCHANGED <<staged, files, reserved, infos, overlay, generation,
                    lastDirtied, dirty, torn, faults>>
    BY <1>5 DEF CrashInStageNar
  <2> QED BY <2>1, <2>2, <2>3, DownType DEF TypeOK
<1> QED BY <1>1, <1>2, <1>3, <1>4, <1>5 DEF Starting

LEMMA TypeNext ==
  ASSUME WriteAssumption, TypeOK, UploadsAreSound, RunIsSane, [Next]_vars
  PROVE  TypeOK'
<1>1. CASE UNCHANGED vars
  BY <1>1 DEF vars, TypeOK
<1> QED BY <1>1, TypeClient, TypeProgress, TypeRecompute, TypeProcess DEF Next

-----------------------------------------------------------------------------
(* Uploads and the rows they rely on. *)

\* A step leaves the right narinfo of a path staged, or discard() took it.
LEMMA StagedStays ==
  ASSUME WriteAssumption, TypeOK, RowsKept, NEW p \in Paths, IsStaged(p)
  PROVE  /\ p \in torn' \/ staged'[<<"info", p>>] = p
         /\ p \in torn \cup files => p \in torn' \cup files'
<1>1. <<"info", p>> \in Routes /\ <<"info", p>>[2] = p /\ p # None
  BY InfoRoute DEF WriteAssumption
<1>2. CASE p \in torn
  BY <1>2 DEF RowsKept
<1>3. CASE staged[<<"info", p>>] = p
  BY <1>1, <1>3 DEF RowsKept, Immutable
<1> QED BY <1>2, <1>3 DEF IsStaged

\* An upload that did not move is as sound as before.
LEMMA OthersSound ==
  ASSUME WriteAssumption, TypeOK, UploadsAreSound, RowsKept, NEW v \in Slots,
         put'[v] = put[v], put[v] # None, v \in reserved => v \in reserved'
  PROVE  Sound(v, put[v])'
<1>1. Sound(v, put[v]) /\ put[v].route \in Routes
  BY UploadFields DEF UploadsAreSound
<1>2. ASSUME put[v].pc \in {"staged", "read"}, put[v].body = put[v].route[2]
      PROVE  /\ put[v].body \in torn' \/ staged'[<<"info", put[v].body>>] = put[v].body
             /\ put[v].body \in torn \cup files => put[v].body \in torn' \cup files'
  <2>1. IsInfo(put[v].route) /\ IsStaged(put[v].body)
    BY <1>1, <1>2 DEF Sound
  <2>2. put[v].body \in Paths
    BY <1>1, <1>2, <2>1, InfoRouteForm
  <2> QED BY <2>1, <2>2, StagedStays
<1> QED BY <1>1, <1>2 DEF Sound, IsStaged

LEMMA UploadsInit ==
  ASSUME WriteAssumption, Init
  PROVE  UploadsAreSound
BY DEF Init, UploadsAreSound

\* The upload that moved is sound, and so are the others.
LEMMA UploadsMoved ==
  ASSUME WriteAssumption, TypeOK, UploadsAreSound, RowsKept, NEW u \in Slots,
         \A v \in Slots : v # u => put'[v] = put[v],
         reserved \ {u} \subseteq reserved',
         put'[u] # None => Sound(u, put[u])'
  PROVE  UploadsAreSound'
<1> SUFFICES ASSUME NEW v \in Slots, put'[v] # None
             PROVE  Sound(v, put[v])'
  BY DEF UploadsAreSound
<1>1. CASE v = u
  BY <1>1
<1>2. CASE v # u
  BY <1>2, OthersSound
<1> QED BY <1>1, <1>2

\* Nobody's upload moved, or those that did were answered.
LEMMA UploadsQuiet ==
  ASSUME WriteAssumption, TypeOK, UploadsAreSound, RowsKept,
         \A v \in Slots : put'[v] \in {put[v], None},
         \A v \in Slots : put'[v] # None /\ v \in reserved => v \in reserved'
  PROVE  UploadsAreSound'
<1> SUFFICES ASSUME NEW v \in Slots, put'[v] # None
             PROVE  Sound(v, put[v])'
  BY DEF UploadsAreSound
<1>1. put'[v] = put[v]
  OBVIOUS
<1> QED BY <1>1, OthersSound

LEMMA UploadsStep ==
  ASSUME WriteAssumption, TypeOK, UploadsAreSound, RowsKept, NEW u \in Slots,
         Client(u) \/ Progress(u)
  PROVE  UploadsAreSound'
<1>1. CASE BeginInfo(u)
  <2>1. PICK p \in Paths, b \in Texts : Begin(u, <<"info", p>>, b, "reading")
    BY <1>1 DEF BeginInfo
  <2>2. /\ put'[u].pc = "reading" /\ put'[u].route = <<"info", p>> /\ put'[u].body = b
        /\ \A v \in Slots : v # u => put'[v] = put[v]
    <3>1. <<"info", p>> \in Routes /\ b \in Texts \cup NarBytes
      BY InfoRoute
    <3> QED BY <2>1, <3>1, BeginEffect
  <2>3. reserved' = reserved \cup {u}
    BY <1>1 DEF BeginInfo
  <2>4. Sound(u, put[u])'
    BY <2>2, <2>3, InfoRoute DEF Sound
  <2> QED BY <2>2, <2>3, <2>4, UploadsMoved
<1>2. CASE StageNar(u)
  <2>1. PICK n \in NARs, b \in NarBytes : Begin(u, <<"nar", n>>, b, "recorded")
    BY <1>2 DEF StageNar
  <2>2. /\ put'[u].pc = "recorded"
        /\ \A v \in Slots : v # u => put'[v] = put[v]
    BY <2>1, NarRoute, BeginEffect
  <2>3. reserved' = reserved
    BY <1>2 DEF StageNar
  <2>4. Sound(u, put[u])'
    BY <2>2 DEF Sound
  <2> QED BY <2>2, <2>3, <2>4, UploadsMoved
<1>3. CASE Respond(u) /\ reserved \ {u} \subseteq reserved'
  <2>1. put'[u] = None /\ \A v \in Slots : v # u => put'[v] = put[v]
    BY <1>3, RespondEffect
  <2> QED BY <1>3, <2>1, UploadsMoved
<1>4. CASE ReadInfo(u) /\ ~Respond(u)
  <2>1. At(u, "reading") /\ put[u] # None /\ put[u].pc = "reading"
    BY <1>4 DEF ReadInfo, At
  <2>2. /\ put[u].route \in Routes /\ IsInfo(put[u].route)
        /\ put[u].body \in Texts /\ u \in reserved
    BY <2>1, UploadFields DEF UploadsAreSound, Sound
  <2>3. put[u].route = <<"info", put[u].route[2]>>
    BY <2>2, InfoRouteForm
  <2>4. CASE staged[put[u].route] = None
    <3>1. Move(u, "linked") /\ UNCHANGED reserved
      BY <1>4, <2>4 DEF ReadInfo
    <3>2. /\ put'[u].pc = "linked" /\ put'[u].route = put[u].route
          /\ put'[u].body = put[u].body
          /\ \A v \in Slots : v # u => put'[v] = put[v]
      BY <2>1, <3>1, MoveEffect
    <3>3. Sound(u, put[u])'
      BY <2>2, <3>1, <3>2 DEF Sound
    <3> QED BY <3>1, <3>2, <3>3, UploadsMoved
  <2>5. CASE staged[put[u].route] # None
    <3>1. /\ Move(u, "staged") /\ reserved' = reserved \ {u}
          /\ staged[put[u].route] = put[u].body /\ UNCHANGED staged
      BY <1>4, <2>5 DEF ReadInfo
    <3>2. /\ put'[u].pc = "staged" /\ put'[u].route = put[u].route
          /\ put'[u].body = put[u].body
          /\ \A v \in Slots : v # u => put'[v] = put[v]
      BY <2>1, <3>1, MoveEffect
    <3>3. Sound(u, put[u])'
      BY <2>2, <2>3, <3>1, <3>2 DEF Sound, IsStaged
    <3> QED BY <3>1, <3>2, <3>3, UploadsMoved
  <2> QED BY <2>4, <2>5
<1>5. CASE InsertInfo(u) /\ ~Respond(u)
  <2>1. At(u, "linked") /\ put[u] # None /\ put[u].pc = "linked"
    BY <1>5 DEF InsertInfo, At
  <2>2. /\ put[u].route \in Routes /\ IsInfo(put[u].route)
        /\ put[u].body \in Texts
    BY <2>1, UploadFields DEF UploadsAreSound, Sound
  <2>3. put[u].route = <<"info", put[u].route[2]>>
    BY <2>2, InfoRouteForm
  <2>4. /\ Move(u, "staged") /\ reserved' = reserved \ {u}
        /\ staged' = [staged EXCEPT ![put[u].route] = put[u].body]
    BY <1>5 DEF InsertInfo
  <2>5. staged'[put[u].route] = put[u].body
    BY <2>2, <2>4 DEF TypeOK
  <2>6. /\ put'[u].pc = "staged" /\ put'[u].route = put[u].route
        /\ put'[u].body = put[u].body
        /\ \A v \in Slots : v # u => put'[v] = put[v]
    BY <2>1, <2>4, MoveEffect
  <2>7. Sound(u, put[u])'
    BY <2>2, <2>3, <2>5, <2>6 DEF Sound, IsStaged
  <2> QED BY <2>4, <2>6, <2>7, UploadsMoved
<1>6. CASE ReadBack(u)
  <2>1. /\ put[u] # None /\ put[u].pc = "staged" /\ put[u].body \in files
        /\ Move(u, "read") /\ UNCHANGED <<reserved, staged, files, torn>>
    BY <1>6 DEF ReadBack, At, tables
  <2>2. /\ put'[u].pc = "read" /\ put'[u].route = put[u].route
        /\ put'[u].body = put[u].body
        /\ \A v \in Slots : v # u => put'[v] = put[v]
    BY <2>1, MoveEffect
  <2>3. Sound(u, put[u])
    BY <2>1 DEF UploadsAreSound
  <2>4. Sound(u, put[u])'
    BY <2>1, <2>2, <2>3 DEF Sound, IsStaged
  <2> QED BY <2>1, <2>2, <2>4, UploadsMoved
<1>7. CASE RecordInfo(u) \/ OnStaged(u)
  <2>1. PICK pc \in {"recorded", "waiting"} :
           put[u] # None /\ Move(u, pc) /\ UNCHANGED reserved
    BY <1>7 DEF RecordInfo, OnStaged, At, tables
  <2>2. /\ put'[u].pc \in {"recorded", "waiting"}
        /\ \A v \in Slots : v # u => put'[v] = put[v]
    BY <2>1, MoveEffect
  <2>3. Sound(u, put[u])'
    BY <2>2 DEF Sound
  <2> QED BY <2>1, <2>2, <2>3, UploadsMoved
<1>8. ReadFails(u) \/ RecordFails(u) \/ OnStagedRefused(u) \/ ReadBackFails(u)
      \/ RejectInfo(u)
      => Respond(u) /\ reserved \ {u} \subseteq reserved'
  BY DEF ReadFails, RecordFails, OnStagedRefused, ReadBackFails, RejectInfo, tables
<1>9. ReadInfo(u) \/ InsertInfo(u) => reserved \ {u} \subseteq reserved'
  BY DEF ReadInfo, InsertInfo
<1> QED BY <1>1, <1>2, <1>3, <1>4, <1>5, <1>6, <1>7, <1>8, <1>9 DEF Client, Progress

LEMMA InfosStep ==
  ASSUME WriteAssumption, TypeOK, UploadsAreSound, InfosAreStaged, RowsKept,
         [Next]_vars
  PROVE  InfosAreStaged'
<1>1. ASSUME NEW p \in infos
      PROVE  p \in torn' \/ (staged'[<<"info", p>>] = p /\ p \in files')
  <2>1. p \in Paths /\ IsStaged(p)
    BY <1>1 DEF TypeOK, InfosAreStaged, IsStaged
  <2> QED BY <1>1, <2>1, StagedStays DEF InfosAreStaged
<1>2. CASE infos' \subseteq infos
  BY <1>1, <1>2 DEF InfosAreStaged
<1>3. ASSUME NEW u \in Slots, RecordInfo(u)
      PROVE  InfosAreStaged'
  <2>1. /\ put[u] # None /\ put[u].pc = "read" /\ put[u].body = put[u].route[2]
        /\ infos' = infos \cup {put[u].body}
        /\ UNCHANGED <<staged, files, torn>>
    BY <1>3 DEF RecordInfo, At
  <2>2. IsStaged(put[u].body) /\ put[u].body \in torn \cup files
    BY <2>1 DEF UploadsAreSound, Sound
  <2> QED BY <1>1, <2>1, <2>2 DEF InfosAreStaged, IsStaged
<1>4. [Next]_vars /\ ~(infos' \subseteq infos) => \E u \in Slots : RecordInfo(u)
  <2>1. ASSUME NEW u \in Slots, Client(u) \/ Progress(u), ~RecordInfo(u)
        PROVE  infos' = infos
    BY <2>1 DEF Client, Progress, BeginInfo, StageNar, ReadFails, RecordFails,
      OnStagedRefused, ReadInfo, InsertInfo, ReadBack, ReadBackFails,
      RejectInfo, OnStaged, tables
  <2>2. Recompute => infos' = infos
    BY DEF Recompute, RecomputeStart, LowerAnswers, Continue
  <2>3. LowerFails \/ OnCommitted \/ Starting \/ Crash \/ CrashInStageNar
        \/ OperatorRestarts \/ UNCHANGED vars => infos' = infos
    BY DEF LowerFails, OnCommitted, Starting, Activate, Activated, Crash,
           CrashInStageNar, OperatorRestarts, tables, vars
  <2> QED BY <2>1, <2>2, <2>3 DEF Next
<1> QED BY <1>2, <1>3, <1>4

-----------------------------------------------------------------------------
(* The overlay and the recomputation under way. *)

OverlayParts == RunIsSane /\ OverlayIsStaged /\ OverlayClosed

LEMMA OverlayQuiet ==
  ASSUME WriteAssumption, TypeOK, OverlayParts, RowsKept, UNCHANGED overlay,
         run' \in {run, None}
  PROVE  OverlayParts'
<1>1. RunIsSane'
  <2> SUFFICES ASSUME run' # None PROVE (Sane(run) /\ run.asks # None)'
    BY DEF RunIsSane
  <2>1. run' = run /\ Sane(run) /\ run.asks # None
    BY DEF OverlayParts, RunIsSane
  <2> QED BY <2>1 DEF Sane, RowsKept
<1>2. OverlayIsStaged'
  <2> SUFFICES ASSUME NEW p \in overlay
               PROVE  p \in infos' /\ staged'[<<"nar", NarOf[p]>>] # None
    BY DEF OverlayIsStaged
  <2>1. p \in infos /\ staged[<<"nar", NarOf[p]>>] # None
    BY DEF OverlayParts, OverlayIsStaged
  <2>2. NarOf[p] \in NARs
    BY DEF TypeOK, WriteAssumption
  <2> QED BY <2>1, <2>2, NarRoute DEF RowsKept, Immutable
<1>3. OverlayClosed'
  BY DEF OverlayParts, OverlayClosed
<1> QED BY <1>1, <1>2, <1>3 DEF OverlayParts

LEMMA OverlayCommits ==
  ASSUME WriteAssumption, TypeOK, OverlayParts, RowsKept, Commits, run' = None,
         UNCHANGED <<staged, infos>>
  PROVE  OverlayParts'
<1>1. CASE UNCHANGED overlay
  BY <1>1, OverlayQuiet
<1>2. ASSUME NEW c, Sane(c), Committable(c), overlay' = overlay \cup c.admitted
      PROVE  OverlayParts'
  <2>1. RunIsSane'
    BY DEF RunIsSane
  <2>2. OverlayIsStaged'
    BY <1>2 DEF OverlayParts, OverlayIsStaged, Sane, Committable
  <2>3. OverlayClosed'
    BY <1>2 DEF OverlayParts, OverlayClosed, Sane
  <2> QED BY <2>1, <2>2, <2>3 DEF OverlayParts
<1> QED BY <1>1, <1>2 DEF Commits

LEMMA OverlayStep ==
  ASSUME WriteAssumption, TypeOK, OverlayParts, RowsKept, [Next]_vars
  PROVE  OverlayParts'
<1>1. ASSUME NEW u \in Slots, Client(u) \/ Progress(u)
      PROVE  UNCHANGED <<overlay, run>>
  BY <1>1 DEF Client, Progress, BeginInfo, StageNar, ReadFails, RecordFails,
      OnStagedRefused, ReadInfo, InsertInfo, ReadBack, ReadBackFails,
      RecordInfo, RejectInfo, OnStaged, tables, memory
<1>2. OnCommitted \/ Starting \/ UNCHANGED vars => UNCHANGED <<overlay, run>>
  BY DEF OnCommitted, Starting, Activate, Activated, tables, memory, vars
<1>3. Crash \/ CrashInStageNar \/ OperatorRestarts
      => UNCHANGED overlay /\ run' = None
  BY DEF Crash, CrashInStageNar, OperatorRestarts, Down, tables
<1>4. CASE Recompute \/ LowerFails
  <2>1. RunIsSane
    BY DEF OverlayParts
  <2>2. PICK job \in Job, rest \in Seq(Job) :
           Waits(job, rest) \/ (Ends(job, rest) /\ Commits)
    BY <1>4, <2>1, RecomputeCases
  <2>3. UNCHANGED <<staged, infos>>
    BY <1>4, <2>1, RecomputeCases
  <2>4. CASE Waits(job, rest)
    <3>1. UNCHANGED overlay
      BY <2>4 DEF Waits
    <3>2. RunIsSane'
      BY <2>3, <2>4, <3>1 DEF RunIsSane, Waits, Sane
    <3>3. OverlayIsStaged' /\ OverlayClosed'
      BY <2>3, <3>1 DEF OverlayParts, OverlayIsStaged, OverlayClosed
    <3> QED BY <3>2, <3>3 DEF OverlayParts
  <2>5. CASE Ends(job, rest) /\ Commits
    BY <2>3, <2>5, OverlayCommits DEF Ends
  <2> QED BY <2>2, <2>4, <2>5
<1> QED BY <1>1, <1>2, <1>3, <1>4, OverlayQuiet DEF Next

LEMMA ResidentStep ==
  ASSUME WriteAssumption, TypeOK, ResidentStays, RowsKept
  PROVE  ResidentStays'
<1> SUFFICES ASSUME NEW n \in NARs, Resident[n] # None
             PROVE  staged'[<<"nar", n>>] = Resident[n]
  BY DEF ResidentStays
<1> QED BY NarRoute DEF ResidentStays, RowsKept, Immutable

-----------------------------------------------------------------------------
(* Every upload that waits is answered by its own recomputation. *)

WaitingStays == \A v \in Slots : At(v, "waiting") => put'[v] = put[v]

LEMMA AppendParts ==
  ASSUME NEW T, NEW s \in Seq(T), NEW j \in T, NEW t, t = Append(s, j)
  PROVE  /\ DOMAIN t = 1..(Len(s) + 1) /\ t[Len(s) + 1] = j
         /\ DOMAIN s = 1..Len(s) /\ Len(s) \in Nat
         /\ \A i \in DOMAIN s : i \in DOMAIN t /\ t[i] = s[i]
         /\ \A i \in DOMAIN t : i \in DOMAIN s \/ i = Len(s) + 1
OBVIOUS

LEMMA TailParts ==
  ASSUME NEW T, NEW s \in Seq(T), s # <<>>
  PROVE  /\ 1 \in DOMAIN s /\ Head(s) = s[1]
         /\ \A i \in DOMAIN Tail(s) :
               i + 1 \in DOMAIN s /\ i + 1 # 1 /\ Tail(s)[i] = s[i + 1] /\ i \in Nat
OBVIOUS

\* The queue keeps its jobs, or gets one that no upload waits for.
LEMMA JobsQuiet ==
  ASSUME TypeOK, JobsAreOwned, WaitingStays, run' = run,
         \/ queue' = queue
         \/ \E j \in Job : j.by # "put" /\ queue' = Append(queue, j)
  PROVE  JobsAreOwned'
<1>0. queue \in Seq(Job)
  BY DEF TypeOK
<1>1. \A i \in DOMAIN queue' :
         queue'[i].by = "put" => i \in DOMAIN queue /\ queue'[i] = queue[i]
  BY <1>0, AppendParts
<1>2. \A v \in Slots : At(v, "waiting") => At(v, "waiting")'
  BY DEF WaitingStays, At
<1> QED BY <1>1, <1>2 DEF JobsAreOwned

\* The upload u was not waiting and queues its own job.
LEMMA JobsOnStaged ==
  ASSUME WriteAssumption, TypeOK, JobsAreOwned, NEW u \in Slots, OnStaged(u)
  PROVE  JobsAreOwned'
<1> DEFINE j == [seed |-> put[u].route, by |-> "put", id |-> u]
<1>0. queue \in Seq(Job) /\ put[u] # None /\ put[u].pc = "recorded"
  BY DEF TypeOK, OnStaged, At
<1>1. j \in Job /\ j.by = "put" /\ j.id = u
  BY <1>0, UploadFields DEF Job
<1>2. queue' = Append(queue, j) /\ run' = run /\ Move(u, "waiting")
  BY DEF OnStaged, Enqueue
<1> HIDE DEF j
<1>3. /\ \A i \in DOMAIN queue : i \in DOMAIN queue' /\ queue'[i] = queue[i]
      /\ \A i \in DOMAIN queue' : i \in DOMAIN queue \/ i = Len(queue) + 1
      /\ queue'[Len(queue) + 1] = j
  BY <1>0, <1>1, <1>2, AppendParts
<1>4. /\ put'[u] # None /\ put'[u].pc = "waiting"
      /\ \A v \in Slots : v # u => put'[v] = put[v]
  BY <1>0, <1>2, MoveEffect
<1>5. ~At(u, "waiting")
  BY <1>0 DEF At
<1>6. At(u, "waiting")' /\ \A v \in Slots : At(v, "waiting") => At(v, "waiting")'
  BY <1>4, <1>5 DEF At
<1>7. \A i \in DOMAIN queue : queue[i].by = "put" =>
         /\ queue[i].id # u /\ queue[i].id \in Slots
         /\ put'[queue[i].id] # None /\ put'[queue[i].id].pc = "waiting"
  <2> TAKE i \in DOMAIN queue
  <2> HAVE queue[i].by = "put"
  <2>1. queue[i].id \in Slots /\ At(queue[i].id, "waiting")
    BY DEF JobsAreOwned
  <2>2. queue[i].id # u
    BY <1>5, <2>1
  <2> QED BY <1>4, <2>1, <2>2 DEF At
<1>8. run # None /\ run.job.by = "put" =>
         run.job.id # u /\ run.job.id \in Slots /\ At(run.job.id, "waiting")'
  BY <1>2, <1>5, <1>6 DEF JobsAreOwned
<1>9. ASSUME NEW i \in DOMAIN queue', queue'[i].by = "put"
      PROVE  /\ queue'[i].id \in Slots /\ At(queue[i].id, "waiting")'
             /\ \A k \in DOMAIN queue' :
                   queue'[k].by = "put" /\ k # i => queue'[k].id # queue'[i].id
             /\ run' # None /\ run'.job.by = "put" => run'.job.id # queue'[i].id
  <2>1. CASE i = Len(queue) + 1
    BY <1>1, <1>2, <1>3, <1>6, <1>7, <1>8, <2>1
  <2>2. CASE i \in DOMAIN queue
    <3>1. queue'[i] = queue[i]
      BY <1>3, <2>2
    <3>2. \A k \in DOMAIN queue' :
             queue'[k].by = "put" /\ k # i => queue'[k].id # queue'[i].id
      BY <1>1, <1>3, <1>7, <1>9, <2>2, <3>1 DEF JobsAreOwned
    <3> QED BY <1>2, <1>7, <1>9, <2>2, <3>1, <3>2 DEF JobsAreOwned, At
  <2> QED BY <1>3, <1>9, <2>1, <2>2
<1>10. run' # None /\ run'.job.by = "put" =>
          run'.job.id \in Slots /\ At(run.job.id, "waiting")'
  BY <1>2, <1>8
<1> QED BY <1>9, <1>10 DEF JobsAreOwned

\* The job at the head of the queue, or of the recomputation under way, and
\* those behind it.
LEMMA NextJobOwned ==
  ASSUME TypeOK, JobsAreOwned, NEW job, NEW rest, IsNextJob(job, rest)
  PROVE  /\ job.by = "put" => job.id \in Slots /\ At(job.id, "waiting")
         /\ \A i \in DOMAIN rest :
               rest[i].by = "put" =>
                  /\ rest[i].id \in Slots /\ At(rest[i].id, "waiting")
                  /\ \A k \in DOMAIN rest :
                        rest[k].by = "put" /\ k # i => rest[k].id # rest[i].id
                  /\ job.by = "put" => job.id # rest[i].id
<1>1. CASE run # None /\ job = run.job /\ rest = queue
  BY <1>1 DEF JobsAreOwned
<1>2. CASE queue # <<>> /\ job = Head(queue) /\ rest = Tail(queue)
  <2>0. queue \in Seq(Job)
    BY DEF TypeOK
  <2>1. /\ 1 \in DOMAIN queue /\ job = queue[1]
        /\ \A i \in DOMAIN rest :
              i + 1 \in DOMAIN queue /\ i + 1 # 1 /\ rest[i] = queue[i + 1] /\ i \in Nat
    BY <1>2, <2>0, TailParts
  <2>2. \A i, k \in DOMAIN rest : k # i => k + 1 # i + 1
    BY <2>1
  <2> QED BY <2>1, <2>2 DEF JobsAreOwned
<1> QED BY <1>1, <1>2 DEF IsNextJob

LEMMA JobsRecompute ==
  ASSUME WriteAssumption, TypeOK, RunIsSane, JobsAreOwned, Recompute \/ LowerFails
  PROVE  JobsAreOwned'
<1>1. PICK job \in Job, rest \in Seq(Job) :
         IsNextJob(job, rest) /\ (Waits(job, rest) \/ Ends(job, rest))
  BY RecomputeCases
<1>2. /\ job.by = "put" => job.id \in Slots /\ At(job.id, "waiting")
      /\ \A i \in DOMAIN rest :
            rest[i].by = "put" =>
               /\ rest[i].id \in Slots /\ At(rest[i].id, "waiting")
               /\ \A k \in DOMAIN rest :
                     rest[k].by = "put" /\ k # i => rest[k].id # rest[i].id
               /\ job.by = "put" => job.id # rest[i].id
  BY <1>1, NextJobOwned
<1>3. CASE Waits(job, rest)
  <2>1. run'.job = job /\ queue' = rest /\ put' = put
    BY <1>3 DEF Waits
  <2> QED BY <1>2, <2>1 DEF JobsAreOwned, At
<1>4. CASE Ends(job, rest) /\ queue' = <<>>
  BY <1>4 DEF JobsAreOwned, Ends
<1>5. CASE Ends(job, rest) /\ queue' = rest
  <2>1. /\ run' = None
        /\ (put' = put \/ (job.by = "put" /\ Respond(job.id)) \/ queue' = <<>>)
    BY <1>5 DEF Ends, Down
  <2>2. CASE queue' = <<>>
    BY <2>1, <2>2 DEF JobsAreOwned
  <2>3. CASE put' = put \/ (job.by = "put" /\ Respond(job.id))
    <3>1. \A v \in Slots : v # job.id \/ job.by # "put" => put'[v] = put[v]
      BY <2>3, RespondEffect
    <3>2. ASSUME NEW i \in DOMAIN rest, rest[i].by = "put"
          PROVE  put'[rest[i].id] = put[rest[i].id]
      BY <1>2, <3>1, <3>2
    <3> QED BY <1>2, <1>5, <2>1, <3>2 DEF JobsAreOwned, At
  <2> QED BY <2>1, <2>2, <2>3
<1> QED BY <1>1, <1>3, <1>4, <1>5 DEF Ends, Down

LEMMA JobsStep ==
  ASSUME WriteAssumption, TypeOK, RunIsSane, JobsAreOwned, ReservationsAreOwned,
         [Next]_vars
  PROVE  JobsAreOwned'
<1>1. ASSUME NEW u \in Slots, Client(u) \/ Progress(u), ~OnStaged(u)
      PROVE  JobsAreOwned'
  <2>1. ~At(u, "waiting") /\ \A v \in Slots : v # u => put'[v] = put[v]
    <3>1. CASE BeginInfo(u) \/ StageNar(u)
      <4>1. put[u] = None /\ \E r, b, pc : Begin(u, r, b, pc)
        BY <3>1 DEF BeginInfo, StageNar, Arrives
      <4> QED BY <4>1 DEF Begin, At, TypeOK
    <3>2. CASE ~(BeginInfo(u) \/ StageNar(u))
      <4>1. /\ At(u, "reading") \/ At(u, "linked") \/ At(u, "staged")
               \/ At(u, "read") \/ At(u, "recorded")
            /\ Respond(u) \/ (\E pc \in {"linked", "staged", "read", "recorded"} :
                                Move(u, pc))
        BY <1>1, <3>2 DEF Client, Progress, ReadFails, RecordFails, ReadInfo,
          OnStagedRefused, InsertInfo, ReadBack, ReadBackFails, RecordInfo,
          RejectInfo
      <4>2. put[u] # None /\ ~At(u, "waiting")
        BY <4>1 DEF At
      <4> QED BY <4>1, <4>2, RespondEffect, MoveEffect
    <3> QED BY <3>1, <3>2
  <2>2. WaitingStays
    BY <2>1 DEF WaitingStays
  <2>3. run' = run
    BY <1>1 DEF Client, Progress, BeginInfo, StageNar, ReadFails, RecordFails,
      OnStagedRefused, ReadInfo, InsertInfo, ReadBack, ReadBackFails,
      RecordInfo, RejectInfo, tables, memory
  <2>4. \/ queue' = queue
        \/ \E j \in Job : j.by # "put" /\ queue' = Append(queue, j)
    <3>1. CASE StageNar(u)
      <4>1. PICK n \in NARs : queue' = queue \/ Enqueue(Changed(<<"nar", n>>))
        BY <3>1 DEF StageNar
      <4> QED BY <4>1, NarRoute, ChangedType DEF Enqueue
    <3>2. CASE InsertInfo(u) \/ RecordInfo(u)
      <4>1. put[u] # None /\ (queue' = queue \/ Enqueue(Changed(put[u].route)))
        BY <3>2 DEF InsertInfo, RecordInfo, At
      <4> QED BY <4>1, UploadFields, ChangedType DEF Enqueue
    <3> QED BY <1>1, <3>1, <3>2 DEF Client, Progress, BeginInfo, ReadFails,
          RecordFails, OnStagedRefused, ReadInfo, ReadBack, ReadBackFails,
          RejectInfo, memory
  <2> QED BY <2>2, <2>3, <2>4, JobsQuiet
<1>2. CASE OnCommitted \/ Activated \/ UNCHANGED vars
  <2>1. UNCHANGED <<put, queue, run>>
    BY <1>2 DEF OnCommitted, Activated, memory, vars
  <2> QED BY <2>1, JobsQuiet DEF WaitingStays
<1>3. CASE Activate
  <2>1. run' = None
    BY <1>3 DEF Activate, ReservationsAreOwned
  <2>2. \A i \in DOMAIN queue' : queue'[i].by # "put"
    BY <1>3 DEF Activate
  <2> QED BY <2>1, <2>2 DEF JobsAreOwned
<1>4. CASE Crash \/ CrashInStageNar \/ OperatorRestarts
  <2>1. queue' = <<>> /\ run' = None
    BY <1>4 DEF Crash, CrashInStageNar, OperatorRestarts, Down
  <2> QED BY <2>1 DEF JobsAreOwned
<1> QED BY <1>1, <1>2, <1>3, <1>4, JobsOnStaged, JobsRecompute DEF Next, Starting

-----------------------------------------------------------------------------
(* Reservations and the quota. *)

\* A reservation whose upload did not move is owned still.
LEMMA ReservedOther ==
  ASSUME NEW v, put'[v] = put[v], At(v, "reading") \/ At(v, "linked")
  PROVE  (put'[v] # None /\ put'[v].pc = "reading")
         \/ (put'[v] # None /\ put'[v].pc = "linked")
BY DEF At

LEMMA ReservationsUpload ==
  ASSUME WriteAssumption, TypeOK, ReservationsAreOwned, NEW u \in Slots,
         Client(u) \/ Progress(u)
  PROVE  ReservationsAreOwned'
<1>1. status # "down" /\ status' = status
  <2>1. CASE BeginInfo(u) \/ StageNar(u)
    BY <2>1 DEF BeginInfo, StageNar, Arrives
  <2>2. CASE ~(BeginInfo(u) \/ StageNar(u))
    <3>1. put[u] # None
      BY <2>2 DEF Client, Progress, ReadFails, RecordFails, OnStagedRefused,
        ReadInfo, InsertInfo, ReadBack, ReadBackFails, RecordInfo, RejectInfo,
        OnStaged, At
    <3>2. status' = status
      BY <2>2 DEF Client, Progress, ReadFails, RecordFails, OnStagedRefused,
        ReadInfo, InsertInfo, ReadBack, ReadBackFails, RecordInfo, RejectInfo,
        OnStaged
    <3> QED BY <3>1, <3>2 DEF ReservationsAreOwned
  <2> QED BY <2>1, <2>2
<1>2. \A v \in reserved : v \in Slots /\ (At(v, "reading") \/ At(v, "linked"))
  BY <1>1 DEF ReservationsAreOwned, TypeOK
<1>3. SUFFICES ASSUME NEW v \in reserved'
               PROVE  \/ put'[v] # None /\ put'[v].pc = "reading"
                      \/ put'[v] # None /\ put'[v].pc = "linked"
  BY <1>1 DEF ReservationsAreOwned, At
<1>4. CASE BeginInfo(u)
  <2>1. PICK p \in Paths, b \in Texts : Begin(u, <<"info", p>>, b, "reading")
    BY <1>4 DEF BeginInfo
  <2>2. <<"info", p>> \in Routes /\ b \in Texts \cup NarBytes
    BY InfoRoute
  <2>3. /\ put'[u] # None /\ put'[u].pc = "reading"
        /\ \A w \in Slots : w # u => put'[w] = put[w]
    BY <2>1, <2>2, BeginEffect
  <2>4. v = u \/ v \in reserved
    BY <1>4 DEF BeginInfo
  <2> QED BY <1>2, <2>3, <2>4, ReservedOther
<1>5. CASE StageNar(u)
  <2>1. PICK n \in NARs, b \in NarBytes : Begin(u, <<"nar", n>>, b, "recorded")
    BY <1>5 DEF StageNar
  <2>2. /\ \A w \in Slots : w # u => put'[w] = put[w]
    BY <2>1 DEF Begin, TypeOK
  <2>3. put[u] = None /\ reserved' = reserved
    BY <1>5 DEF StageNar, Arrives
  <2> QED BY <1>2, <2>2, <2>3, ReservedOther DEF At
<1>6. CASE Respond(u) /\ reserved' \subseteq reserved /\ u \notin reserved'
  BY <1>2, <1>6, RespondEffect, ReservedOther
<1>7. CASE Move(u, "linked") /\ put[u] # None /\ reserved' = reserved
  BY <1>2, <1>7, MoveEffect, ReservedOther
<1>8. ASSUME NEW pc \in {"staged", "read", "recorded", "waiting"}, Move(u, pc),
             put[u] # None, reserved' \subseteq reserved, u \notin reserved'
      PROVE  \/ put'[v] # None /\ put'[v].pc = "reading"
             \/ put'[v] # None /\ put'[v].pc = "linked"
  BY <1>2, <1>8, MoveEffect, ReservedOther, ZenonT(40)
<1>9. ~(At(u, "reading") \/ At(u, "linked")) => u \notin reserved
  BY <1>2
<1>10. CASE ReadFails(u)
  BY <1>6, <1>10 DEF ReadFails
<1>11. CASE RecordFails(u) \/ OnStagedRefused(u) \/ ReadBackFails(u) \/ RejectInfo(u)
  <2>1. Respond(u) /\ reserved' = reserved /\ ~(At(u, "reading") \/ At(u, "linked"))
    BY <1>11 DEF RecordFails, OnStagedRefused, ReadBackFails, RejectInfo, At, tables
  <2> QED BY <1>6, <1>9, <2>1
<1>12. CASE ReadInfo(u)
  <2>1. \/ Move(u, "linked") /\ put[u] # None /\ reserved' = reserved
        \/ /\ Respond(u) \/ Move(u, "staged")
           /\ put[u] # None /\ reserved' = reserved \ {u}
    BY <1>12 DEF ReadInfo, At
  <2> QED BY <1>6, <1>7, <1>8, <2>1
<1>13. CASE InsertInfo(u)
  <2>1. /\ Respond(u) \/ Move(u, "staged")
        /\ put[u] # None /\ reserved' = reserved \ {u}
    BY <1>13 DEF InsertInfo, At
  <2> QED BY <1>6, <1>8, <2>1
<1>14. CASE ReadBack(u) \/ RecordInfo(u) \/ OnStaged(u)
  <2>1. /\ Move(u, "read") \/ Move(u, "recorded") \/ Move(u, "waiting")
        /\ put[u] # None /\ reserved' = reserved
        /\ ~(At(u, "reading") \/ At(u, "linked"))
    BY <1>14 DEF ReadBack, RecordInfo, OnStaged, At, tables
  <2> QED BY <1>8, <1>9, <2>1
<1> QED BY <1>4, <1>5, <1>10, <1>11, <1>12, <1>13, <1>14 DEF Client, Progress

LEMMA ReservationsStep ==
  ASSUME WriteAssumption, TypeOK, RunIsSane, JobsAreOwned, ReservationsAreOwned,
         [Next]_vars
  PROVE  ReservationsAreOwned'
<1>1. CASE Recompute \/ LowerFails
  <2>1. PICK job \in Job, rest \in Seq(Job) :
           IsNextJob(job, rest) /\ (Waits(job, rest) \/ Ends(job, rest))
    BY <1>1, RecomputeCases
  <2>2. reserved' = reserved
    BY <1>1, RecomputeCases
  <2>3. status # "down"
    BY <2>1 DEF IsNextJob, ReservationsAreOwned
  <2>4. \A v \in reserved : v \in Slots /\ (At(v, "reading") \/ At(v, "linked"))
    BY <2>3 DEF ReservationsAreOwned, TypeOK
  <2>5. CASE UNCHANGED <<status, put>>
    BY <2>2, <2>3, <2>5 DEF ReservationsAreOwned, At
  <2>6. CASE status' = "failed" /\ UNCHANGED put
    BY <2>2, <2>3, <2>6 DEF ReservationsAreOwned, At
  <2>7. CASE Down
    BY <2>7 DEF ReservationsAreOwned, Down
  <2>8. CASE job.by = "put" /\ Respond(job.id) /\ UNCHANGED status
    <3>1. At(job.id, "waiting")
      BY <2>1, <2>8, NextJobOwned
    <3>2. \A v \in reserved : v # job.id
      BY <2>4, <3>1 DEF At
    <3>3. \A v \in reserved : put'[v] = put[v]
      BY <2>4, <2>8, <3>2, RespondEffect
    <3> QED BY <2>2, <2>3, <2>4, <2>8, <3>3 DEF ReservationsAreOwned, At
  <2> QED BY <2>1, <2>5, <2>6, <2>7, <2>8 DEF Waits, Ends
<1>2. CASE OnCommitted \/ Activated \/ UNCHANGED vars
  <2>1. /\ UNCHANGED <<put, run, reserved>>
        /\ status' = status \/ (status # "down" /\ status' # "down")
    BY <1>2 DEF OnCommitted, Activated, memory, vars, tables
  <2> QED BY <2>1 DEF ReservationsAreOwned, At
<1>3. CASE Activate
  BY <1>3 DEF Activate, ReservationsAreOwned
<1>4. CASE Crash \/ CrashInStageNar \/ OperatorRestarts
  BY <1>4 DEF Crash, CrashInStageNar, OperatorRestarts, Down, ReservationsAreOwned
<1> QED BY <1>1, <1>2, <1>3, <1>4, ReservationsUpload DEF Next, Starting

LEMMA ImageFinite ==
  ASSUME NEW S, IsFiniteSet(S), NEW f, NEW T, T = {f[x] : x \in S}
  PROVE  IsFiniteSet(T)
<1> DEFINE g == [x \in S |-> f[x]]
<1>1. g \in Surjection(S, T)
  BY DEF Surjection
<1> QED BY <1>1, FS_Surjection

LEMMA RoutesFinite ==
  ASSUME WriteAssumption
  PROVE  IsFiniteSet(Routes) /\ IsFiniteSet({"nar"} \X NARs)
<1>1. IsFiniteSet({"info"}) /\ IsFiniteSet({"nar"})
  BY FS_Singleton
<1>2. IsFiniteSet({"info"} \X Paths) /\ IsFiniteSet({"nar"} \X NARs)
  BY <1>1, FS_Product DEF WriteAssumption
<1> QED BY <1>2, FS_Union DEF Routes

\* The sums of the quota are numbers, in every state of its type.
LEMMA QuotaParts ==
  ASSUME WriteAssumption
  PROVE  /\ IsFiniteSet(Digests) /\ Used \in Nat /\ Used = Cardinality(Digests)
         /\ IsFiniteSet(Late) /\ Cardinality(Late) \in Nat
<1>1. IsFiniteSet({staged[r] : r \in Routes})
  BY RoutesFinite, ImageFinite
<1>2. IsFiniteSet({staged[r] : r \in {"nar"} \X NARs})
  BY RoutesFinite, ImageFinite
<1>3. IsFiniteSet(Digests) /\ IsFiniteSet(Late)
  BY <1>1, <1>2, FS_Subset DEF Digests, Late
<1> QED BY <1>3, FS_CardinalityType DEF Used

LEMMA AllowedParts ==
  ASSUME WriteAssumption
  PROVE  /\ Allowed \in Nat /\ Aggregate <= Allowed
         /\ IsFiniteSet(Range(Resident) \ {None})
         /\ Cardinality(Range(Resident) \ {None}) \in Nat
         /\ Cardinality(Range(Resident) \ {None}) <= Allowed
<1>1. IsFiniteSet(Range(Resident))
  BY ImageFinite DEF Range, WriteAssumption
<1>2. IsFiniteSet(Range(Resident) \ {None})
  BY <1>1, FS_Subset
<1>3. Cardinality(Range(Resident) \ {None}) \in Nat /\ Aggregate \in Nat
  BY <1>2, FS_CardinalityType DEF WriteAssumption
<1> DEFINE k == Cardinality(Range(Resident) \ {None})
<1> HIDE DEF k
<1>4. \E x \in {Aggregate, k} : \A y \in {Aggregate, k} : x >= y
  BY <1>3 DEF k
<1>5. /\ Max({Aggregate, k}) \in {Aggregate, k}
      /\ \A y \in {Aggregate, k} : Max({Aggregate, k}) >= y
  BY <1>4 DEF Max
<1>6. Allowed = Max({Aggregate, k})
  BY DEF Allowed, k
<1>7. Allowed \in Nat /\ Aggregate <= Allowed /\ k <= Allowed
  BY <1>3, <1>5, <1>6 DEF k
<1> QED BY <1>2, <1>3, <1>7 DEF k

LEMMA ReservedParts ==
  ASSUME WriteAssumption, NEW S \in SUBSET Slots
  PROVE  /\ IsFiniteSet(S) /\ Cardinality(S) \in Nat
         /\ PerBody \in Nat /\ PerBody > 0 /\ PerBody * Cardinality(S) \in Nat
<1>1. IsFiniteSet(S)
  BY FS_Subset DEF WriteAssumption
<1>2. Cardinality(S) \in Nat /\ PerBody \in Nat /\ PerBody > 0
  BY <1>1, FS_CardinalityType DEF WriteAssumption
<1> QED BY <1>1, <1>2, NatTimes

\* Fewer reservations and no new digests.
LEMMA QuotaShrinks ==
  ASSUME WriteAssumption, TypeOK, TypeOK', QuotaIsKept,
         Digests' \subseteq Digests, Late' = Late, reserved' \subseteq reserved
  PROVE  QuotaIsKept'
<1> DEFINE a == Used
           b == PerBody * Cardinality(reserved)
           l == Cardinality(Late)
           c == Cardinality(Digests')
           d == PerBody * Cardinality(reserved')
<1>1. a \in Nat /\ l \in Nat /\ IsFiniteSet(Digests) /\ a = Cardinality(Digests)
  BY QuotaParts
<1>2. c \in Nat /\ c <= a
  <2>1. Digests' \in SUBSET Digests
    OBVIOUS
  <2> QED BY <1>1, <2>1, FS_Subset, FS_CardinalityType
<1>3. reserved \in SUBSET Slots /\ reserved' \in SUBSET Slots
  BY DEF TypeOK
<1>4. /\ IsFiniteSet(reserved) /\ b \in Nat /\ d \in Nat /\ PerBody \in Nat
      /\ Cardinality(reserved) \in Nat /\ Cardinality(reserved') \in Nat
  BY <1>3, ReservedParts
<1>5. Cardinality(reserved') <= Cardinality(reserved)
  BY <1>4, FS_Subset
<1>6. d <= b
  BY <1>4, <1>5, TimesMonotone
<1>7. Allowed \in Nat /\ a + b <= Allowed + l
  BY AllowedParts DEF QuotaIsKept, Reserved
<1> HIDE DEF a, b, l, c, d
<1>8. c + d <= Allowed + l
  BY <1>1, <1>2, <1>4, <1>6, <1>7
<1>9. Allowed' = Allowed
  BY DEF Allowed
<1> QED BY <1>8, <1>9 DEF a, b, l, c, d, QuotaIsKept, Used, Reserved

\* #reserve checked what is used and what is reserved.
LEMMA QuotaReserve ==
  ASSUME WriteAssumption, TypeOK, QuotaIsKept, NEW u \in Slots, BeginInfo(u)
  PROVE  QuotaIsKept'
<1> DEFINE a == Used
           n == Cardinality(reserved)
           m == Cardinality(reserved \cup {u})
           l == Cardinality(Late)
<1>1. a \in Nat /\ l \in Nat
  BY QuotaParts
<1>2. reserved \in SUBSET Slots /\ reserved \cup {u} \in SUBSET Slots
  BY DEF TypeOK
<1>3. /\ IsFiniteSet(reserved) /\ n \in Nat /\ m \in Nat /\ PerBody \in Nat
      /\ PerBody * n \in Nat /\ PerBody * m \in Nat
  BY <1>2, ReservedParts
<1>4. m <= n + 1
  <2>1. m = n \/ m = n + 1
    BY <1>3, FS_AddElement
  <2> HIDE DEF n, m
  <2> QED BY <1>3, <2>1
<1>5. /\ a + PerBody * n + PerBody <= Aggregate
      /\ reserved' = reserved \cup {u} /\ staged' = staged
  BY DEF BeginInfo, HasRoom, Reserved
<1>6. Allowed \in Nat /\ Aggregate \in Nat /\ Aggregate <= Allowed
  BY AllowedParts DEF WriteAssumption
<1> HIDE DEF a, n, m, l
<1>7. PerBody * m <= PerBody * n + PerBody
  BY <1>3, <1>4, NatTimes, TimesMonotone
<1>8. a + PerBody * m <= Allowed + l
  BY <1>1, <1>3, <1>5, <1>6, <1>7
<1>9. Digests' = Digests /\ Late' = Late /\ Allowed' = Allowed
  BY <1>5 DEF Digests, Late, Allowed
<1> QED BY <1>5, <1>8, <1>9 DEF a, m, l, QuotaIsKept, Used, Reserved

LEMMA InfoRowsOnly ==
  ASSUME TypeOK, NEW r \in Routes, IsInfo(r), NEW b,
         staged' = [staged EXCEPT ![r] = b]
  PROVE  Late' = Late /\ Digests' \subseteq Digests \cup ({b} \ {None})
<1>1. \A q \in {"nar"} \X NARs : q \in Routes /\ q # r
  BY DEF Routes, IsInfo
<1>2. \A q \in {"nar"} \X NARs : staged'[q] = staged[q]
  BY <1>1 DEF TypeOK
<1>3. {staged'[q] : q \in {"nar"} \X NARs} = {staged[q] : q \in {"nar"} \X NARs}
  BY <1>2
<1>4. \A q \in Routes : staged'[q] \in {staged[q], b}
  BY DEF TypeOK
<1> QED BY <1>3, <1>4 DEF Late, Digests

\* The new digest takes the place of the reservation.
LEMMA QuotaInsert ==
  ASSUME WriteAssumption, TypeOK, UploadsAreSound, QuotaIsKept, NEW u \in Slots,
         InsertInfo(u), staged' = [staged EXCEPT ![put[u].route] = put[u].body]
  PROVE  QuotaIsKept'
<1> DEFINE n == Cardinality(reserved)
           a == Used
           c == Cardinality(Digests')
           l == Cardinality(Late)
<1>0. put[u] # None /\ put[u].pc = "linked" /\ reserved' = reserved \ {u}
  BY DEF InsertInfo, At
<1>1. put[u].route \in Routes /\ IsInfo(put[u].route) /\ u \in reserved
  BY <1>0, UploadFields DEF UploadsAreSound, Sound
<1>2. Late' = Late /\ Digests' \subseteq Digests \cup {put[u].body}
  BY <1>1, InfoRowsOnly
<1>3. a \in Nat /\ l \in Nat /\ IsFiniteSet(Digests) /\ a = Cardinality(Digests)
  BY QuotaParts
<1>4. c \in Nat /\ c <= a + 1
  <2> DEFINE D == Digests \cup {put[u].body}
  <2>1. IsFiniteSet(D) /\ (Cardinality(D) = a \/ Cardinality(D) = a + 1)
    BY <1>3, FS_AddElement
  <2>2. Digests' \in SUBSET D
    BY <1>2
  <2> HIDE DEF D
  <2>3. IsFiniteSet(Digests') /\ c <= Cardinality(D)
    BY <2>1, <2>2, FS_Subset
  <2>4. c \in Nat
    BY <2>3, FS_CardinalityType
  <2> HIDE DEF a, c
  <2> QED BY <1>3, <2>1, <2>3, <2>4
<1>5. reserved \in SUBSET Slots
  BY DEF TypeOK
<1>6. IsFiniteSet(reserved) /\ PerBody \in Nat /\ PerBody > 0
  BY <1>5, ReservedParts
<1>7. n \in Nat /\ n > 0 /\ Cardinality(reserved') = n - 1
  BY <1>0, <1>1, <1>6, RemoveOne
<1>8. Allowed \in Nat /\ a + PerBody * n <= Allowed + l
  BY AllowedParts DEF QuotaIsKept, Reserved
<1> HIDE DEF a, n, c, l
<1>9. /\ n - 1 \in Nat /\ (n - 1) + 1 = n
      /\ PerBody * (n - 1) \in Nat /\ PerBody * n = PerBody * (n - 1) + PerBody
  <2>1. n - 1 \in Nat /\ (n - 1) + 1 = n
    BY <1>7
  <2>2. PerBody * (n - 1) \in Nat
        /\ PerBody * ((n - 1) + 1) = PerBody * (n - 1) + PerBody
    BY <1>6, <2>1, NatTimes
  <2> QED BY <2>1, <2>2
<1>10. c + PerBody * (n - 1) <= Allowed + l
  BY <1>3, <1>4, <1>6, <1>8, <1>9
<1>11. Allowed' = Allowed
  BY DEF Allowed
<1> QED BY <1>2, <1>7, <1>10, <1>11 DEF c, l, QuotaIsKept, Used, Reserved

\* A NAR of this process may go past the quota, by itself.
LEMMA QuotaNar ==
  ASSUME WriteAssumption, TypeOK, ResidentStays, QuotaIsKept,
         NEW n \in NARs, NEW b \in NarBytes, staged[<<"nar", n>>] = None,
         staged' = [staged EXCEPT ![<<"nar", n>>] = b], reserved' = reserved
  PROVE  QuotaIsKept'
<1> DEFINE a == Used
           e == PerBody * Cardinality(reserved)
           l == Cardinality(Late)
           c == Cardinality(Digests')
           k == Cardinality(Late')
<1>0. <<"nar", n>> \in Routes /\ <<"nar", n>> \in {"nar"} \X NARs /\ b # None
  BY NarRoute DEF WriteAssumption
<1>1. /\ staged'[<<"nar", n>>] = b
      /\ \A q \in Routes : q # <<"nar", n>> => staged'[q] = staged[q]
  BY <1>0 DEF TypeOK
<1>2. Digests' = Digests \cup {b}
  BY <1>0, <1>1 DEF Digests
<1>3. Late' = Late \cup ({b} \ Range(Resident))
  <2>1. \A q \in {"nar"} \X NARs : q \in Routes
    BY DEF Routes
  <2> QED BY <1>0, <1>1, <2>1 DEF Late
<1>4. /\ a \in Nat /\ l \in Nat /\ IsFiniteSet(Digests) /\ IsFiniteSet(Late)
      /\ a = Cardinality(Digests)
  BY QuotaParts
<1>5. b \in Range(Resident) \cup Late => b \in Digests
  <2>1. CASE b \in Late
    <3>1. Late \subseteq Digests
      BY DEF Late, Digests, Routes
    <3> QED BY <2>1, <3>1
  <2>2. CASE b \in Range(Resident)
    <3>1. PICK m \in NARs : Resident[m] = b
      BY <2>2 DEF Range, WriteAssumption
    <3>2. staged[<<"nar", m>>] = b /\ <<"nar", m>> \in Routes
      BY <1>0, <3>1, NarRoute DEF ResidentStays
    <3> QED BY <1>0, <3>2 DEF Digests
  <2> QED BY <2>1, <2>2
<1>6. c \in Nat /\ k \in Nat /\ c - a <= k - l
  <2>1. CASE b \in Digests
    <3>1. c = a
      BY <1>2, <1>4, <2>1, FS_AddElement
    <3>2. IsFiniteSet(Late') /\ l <= k
      <4>1. IsFiniteSet(Late \cup {b})
        BY <1>4, FS_AddElement
      <4>2. Late' \in SUBSET (Late \cup {b}) /\ Late \in SUBSET Late'
        BY <1>3
      <4>3. IsFiniteSet(Late')
        BY <4>1, <4>2, FS_Subset
      <4> QED BY <4>2, <4>3, FS_Subset
    <3>3. k \in Nat
      BY <3>2, FS_CardinalityType
    <3> HIDE DEF a, c, l, k
    <3> QED BY <1>4, <3>1, <3>2, <3>3
  <2>2. CASE b \notin Digests
    <3>1. c = a + 1
      BY <1>2, <1>4, <2>2, FS_AddElement
    <3>2. Late' = Late \cup {b} /\ b \notin Late
      BY <1>3, <1>5, <2>2
    <3>3. k = l + 1
      BY <1>4, <3>2, FS_AddElement
    <3> HIDE DEF a, c, l, k
    <3> QED BY <1>4, <3>1, <3>3
  <2> QED BY <2>1, <2>2
<1>7. reserved \in SUBSET Slots
  BY DEF TypeOK
<1>8. e \in Nat
  BY <1>7, ReservedParts
<1>9. Allowed \in Nat /\ a + e <= Allowed + l
  BY AllowedParts DEF QuotaIsKept, Reserved
<1> HIDE DEF a, c, e, l, k
<1>10. c + e <= Allowed + k
  BY <1>4, <1>6, <1>8, <1>9
<1>11. Allowed' = Allowed
  BY DEF Allowed
<1> QED BY <1>10, <1>11 DEF c, e, k, QuotaIsKept, Used, Reserved

LEMMA QuotaDiscard ==
  ASSUME WriteAssumption, TypeOK, TypeOK', QuotaIsKept, NEW r \in Routes,
         IsInfo(r), Discard(r), reserved' = reserved
  PROVE  QuotaIsKept'
<1>1. CASE staged' = staged
  <2>1. Digests' = Digests /\ Late' = Late
    BY <1>1 DEF Digests, Late
  <2> QED BY <2>1, QuotaShrinks
<1>2. CASE staged' = [staged EXCEPT ![r] = None]
  <2>1. Late' = Late /\ Digests' \subseteq Digests \cup ({None} \ {None})
    BY <1>2, InfoRowsOnly
  <2>2. Digests' \subseteq Digests
    BY <2>1
  <2> QED BY <2>1, <2>2, QuotaShrinks
<1> QED BY <1>1, <1>2 DEF Discard

LEMMA QuotaInit ==
  ASSUME WriteAssumption, Init
  PROVE  QuotaIsKept
<1>1. Digests \subseteq Range(Resident) \ {None}
  <2> SUFFICES ASSUME NEW r \in Routes, staged[r] # None
               PROVE  staged[r] \in Range(Resident)
    BY DEF Digests
  <2>1. ~IsInfo(r) /\ staged[r] = Resident[r[2]]
    BY DEF Init
  <2>2. r[2] \in NARs
    BY <2>1 DEF Routes, IsInfo
  <2> QED BY <2>1, <2>2 DEF Range, WriteAssumption
<1> DEFINE k == Cardinality(Range(Resident) \ {None})
           l == Cardinality(Late)
           a == Used
<1>2. /\ Allowed \in Nat /\ k \in Nat /\ k <= Allowed
      /\ IsFiniteSet(Range(Resident) \ {None})
  BY AllowedParts
<1>3. a \in Nat /\ l \in Nat /\ a = Cardinality(Digests)
  BY QuotaParts
<1>4. a <= k
  <2>1. Digests \in SUBSET (Range(Resident) \ {None})
    BY <1>1
  <2> QED BY <1>2, <1>3, <2>1, FS_Subset
<1>5. Reserved = 0
  <2>1. Cardinality(reserved) = 0
    BY FS_EmptySet DEF Init
  <2> QED BY <2>1 DEF Reserved, WriteAssumption
<1> HIDE DEF k, l, a
<1>6. a + 0 <= Allowed + l
  BY <1>2, <1>3, <1>4
<1> QED BY <1>5, <1>6 DEF a, l, QuotaIsKept

LEMMA QuotaStep ==
  ASSUME WriteAssumption, TypeOK, TypeOK', UploadsAreSound, RunIsSane,
         ResidentStays, QuotaIsKept, [Next]_vars
  PROVE  QuotaIsKept'
<1>0. ASSUME staged' = staged, reserved' \subseteq reserved
      PROVE  QuotaIsKept'
  <2>1. Digests' = Digests /\ Late' = Late
    BY <1>0 DEF Digests, Late
  <2> QED BY <1>0, <2>1, QuotaShrinks
<1>1. ASSUME NEW u \in Slots, Client(u) \/ Progress(u)
      PROVE  QuotaIsKept'
  <2>1. CASE BeginInfo(u)
    BY <2>1, QuotaReserve
  <2>2. CASE StageNar(u)
    <3>1. PICK n \in NARs, b \in NarBytes :
             /\ NarFits(n, b)
             /\ IF staged[<<"nar", n>>] # b
                THEN staged' = [staged EXCEPT ![<<"nar", n>>] = b]
                ELSE UNCHANGED staged
             /\ UNCHANGED reserved
      BY <2>2 DEF StageNar
    <3>2. CASE UNCHANGED staged
      BY <1>0, <3>1, <3>2
    <3>3. CASE staged' = [staged EXCEPT ![<<"nar", n>>] = b]
               /\ staged[<<"nar", n>>] # b
      <4>1. staged[<<"nar", n>>] = None
        BY <3>1, <3>3 DEF NarFits
      <4> QED BY <3>1, <3>3, <4>1, QuotaNar
    <3> QED BY <3>1, <3>2, <3>3
  <2>3. CASE RecordFails(u) \/ RejectInfo(u)
    <3>1. /\ put[u] # None /\ put[u].pc = "read" /\ Discard(put[u].route)
          /\ reserved' = reserved
      BY <2>3 DEF RecordFails, RejectInfo, At
    <3>2. put[u].route \in Routes /\ IsInfo(put[u].route)
      BY <3>1, UploadFields DEF UploadsAreSound, Sound
    <3> QED BY <3>1, <3>2, QuotaDiscard
  <2>4. CASE InsertInfo(u)
    <3>1. \/ staged' = [staged EXCEPT ![put[u].route] = put[u].body]
          \/ staged' = staged /\ reserved' \subseteq reserved
      BY <2>4 DEF InsertInfo
    <3> QED BY <1>0, <2>4, <3>1, QuotaInsert
  <2>5. CASE ReadFails(u) \/ OnStagedRefused(u) \/ ReadInfo(u) \/ ReadBack(u)
             \/ ReadBackFails(u) \/ RecordInfo(u) \/ OnStaged(u)
    <3>1. staged' = staged /\ reserved' \subseteq reserved
      BY <2>5 DEF ReadFails, OnStagedRefused, ReadInfo, ReadBack, ReadBackFails,
                  RecordInfo, OnStaged, tables
    <3> QED BY <1>0, <3>1
  <2> QED BY <1>1, <2>1, <2>2, <2>3, <2>4, <2>5 DEF Client, Progress
<1>2. CASE Recompute \/ LowerFails
  <2>1. UNCHANGED <<staged, reserved>>
    BY <1>2, RecomputeCases
  <2> QED BY <1>0, <2>1
<1>3. CASE OnCommitted \/ Starting \/ Crash \/ CrashInStageNar \/ OperatorRestarts
           \/ UNCHANGED vars
  <2>1. staged' = staged /\ reserved' \subseteq reserved
    BY <1>3 DEF OnCommitted, Starting, Activate, Activated, Crash,
                CrashInStageNar, OperatorRestarts, tables, vars
  <2> QED BY <1>0, <2>1
<1> QED BY <1>1, <1>2, <1>3 DEF Next

-----------------------------------------------------------------------------
(* Theorems. *)

LEMMA InvInit ==
  ASSUME WriteAssumption, Init
  PROVE  Inv
<1>1. ResidentStays
  <2> SUFFICES ASSUME NEW n \in NARs PROVE staged[<<"nar", n>>] = Resident[n]
    BY DEF ResidentStays
  <2> QED BY NarRoute DEF Init
<1>2. InfosAreStaged /\ OverlayIsStaged /\ RunIsSane /\ OverlayClosed
  BY DEF Init, InfosAreStaged, OverlayIsStaged, RunIsSane, OverlayClosed
<1>3. JobsAreOwned /\ ReservationsAreOwned
  BY DEF Init, JobsAreOwned, ReservationsAreOwned
<1> QED BY <1>1, <1>2, <1>3, UploadsInit, QuotaInit DEF Inv

LEMMA UploadsNext ==
  ASSUME WriteAssumption, TypeOK, UploadsAreSound, RunIsSane,
         ReservationsAreOwned, RowsKept, [Next]_vars
  PROVE  UploadsAreSound'
<1>1. CASE Recompute \/ LowerFails
  <2>1. PICK job \in Job, rest \in Seq(Job) : Waits(job, rest) \/ Ends(job, rest)
    BY <1>1, RecomputeCases
  <2>2. reserved' = reserved
    BY <1>1, RecomputeCases
  <2>3. \A v \in Slots : put'[v] \in {put[v], None}
    BY <2>1, RespondEffect DEF Waits, Ends, Down
  <2> QED BY <2>2, <2>3, UploadsQuiet
<1>2. CASE OnCommitted \/ Activated \/ Crash \/ CrashInStageNar
           \/ OperatorRestarts \/ UNCHANGED vars
  <2>1. /\ reserved' = reserved
        /\ \A v \in Slots : put'[v] \in {put[v], None}
    BY <1>2 DEF OnCommitted, Activated, Crash, CrashInStageNar,
                OperatorRestarts, Down, tables, vars
  <2> QED BY <2>1, UploadsQuiet
<1>3. CASE Activate
  <2>1. \A v \in Slots : put'[v] = None
    BY <1>3 DEF Activate, ReservationsAreOwned
  <2> QED BY <2>1 DEF UploadsAreSound
<1> QED BY <1>1, <1>2, <1>3, UploadsStep DEF Next, Starting

LEMMA InvNext ==
  ASSUME WriteAssumption, TypeOK, Inv, [Next]_vars
  PROVE  TypeOK' /\ Inv' /\ RowsKept
<1> USE DEF Inv
<1>1. RowsKept
  BY RowsStay
<1>2. TypeOK'
  BY TypeNext
<1>3. UploadsAreSound'
  BY <1>1, UploadsNext
<1>4. InfosAreStaged'
  BY <1>1, InfosStep
<1>5. RunIsSane' /\ OverlayIsStaged' /\ OverlayClosed'
  BY <1>1, OverlayStep DEF OverlayParts
<1>6. ResidentStays'
  BY <1>1, ResidentStep
<1>7. JobsAreOwned'
  BY JobsStep
<1>8. ReservationsAreOwned'
  BY ReservationsStep
<1>9. QuotaIsKept'
  BY <1>2, QuotaStep
<1> QED BY <1>1, <1>2, <1>3, <1>4, <1>5, <1>6, <1>7, <1>8, <1>9

\* The inductive invariant holds of every behaviour, with the types.
LEMMA Invariance == Spec => [](TypeOK /\ Inv)
<1>1. Init => TypeOK /\ Inv
  BY TypeInit, InvInit, WriteAssumption
<1>2. TypeOK /\ Inv /\ [Next]_vars => (TypeOK /\ Inv)'
  BY InvNext, WriteAssumption
<1> QED BY <1>1, <1>2, PTL DEF Spec

-----------------------------------------------------------------------------
(* What is complete becomes visible: the invariant.                        *)

\* The job is sure to look at q: it is about its narinfo or about its NAR.  A
\* rejection of an upload's own job is forgotten, so those do not count.
Covers(j, q) ==
    j.by # "put" /\ j.seed \in {<<"info", q>>, <<"nar", NarOf[q]>>}

Pending(s, q) == \E i \in DOMAIN s : Covers(s[i], q)

\* What a recomputation c knows, with the jobs s behind it: whatever refers to
\* a candidate is one, or was recorded since and has its own job; and a pass
\* that has admitted nothing so far passed over no path that fits, unless
\* something arrived since.
Thorough(c, s) ==
    /\ \A a \in c.candidates, r \in infos :
          a \in Refs[r] => r \in c.candidates \/ Pending(s, r)
    /\ ~c.progressed =>
          \A q \in c.candidates \cap Held :
             \/ q \in c.todo \cup overlay \cup c.admitted
             \/ ~Fits(q, overlay \cup c.admitted)
             \/ Pending(s, q)

RunIsThorough == run # None => Thorough(run, queue)

\* A path that could be admitted is in the hands of a job whose rejection
\* would end the process or fail its activation.
NoticedBy(job, candidates, rest) ==
    \A q \in Held \ overlay :
        Fits(q, overlay) =>
           Pending(rest, q) \/ (job.by # "put" /\ q \in candidates)

Noticed ==
    status \in {"starting", "active"} =>
       IF run = None
       THEN \A q \in Held \ overlay : Fits(q, overlay) => Pending(queue, q)
       ELSE NoticedBy(run.job, run.candidates, queue)

-----------------------------------------------------------------------------
(* Iterating a function on sets. *)

Iterates(f, F, S, N) == f = [n \in 0..N |-> IF n = 0 THEN S ELSE F[f[n - 1]]]

\* A recursion on numbers has a solution.
LEMMA IteratesExists ==
  ASSUME NEW U, NEW F \in [U -> U], NEW S \in U, NEW N \in Nat
  PROVE  \E f \in [0..N -> U] : Iterates(f, F, S, N)
<1> DEFINE Bad == {n \in 0..N : ~\E f \in [0..n -> U] : Iterates(f, F, S, n)}
<1>1. Bad = {}
  <2> SUFFICES ASSUME Bad # {} PROVE FALSE
    OBVIOUS
  <2>0. Bad \in SUBSET Nat
    OBVIOUS
  <2> HIDE DEF Bad
  <2>1. PICK n \in Bad : \A m \in Bad : n <= m
    BY <2>0, NatMin
  <2> USE DEF Bad
  <2>2. n \in 0..N
    OBVIOUS
  <2>3. CASE n = 0
    <3> DEFINE f == [m \in 0..0 |-> S]
    <3>1. f \in [0..0 -> U] /\ Iterates(f, F, S, 0)
      BY DEF Iterates
    <3> QED BY <2>1, <2>3, <3>1
  <2>4. CASE n # 0
    <3>1. n - 1 \in 0..N /\ n - 1 \notin Bad
      BY <2>1, <2>2, <2>4
    <3>2. PICK g \in [0..(n - 1) -> U] : Iterates(g, F, S, n - 1)
      BY <3>1
    <3> DEFINE f == [m \in 0..n |-> IF m = n THEN F[g[n - 1]] ELSE g[m]]
    <3>3. n - 1 \in 0..(n - 1) /\ g[n - 1] \in U
      BY <2>2, <2>4
    <3>4. f \in [0..n -> U]
      BY <2>2, <3>3
    <3>5. \A m \in 0..n : f[m] = IF m = 0 THEN S ELSE F[f[m - 1]]
      <4> TAKE m \in 0..n
      <4>1. CASE m = n
        <5>1. f[m] = F[g[n - 1]] /\ f[m - 1] = g[n - 1]
          BY <4>1, <2>2, <2>4
        <5> QED BY <4>1, <5>1, <2>4
      <4>2. CASE m # n
        <5>1. m \in 0..(n - 1) /\ f[m] = g[m]
          BY <4>2, <2>2
        <5>2. m # 0 => f[m - 1] = g[m - 1]
          BY <5>1, <2>2
        <5>3. g[m] = IF m = 0 THEN S ELSE F[g[m - 1]]
          BY <3>2, <5>1 DEF Iterates
        <5> HIDE DEF f
        <5> QED BY <5>1, <5>2, <5>3
      <4> QED BY <4>1, <4>2
    <3>6. Iterates(f, F, S, n)
      BY <3>5 DEF Iterates
    <3> QED BY <2>1, <3>4, <3>6
  <2> QED BY <2>3, <2>4
<1>2. N \in 0..N
  OBVIOUS
<1> QED BY <1>1, <1>2

\* What holds at the start and is kept by every step holds of all values.
LEMMA ValuesIn ==
  ASSUME NEW U, NEW N \in Nat, NEW f, f[0] \in U,
         \A n \in 1..N : f[n - 1] \in U => f[n] \in U
  PROVE  \A n \in 0..N : f[n] \in U
<1> DEFINE Bad == {n \in 0..N : f[n] \notin U}
<1>1. Bad = {}
  <2> SUFFICES ASSUME Bad # {} PROVE FALSE
    OBVIOUS
  <2>1. Bad \in SUBSET Nat
    OBVIOUS
  <2> HIDE DEF Bad
  <2>2. PICK n \in Bad : \A m \in Bad : n <= m
    BY <2>1, NatMin
  <2>3. n \in 0..N /\ f[n] \notin U
    BY DEF Bad
  <2>4. n \in 1..N /\ n - 1 \in 0..N /\ n - 1 \notin Bad
    BY <2>2, <2>3
  <2>5. f[n - 1] \in U
    BY <2>4 DEF Bad
  <2> QED BY <2>3, <2>4, <2>5
<1> QED BY <1>1

\* Among the subsets of a finite set a growing function is iterated into a
\* fixed point: until then every step adds an element.
LEMMA IteratesCloses ==
  ASSUME NEW P, IsFiniteSet(P), NEW F \in [SUBSET P -> SUBSET P],
         \A X \in SUBSET P : X \subseteq F[X],
         NEW S \in SUBSET P, S # {},
         NEW f, Iterates(f, F, S, Cardinality(P))
  PROVE  /\ f[Cardinality(P)] \in SUBSET P /\ S \subseteq f[Cardinality(P)]
         /\ F[f[Cardinality(P)]] = f[Cardinality(P)]
<1> DEFINE N == Cardinality(P)
           Good(n) == /\ f[n] \in SUBSET P /\ S \subseteq f[n]
                      /\ F[f[n]] = f[n] \/ Cardinality(f[n]) > n
           Bad == {n \in 0..N : ~Good(n)}
<1>0. N \in Nat
  BY FS_CardinalityType
<1>a. \A n \in 0..N : f[n] = IF n = 0 THEN S ELSE F[f[n - 1]]
  BY DEF Iterates
<1> HIDE DEF N
<1>b. \A X \in SUBSET P : IsFiniteSet(X) /\ Cardinality(X) \in Nat
  BY FS_Subset, FS_CardinalityType
<1>1. Good(0)
  <2>1. f[0] = S
    BY <1>0, <1>a
  <2>2. Cardinality(S) # 0
    BY <1>b, FS_EmptySet
  <2> QED BY <2>1, <2>2, <1>b
<1>2. ASSUME NEW n \in 1..N, Good(n - 1) PROVE Good(n)
  <2> DEFINE X == f[n - 1]
  <2>1. f[n] = F[X]
    BY <1>0, <1>a
  <2>2. X \in SUBSET P /\ S \subseteq X /\ (F[X] = X \/ Cardinality(X) > n - 1)
    BY <1>2
  <2> HIDE DEF X
  <2>3. CASE F[X] = X
    BY <2>1, <2>2, <2>3
  <2>4. CASE F[X] # X /\ Cardinality(X) > n - 1
    <3>1. F[X] \in SUBSET P /\ X \subseteq F[X]
      BY <2>2
    <3>2. Cardinality(X) <= Cardinality(F[X]) /\ Cardinality(F[X]) # Cardinality(X)
      <4>1. IsFiniteSet(F[X]) /\ X \in SUBSET F[X]
        BY <3>1, <1>b
      <4> QED BY <4>1, FS_Subset, <2>4
    <3>3. Cardinality(X) \in Nat /\ Cardinality(F[X]) \in Nat
      BY <1>b, <2>2, <3>1
    <3>4. Cardinality(F[X]) > n
      BY <2>4, <3>2, <3>3
    <3> QED BY <2>1, <2>2, <3>1, <3>4
  <2> QED BY <2>2, <2>3, <2>4
<1>3. Bad = {}
  <2> SUFFICES ASSUME Bad # {} PROVE FALSE
    OBVIOUS
  <2>1. Bad \in SUBSET Nat
    BY <1>0
  <2> HIDE DEF Bad, Good
  <2>2. PICK n \in Bad : \A m \in Bad : n <= m
    BY <2>1, NatMin
  <2>3. n \in 0..N /\ ~Good(n)
    BY DEF Bad
  <2>4. n # 0
    BY <1>1, <2>3
  <2>5. n \in 1..N /\ n - 1 \in 0..N /\ n - 1 \notin Bad
    BY <1>0, <2>2, <2>3, <2>4
  <2>6. Good(n - 1)
    BY <2>5 DEF Bad
  <2> QED BY <1>2, <2>3, <2>5, <2>6
<1>4. Good(N)
  BY <1>0, <1>3
<1>5. ASSUME Cardinality(f[N]) > N PROVE FALSE
  <2>1. Cardinality(f[N]) <= N
    BY <1>4, FS_Subset DEF N
  <2> QED BY <1>0, <1>4, <1>5, <1>b, <2>1
<1>6. f[N] \in SUBSET P /\ S \subseteq f[N] /\ F[f[N]] = f[N]
  BY <1>4, <1>5
<1> QED BY <1>6 DEF N
-----------------------------------------------------------------------------
(* affectedCandidates returns all that refers to its seed. *)

Referring(X) == X \cup {p \in infos : Refs[p] \cap X # {}}

\* f is the recursive function of AffectedBy.
Reaches(f, seed) ==
    f = [n \in 0..Cardinality(Paths) |->
            IF n = 0 THEN {seed}
            ELSE f[n - 1] \cup {p \in infos : Refs[p] \cap f[n - 1] # {}}]

LEMMA AffectedUnfold ==
  ASSUME NEW seed
  PROVE  AffectedBy(seed) =
            infos \cap (CHOOSE f : Reaches(f, seed))[Cardinality(Paths)]
BY DEF AffectedBy, Reaches

LEMMA AffectedCloses ==
  ASSUME WriteAssumption, TypeOK, NEW seed \in Paths
  PROVE  /\ AffectedBy(seed) \subseteq infos
         /\ seed \in infos => seed \in AffectedBy(seed)
         /\ \A a \in AffectedBy(seed), r \in infos :
               a \in Refs[r] => r \in AffectedBy(seed)
<1> DEFINE N == Cardinality(Paths)
           F == [X \in SUBSET Paths |-> Referring(X)]
           f == CHOOSE f : Reaches(f, seed)
<1>1. IsFiniteSet(Paths) /\ N \in Nat /\ infos \subseteq Paths
  BY FS_CardinalityType DEF WriteAssumption, TypeOK
<1>2. \A X \in SUBSET Paths : Referring(X) \in SUBSET Paths /\ X \subseteq Referring(X)
  BY <1>1 DEF Referring
<1>3. F \in [SUBSET Paths -> SUBSET Paths]
  BY <1>2
<1>4. {seed} \in SUBSET Paths /\ {seed} # {}
  OBVIOUS
<1>5. AffectedBy(seed) = infos \cap f[N]
  BY AffectedUnfold
<1>6. Reaches(f, seed)
  <2>1. PICK g \in [0..N -> SUBSET Paths] : Iterates(g, F, {seed}, N)
    BY <1>1, <1>3, <1>4, IteratesExists
  <2>2. \A n \in 0..N : n # 0 => F[g[n - 1]] = Referring(g[n - 1])
    BY <1>1, <2>1
  <2>3. g = [n \in 0..N |-> IF n = 0 THEN {seed} ELSE F[g[n - 1]]]
    BY <2>1 DEF Iterates
  <2> HIDE DEF F, N
  <2>4. g = [n \in 0..N |-> IF n = 0 THEN {seed} ELSE Referring(g[n - 1])]
    BY <2>2, <2>3
  <2>5. Reaches(g, seed)
    BY <2>4 DEF Reaches, Referring, N
  <2> QED BY <2>5
<1> HIDE DEF f, N
<1>7. f = [n \in 0..N |-> IF n = 0 THEN {seed} ELSE Referring(f[n - 1])]
  BY <1>6 DEF Reaches, Referring, N
<1>8. \A n \in 0..N : f[n] \in SUBSET Paths
  <2>1. f[0] \in SUBSET Paths
    BY <1>1, <1>4, <1>7
  <2>2. \A n \in 0..N : f[n] = IF n = 0 THEN {seed} ELSE Referring(f[n - 1])
    BY <1>7, Zenon
  <2>3. \A n \in 1..N : n \in 0..N /\ n # 0
    BY <1>1
  <2>4. ASSUME NEW n \in 1..N, f[n - 1] \in SUBSET Paths
        PROVE  f[n] \in SUBSET Paths
    <3>1. f[n] = Referring(f[n - 1])
      BY <2>2, <2>3, Zenon
    <3>2. Referring(f[n - 1]) \in SUBSET Paths
      BY <1>2, <2>4
    <3> QED BY <3>1, <3>2
  <2> QED BY <1>1, <2>1, <2>4, ValuesIn, Zenon
<1>9. Iterates(f, F, {seed}, N)
  <2>1. \A n \in 0..N : n # 0 => F[f[n - 1]] = Referring(f[n - 1])
    BY <1>1, <1>8
  <2> HIDE DEF F
  <2> QED BY <1>7, <2>1 DEF Iterates
<1>10. f[N] \in SUBSET Paths /\ {seed} \subseteq f[N] /\ F[f[N]] = f[N]
  <2>1. \A X \in SUBSET Paths : X \subseteq F[X]
    BY <1>2
  <2> HIDE DEF F
  <2> DEFINE S == {seed}
  <2>2. Iterates(f, F, S, Cardinality(Paths)) /\ S \in SUBSET Paths /\ S # {}
    BY <1>4, <1>9 DEF N
  <2> HIDE DEF S
  <2>3. /\ f[Cardinality(Paths)] \in SUBSET Paths
        /\ S \subseteq f[Cardinality(Paths)]
        /\ F[f[Cardinality(Paths)]] = f[Cardinality(Paths)]
    BY <1>1, <1>3, <2>1, <2>2, IteratesCloses
  <2> QED BY <2>3 DEF N, S
<1>11. Referring(f[N]) = f[N]
  BY <1>10
<1>12. ASSUME NEW a \in f[N], NEW r \in infos, a \in Refs[r] PROVE r \in f[N]
  BY <1>11, <1>12 DEF Referring
<1> QED BY <1>5, <1>10, <1>12

-----------------------------------------------------------------------------
(* At rest, a path that is complete but not visible leads to one that fits. *)

\* f is the recursive function of Complete.
Completes(f) ==
    f = [n \in 0..Cardinality(Paths) |->
            IF n = 0 THEN overlay
            ELSE f[n - 1] \cup {q \in Held : Fits(q, f[n - 1])}]

LEMMA CompleteUnfold ==
  ASSUME NEW p
  PROVE  Complete(p) <=>
            p \in Held \cap (CHOOSE f : Completes(f))[Cardinality(Paths)]
BY DEF Complete, Completes

LEMMA NothingLeft ==
  ASSUME WriteAssumption, TypeOK,
         \A q \in Held \ overlay : ~Fits(q, overlay),
         NEW p, Complete(p)
  PROVE  p \in overlay
<1> DEFINE N == Cardinality(Paths)
           More(X) == X \cup {q \in Held : Fits(q, X)}
           F == [X \in SUBSET Paths |-> More(X)]
           f == CHOOSE f : Completes(f)
<1>1. N \in Nat /\ overlay \in SUBSET Paths /\ Held \subseteq Paths
  BY FS_CardinalityType DEF WriteAssumption, TypeOK, Held
<1>2. F \in [SUBSET Paths -> SUBSET Paths]
  BY <1>1
<1>3. p \in f[N]
  BY CompleteUnfold
<1>4. Completes(f)
  <2>1. PICK g \in [0..N -> SUBSET Paths] : Iterates(g, F, overlay, N)
    <3> HIDE DEF F, N
    <3> QED BY <1>1, <1>2, IteratesExists
  <2>2. \A n \in 0..N : n # 0 => F[g[n - 1]] = More(g[n - 1])
    <3> HIDE DEF More, N
    <3>1. \A X \in SUBSET Paths : F[X] = More(X)
      OBVIOUS
    <3> HIDE DEF F
    <3>2. \A n \in 0..N : n # 0 => g[n - 1] \in SUBSET Paths
      BY <1>1, <2>1
    <3> QED BY <3>1, <3>2
  <2>3. g = [n \in 0..N |-> IF n = 0 THEN overlay ELSE F[g[n - 1]]]
    BY <2>1 DEF Iterates
  <2> HIDE DEF F, N, More
  <2>4. g = [n \in 0..N |-> IF n = 0 THEN overlay ELSE More(g[n - 1])]
    BY <2>2, <2>3
  <2>5. Completes(g)
    BY <2>4 DEF Completes, More, N
  <2> QED BY <2>5
<1> HIDE DEF f, N
<1>5. \A n \in 0..N : f[n] \in {overlay}
  <2>1. More(overlay) = overlay
    OBVIOUS
  <2>2. f = [n \in 0..N |-> IF n = 0 THEN overlay ELSE More(f[n - 1])]
    BY <1>4 DEF Completes, N
  <2> HIDE DEF More
  <2>3. \A n \in 0..N : f[n] = IF n = 0 THEN overlay ELSE More(f[n - 1])
    BY <2>2, Zenon
  <2>4. 0 \in 0..N /\ \A n \in 1..N : n \in 0..N /\ n # 0
    BY <1>1
  <2>5. f[0] \in {overlay}
    BY <2>3, <2>4
  <2>6. \A n \in 1..N : f[n - 1] \in {overlay} => f[n] \in {overlay}
    BY <2>1, <2>3, <2>4, Zenon
  <2> DEFINE U == {overlay}
  <2> HIDE DEF U
  <2>7. f[0] \in U /\ \A n \in 1..N : f[n - 1] \in U => f[n] \in U
    BY <2>5, <2>6, Zenon DEF U
  <2>8. \A n \in 0..N : f[n] \in U
    BY <1>1, <2>7, ValuesIn
  <2> QED BY <2>8 DEF U
<1> QED BY <1>1, <1>3, <1>5

-----------------------------------------------------------------------------
(* Recomputations: a pass overlooks nothing. *)

\* The recomputation c is thorough, and its candidates are among K.
Careful(c, s, K) == Sane(c) /\ Thorough(c, s) /\ c.candidates \in K

\* Passing over a path that cannot be admitted as things stand.
LEMMA PassedIsThorough ==
  ASSUME WriteAssumption, NEW c, NEW s, Sane(c), Thorough(c, s),
         NEW p \in c.todo,
         \/ p \in overlay \cup c.admitted
         \/ staged[<<"nar", NarOf[p]>>] = None
         \/ ~Fits(p, overlay \cup c.admitted)
  PROVE  Thorough(Passed(c, p), s) /\ Passed(c, p).candidates = c.candidates
<1> DEFINE d == Passed(c, p)
<1>1. /\ d.candidates = c.candidates /\ d.todo = c.todo \ {p}
      /\ d.admitted = c.admitted /\ d.progressed = c.progressed
  BY DEF Passed, Onward
<1>2. p \in Held => staged[<<"nar", NarOf[p]>>] # None
  BY DEF Held
<1> HIDE DEF d
<1>3. Thorough(d, s)
  BY <1>1, <1>2 DEF Thorough
<1> QED BY <1>1, <1>3 DEF d

LEMMA AdmitIsThorough ==
  ASSUME NEW c, NEW s, Thorough(c, s), NEW p
  PROVE  Thorough(Admit(c, p), s) /\ Admit(c, p).candidates = c.candidates
<1> DEFINE d == Admit(c, p)
<1>1. d.candidates = c.candidates /\ d.progressed
  BY DEF Admit, Onward
<1> HIDE DEF d
<1>2. Thorough(d, s)
  BY <1>1 DEF Thorough
<1> QED BY <1>1, <1>2 DEF d

LEMMA AskIsThorough ==
  ASSUME NEW c, NEW s, Thorough(c, s), NEW p
  PROVE  Thorough(Ask(c, p), s) /\ Ask(c, p).candidates = c.candidates
<1> DEFINE d == Ask(c, p)
<1>1. /\ d.candidates = c.candidates /\ d.todo = c.todo
      /\ d.admitted = c.admitted /\ d.progressed = c.progressed
  BY DEF Ask, Onward
<1> HIDE DEF d
<1>2. Thorough(d, s)
  BY <1>1 DEF Thorough
<1> QED BY <1>1, <1>2 DEF d

LEMMA NextPassIsThorough ==
  ASSUME NEW c, NEW s, Thorough(c, s)
  PROVE  Thorough(NextPass(c), s) /\ NextPass(c).candidates = c.candidates
<1> DEFINE d == NextPass(c)
<1>1. d.candidates = c.candidates /\ d.todo = c.candidates
  BY DEF NextPass, Onward
<1> HIDE DEF d
<1>2. Thorough(d, s)
  BY <1>1 DEF Thorough
<1> QED BY <1>1, <1>2 DEF d

LEMMA StepIsCareful ==
  ASSUME WriteAssumption, NEW c, NEW s, NEW K, Careful(c, s, K)
  PROVE  Careful(Step(c), s, K)
<1>0. Sane(c) /\ Thorough(c, s) /\ c.candidates \in K
  BY DEF Careful
<1>1. Sane(Step(c))
  BY <1>0, StepIsSane
<1>2. CASE Step(c) = c
  BY <1>2
<1>3. CASE Step(c) = NextPass(c)
  BY <1>0, <1>1, <1>3, NextPassIsThorough DEF Careful
<1>4. CASE \E p \in c.todo :
               \/ /\ \/ p \in overlay \cup c.admitted
                     \/ staged[<<"nar", NarOf[p]>>] = None
                  /\ Step(c) = Passed(c, p)
               \/ Step(c) = Ask(c, p) \/ Step(c) = Admit(c, p)
  <2>1. PICK p \in c.todo :
               \/ /\ \/ p \in overlay \cup c.admitted
                     \/ staged[<<"nar", NarOf[p]>>] = None
                  /\ Step(c) = Passed(c, p)
               \/ Step(c) = Ask(c, p) \/ Step(c) = Admit(c, p)
    BY <1>4
  <2>2. CASE Step(c) = Ask(c, p)
    BY <1>0, <1>1, <2>2, AskIsThorough DEF Careful
  <2>3. CASE Step(c) = Admit(c, p)
    BY <1>0, <1>1, <2>3, AdmitIsThorough DEF Careful
  <2>4. CASE /\ \/ p \in overlay \cup c.admitted
                \/ staged[<<"nar", NarOf[p]>>] = None
             /\ Step(c) = Passed(c, p)
    <3>1. Thorough(Passed(c, p), s) /\ Passed(c, p).candidates = c.candidates
      BY <1>0, <2>4, PassedIsThorough
    <3> QED BY <1>0, <1>1, <2>4, <3>1 DEF Careful
  <2> QED BY <2>1, <2>2, <2>3, <2>4
<1> QED BY <1>0, <1>2, <1>3, <1>4, StepCases

\* What is careful stays so up to the next await or to the end.
LEMMA ToAwaitIsCareful ==
  ASSUME WriteAssumption, NEW C, NEW s, NEW K, \A c \in C : Careful(c, s, K)
  PROVE  \A c \in ToAwait(C) : Careful(c, s, K)
<1> DEFINE B == Size * Size
           f == CHOOSE f : Advances(f, C, B)
<1>1. B \in Nat
  <2>1. Cardinality(Paths) \in Nat
    BY FS_CardinalityType DEF WriteAssumption
  <2>2. Size \in Nat
    BY <2>1 DEF Size
  <2> QED BY <2>2, NatTimes
<1>2. ToAwait(C) = f[B]
  BY ToAwaitUnfold
<1>3. Advances(f, C, B)
  BY <1>1, AdvancesExists
<1> HIDE DEF f, B
<1>4. \A n \in 0..B : f[n] = IF n = 0 THEN C ELSE {Step(c) : c \in f[n - 1]}
  BY <1>3 DEF Advances
<1>5. /\ 0 \in 0..B /\ B \in 0..B
      /\ \A n \in 1..B : n \in 0..B /\ n # 0 /\ n - 1 \in 0..B
  BY <1>1
<1> DEFINE All == UNION {f[n] : n \in 0..B}
           U == SUBSET {c \in All : Careful(c, s, K)}
<1>6. f[0] \in U
  <2>1. f[0] = C
    BY <1>4, <1>5
  <2> QED BY <1>5, <2>1
<1>7. ASSUME NEW n \in 1..B, f[n - 1] \in U PROVE f[n] \in U
  <2>1. f[n] = {Step(c) : c \in f[n - 1]}
    BY <1>4, <1>5
  <2>2. \A c \in f[n - 1] : Careful(Step(c), s, K)
    BY <1>7, StepIsCareful
  <2>3. \A d \in f[n] : d \in All /\ Careful(d, s, K)
    BY <1>5, <2>1, <2>2
  <2> QED BY <2>3
<1> HIDE DEF All, U
<1>8. f[B] \in U
  BY <1>1, <1>5, <1>6, <1>7, ValuesIn
<1> QED BY <1>2, <1>8 DEF U

-----------------------------------------------------------------------------
(* Uploads: whatever an upload brings is queued with it. *)

\* Recomputations stand still; a path that is newly recorded or newly held has
\* its job.
Announced ==
    /\ UNCHANGED <<overlay, run>>
    /\ status' = status \/ (status = "starting" /\ status' = "active")
    /\ \A q \in Paths : Pending(queue, q) => Pending(queue', q)
    /\ \A q \in infos' \ infos : Pending(queue', q)
    /\ \A q \in Held' \ Held : Pending(queue', q)

LEMMA AnnouncedKeeps ==
  ASSUME WriteAssumption, TypeOK, TypeOK', Announced, RunIsThorough, Noticed
  PROVE  RunIsThorough' /\ Noticed'
<1>1. Held \subseteq Paths /\ Held' \subseteq Paths /\ infos \subseteq Paths
  BY DEF TypeOK, Held
<1>2. \A q, S : Fits(q, S)' <=> Fits(q, S')
  BY DEF Fits
<1>3. RunIsThorough'
  <2> SUFFICES ASSUME run # None PROVE Thorough(run, queue)'
    BY DEF RunIsThorough, Announced
  <2>1. ASSUME NEW a \in run.candidates, NEW r \in infos', a \in Refs[r]
        PROVE  r \in run.candidates \/ Pending(queue', r)
    BY <1>1, <2>1 DEF RunIsThorough, Thorough, Announced
  <2>2. ASSUME ~run.progressed, NEW q \in run.candidates \cap Held'
        PROVE  \/ q \in run.todo \cup overlay \cup run.admitted
               \/ ~Fits(q, overlay \cup run.admitted)
               \/ Pending(queue', q)
    BY <1>1, <2>2 DEF RunIsThorough, Thorough, Announced
  <2> QED BY <2>1, <2>2 DEF Thorough, Announced, Pending, Fits
<1>4. Noticed'
  <2> SUFFICES ASSUME status' \in {"starting", "active"},
                      NEW q \in Held' \ overlay, Fits(q, overlay)
               PROVE  \/ Pending(queue', q)
                      \/ run # None /\ run.job.by # "put" /\ q \in run.candidates
    BY DEF Noticed, NoticedBy, Announced, Pending, Fits
  <2>1. status \in {"starting", "active"}
    BY DEF Announced
  <2>2. CASE q \in Held
    BY <1>1, <2>1, <2>2 DEF Noticed, NoticedBy, Announced
  <2>3. CASE q \notin Held
    BY <2>3 DEF Announced
  <2> QED BY <2>2, <2>3
<1> QED BY <1>3, <1>4

LEMMA PendingAppend ==
  ASSUME queue \in Seq(Job), NEW j \in Job, Enqueue(j)
  PROVE  /\ \A q : Pending(queue, q) => Pending(queue', q)
         /\ \A q : Covers(j, q) => Pending(queue', q)
<1>1. /\ \A i \in DOMAIN queue : i \in DOMAIN queue' /\ queue'[i] = queue[i]
      /\ Len(queue) + 1 \in DOMAIN queue' /\ queue'[Len(queue) + 1] = j
  BY DEF Enqueue
<1> QED BY <1>1 DEF Pending

\* Discarding rows, or rows as they were, hold nothing new.
LEMMA HeldShrinks ==
  ASSUME TypeOK, UNCHANGED infos,
         \A r \in Routes : staged'[r] # None => staged[r] # None
  PROVE  Held' \subseteq Held
<1>1. \A q \in infos : <<"info", q>> \in Routes /\ <<"nar", NarOf[q]>> \in Routes
  BY WriteAssumption DEF TypeOK, WriteAssumption, Routes
<1> QED BY <1>1 DEF Held

LEMMA HeldOne ==
  ASSUME TypeOK, infos \subseteq infos', NEW r0 \in Routes,
         \A r \in Routes \ {r0} : staged'[r] # None => staged[r] # None,
         NEW q \in Held' \ Held, q \in infos
  PROVE  r0 = <<"info", q>> \/ r0 = <<"nar", NarOf[q]>>
<1>1. <<"info", q>> \in Routes /\ <<"nar", NarOf[q]>> \in Routes
  BY WriteAssumption DEF TypeOK, WriteAssumption, Routes
<1>2. \A r \in infos : NarOf[r] = NarOf[q] => r = q
  BY DEF Held
<1> QED BY <1>1, <1>2 DEF Held

\* The three ways in which an upload, or a step beside the recomputations,
\* changes what is held.
LEMMA QuietAnnounces ==
  ASSUME WriteAssumption, TypeOK, UNCHANGED <<overlay, run, queue, infos>>,
         status' = status \/ (status = "starting" /\ status' = "active"),
         \A r \in Routes : staged'[r] # None => staged[r] # None
  PROVE  Announced
<1>1. Held' \subseteq Held
  BY HeldShrinks
<1> QED BY <1>1 DEF Announced

LEMMA RowAnnounces ==
  ASSUME WriteAssumption, TypeOK, UNCHANGED <<overlay, run, infos, status>>,
         NEW r0 \in Routes, Enqueue(Changed(r0)),
         \A r \in Routes \ {r0} : staged'[r] # None => staged[r] # None
  PROVE  Announced
<1>1. Changed(r0) \in Job /\ queue \in Seq(Job)
  BY ChangedType DEF TypeOK
<1>2. \A q : Pending(queue, q) => Pending(queue', q)
  BY <1>1, PendingAppend
<1>3. ASSUME NEW q \in Held' \ Held PROVE Pending(queue', q)
  <2>1. q \in infos
    BY DEF Held
  <2>2. r0 \in {<<"info", q>>, <<"nar", NarOf[q]>>}
    BY <2>1, HeldOne
  <2>3. Covers(Changed(r0), q)
    BY <2>2 DEF Covers, Changed
  <2> QED BY <1>1, <2>3, PendingAppend
<1> QED BY <1>2, <1>3 DEF Announced

LEMMA RecordAnnounces ==
  ASSUME WriteAssumption, TypeOK, UNCHANGED <<overlay, run, staged, status>>,
         NEW p \in Paths, infos' = infos \cup {p}, Enqueue(Changed(<<"info", p>>))
  PROVE  Announced
<1>1. <<"info", p>> \in Routes
  BY InfoRoute
<1>2. Changed(<<"info", p>>) \in Job /\ queue \in Seq(Job)
  BY <1>1, ChangedType DEF TypeOK
<1>3. Covers(Changed(<<"info", p>>), p)
  BY DEF Covers, Changed
<1>4. Pending(queue', p) /\ \A q : Pending(queue, q) => Pending(queue', q)
  BY <1>2, <1>3, PendingAppend
<1>5. \A q \in Held' \ Held : q = p
  BY DEF Held
<1> QED BY <1>4, <1>5 DEF Announced

LEMMA DiscardTakes ==
  ASSUME TypeOK, NEW r, Discard(r)
  PROVE  \A q \in Routes : staged'[q] # None => staged[q] # None
BY DEF Discard, TypeOK

LEMMA UploadAnnounces ==
  ASSUME WriteAssumption, TypeOK, UploadsAreSound,
         NEW u \in Slots, Client(u) \/ Progress(u)
  PROVE  Announced
<1>1. CASE BeginInfo(u) \/ ReadFails(u) \/ OnStagedRefused(u) \/ ReadInfo(u)
           \/ ReadBack(u) \/ ReadBackFails(u)
  <2>1. UNCHANGED <<overlay, run, queue, infos, status, staged>>
    BY <1>1 DEF BeginInfo, ReadFails, OnStagedRefused, ReadInfo, ReadBack,
                ReadBackFails, tables, memory
  <2> QED BY <2>1, QuietAnnounces
<1>2. CASE RecordFails(u) \/ RejectInfo(u)
  <2>1. UNCHANGED <<overlay, run, queue, infos, status>> /\ Discard(put[u].route)
    BY <1>2 DEF RecordFails, RejectInfo, memory
  <2> QED BY <2>1, DiscardTakes, QuietAnnounces
<1>3. CASE StageNar(u)
  <2>1. PICK n \in NARs, b \in NarBytes :
           /\ IF staged[<<"nar", n>>] # b
              THEN /\ staged' = [staged EXCEPT ![<<"nar", n>>] = b]
                   /\ Enqueue(Changed(<<"nar", n>>))
              ELSE UNCHANGED <<staged, queue>>
           /\ UNCHANGED <<status, infos, overlay, run>>
    BY <1>3 DEF StageNar
  <2>2. CASE UNCHANGED <<staged, queue>>
    BY <2>1, <2>2, QuietAnnounces
  <2>3. CASE /\ staged' = [staged EXCEPT ![<<"nar", n>>] = b]
             /\ Enqueue(Changed(<<"nar", n>>))
    <3>1. <<"nar", n>> \in Routes
      BY NarRoute
    <3>2. \A r \in Routes \ {<<"nar", n>>} : staged'[r] = staged[r]
      BY <2>3 DEF TypeOK
    <3> QED BY <2>1, <2>3, <3>1, <3>2, RowAnnounces
  <2> QED BY <2>1, <2>2, <2>3
<1>4. CASE InsertInfo(u)
  <2>1. put[u] # None /\ UNCHANGED <<status, infos, overlay, run>>
    BY <1>4 DEF InsertInfo, At
  <2>2. PICK r \in Routes : r = put[u].route
    BY <2>1, UploadFields
  <2>3. CASE UNCHANGED <<staged, queue>>
    BY <2>1, <2>3, QuietAnnounces
  <2>4. CASE /\ staged' = [staged EXCEPT ![r] = put[u].body]
             /\ Enqueue(Changed(r))
    <3>1. \A q \in Routes \ {r} : staged'[q] = staged[q]
      BY <2>4 DEF TypeOK
    <3> QED BY <2>1, <2>4, <3>1, RowAnnounces
  <2> QED BY <1>4, <2>2, <2>3, <2>4 DEF InsertInfo
<1>5. CASE RecordInfo(u)
  <2>1. /\ At(u, "read") /\ put[u] # None
        /\ infos' = infos \cup {put[u].route[2]}
        /\ Enqueue(Changed(put[u].route))
        /\ UNCHANGED <<status, staged, overlay, run>>
    BY <1>5 DEF RecordInfo, At
  <2>2. put[u].route \in Routes /\ IsInfo(put[u].route)
    BY <2>1, UploadFields DEF UploadsAreSound, Sound, At
  <2>3. PICK p \in Paths : put[u].route = <<"info", p>> /\ p = put[u].route[2]
    BY <2>2, InfoRouteForm
  <2>4. infos' = infos \cup {p} /\ Enqueue(Changed(<<"info", p>>))
    BY <2>1, <2>3
  <2> QED BY <2>1, <2>4, RecordAnnounces
<1>6. CASE OnStaged(u)
  <2>1. put[u] # None /\ UNCHANGED <<status, tables, run>>
    BY <1>6 DEF OnStaged, At
  <2>2. PICK j : j = [seed |-> put[u].route, by |-> "put", id |-> u]
    OBVIOUS
  <2>3. j \in Job /\ Enqueue(j)
    BY <1>6, <2>1, <2>2, UploadFields DEF Job, OnStaged
  <2>4. \A q : Pending(queue, q) => Pending(queue', q)
    BY <2>3, PendingAppend DEF TypeOK
  <2>5. Held' = Held
    BY <2>1 DEF Held, tables
  <2> QED BY <2>1, <2>4, <2>5 DEF Announced, tables
<1> QED BY <1>1, <1>2, <1>3, <1>4, <1>5, <1>6 DEF Client, Progress

-----------------------------------------------------------------------------
(* Recomputations: how one ends. *)

LEMMA StandsStill ==
  ASSUME UNCHANGED <<staged, infos>>
  PROVE  Held' = Held
BY DEF Held

\* A rejection that the process survives leaves every other job in place.
LEMMA RejectNotices ==
  ASSUME WriteAssumption, TypeOK, NEW job, NEW rest, NEW candidates,
         NoticedBy(job, candidates, rest), Reject(job, rest),
         UNCHANGED <<staged, infos, overlay>>
  PROVE  RunIsThorough' /\ Noticed'
<1>1. Held' = Held
  BY StandsStill
<1>2. run' = None
  BY DEF Reject, Down
<1>3. CASE status' \notin {"starting", "active"}
  BY <1>2, <1>3 DEF RunIsThorough, Noticed
<1>4. CASE job.by = "put" /\ queue' = rest
  <2>1. \A q \in Held' \ overlay : Fits(q, overlay) => Pending(queue', q)
    BY <1>1, <1>4 DEF NoticedBy
  <2> QED BY <1>2, <2>1 DEF RunIsThorough, Noticed, Fits, Pending
<1> QED BY <1>3, <1>4 DEF Reject, Down

\* One that goes on or commits leaves nothing behind that fits by now: it was a
\* candidate and would have been admitted, or it has a job of its own.
LEMMA ContinueNotices ==
  ASSUME WriteAssumption, TypeOK, NEW c, NEW rest, NEW K, Careful(c, rest, K),
         Settled(c), NoticedBy(c.job, c.candidates, rest), Continue(c, rest)
  PROVE  RunIsThorough' /\ Noticed'
<1>0. Sane(c) /\ Thorough(c, rest) /\ UNCHANGED <<staged, infos>>
  BY DEF Careful, Continue
<1>1. Held' = Held
  BY <1>0, StandsStill
<1>2. CASE ~Finished(c) /\ run' = c /\ queue' = rest /\ UNCHANGED overlay
  <2>1. c.asks # None
    BY <1>2 DEF Settled
  <2>2. c \in Recomputation
    BY <1>0, <2>1 DEF Sane, Pass, Recomputation
  <2>3. c # None
    BY <2>2 DEF WriteAssumption
  <2>4. Thorough(run, queue)'
    BY <1>0, <1>1, <1>2 DEF Thorough, Pending, Fits
  <2>5. NoticedBy(run.job, run.candidates, queue)'
    BY <1>1, <1>2 DEF NoticedBy, Pending, Fits
  <2> QED BY <1>2, <2>3, <2>4, <2>5 DEF RunIsThorough, Noticed
<1>3. CASE /\ Finished(c) /\ overlay' = overlay \cup c.admitted
           /\ run' = None /\ queue' = rest
  <2>1. ASSUME NEW q \in Held \ overlay', Fits(q, overlay') PROVE Pending(rest, q)
    <3>1. q \notin overlay /\ q \notin c.admitted /\ q \in infos
      BY <1>3, <2>1 DEF Held
    <3>2. CASE q \in c.candidates
      BY <1>0, <1>3, <2>1, <3>1, <3>2 DEF Thorough, Finished
    <3>3. CASE q \notin c.candidates /\ Refs[q] \cap c.admitted # {}
      <4>1. PICK a \in c.admitted : a \in Refs[q]
        BY <3>3
      <4>2. a \in c.candidates
        BY <1>0 DEF Sane
      <4> QED BY <1>0, <3>1, <3>3, <4>1, <4>2 DEF Thorough
    <3>4. CASE q \notin c.candidates /\ Refs[q] \cap c.admitted = {}
      <4>1. Fits(q, overlay)
        BY <1>3, <2>1, <3>4 DEF Fits
      <4> QED BY <2>1, <3>1, <3>4, <4>1 DEF NoticedBy
    <3> QED BY <3>2, <3>3, <3>4
  <2>2. \A q \in Held' \ overlay' : Fits(q, overlay)' => Pending(queue, q)'
    BY <1>1, <1>3, <2>1 DEF Fits, Pending
  <2> QED BY <1>3, <2>2 DEF RunIsThorough, Noticed
<1>4. CASE Reject(c.job, rest) /\ UNCHANGED overlay
  BY <1>0, <1>4, RejectNotices
<1> QED BY <1>2, <1>3, <1>4 DEF Continue

-----------------------------------------------------------------------------
(* Recomputations: the next job, and the answer of the lower layers. *)

LEMMA StartIsThorough ==
  ASSUME NEW j, NEW S, NEW s,
         \A a \in S, r \in infos : a \in Refs[r] => r \in S
  PROVE  Thorough(Start(j, S), s) /\ Start(j, S).candidates = S
<1> DEFINE d == Start(j, S)
<1>1. d.candidates = S /\ d.todo = S
  BY DEF Start
<1> HIDE DEF d
<1>2. Thorough(d, s)
  BY <1>1 DEF Thorough
<1> QED BY <1>1, <1>2 DEF d

LEMMA SeedsArePaths ==
  ASSUME TypeOK, NEW r \in Routes
  PROVE  Seeds(r) \subseteq Paths
<1>1. CASE IsInfo(r)
  BY <1>1, InfoRouteForm DEF Seeds
<1>2. CASE ~IsInfo(r)
  BY <1>2 DEF Seeds, TypeOK
<1> QED BY <1>1, <1>2

\* The job of a path that is held starts from it.
LEMMA CoveredSeeds ==
  ASSUME WriteAssumption, NEW q \in Held, NEW j, Covers(j, q)
  PROVE  Seeds(j.seed) = {q}
<1>1. CASE j.seed = <<"info", q>>
  BY <1>1 DEF Seeds, IsInfo
<1>2. CASE j.seed = <<"nar", NarOf[q]>>
  BY <1>2 DEF Seeds, IsInfo, Held
<1> QED BY <1>1, <1>2 DEF Covers

LEMMA PendingTail ==
  ASSUME queue \in Seq(Job), queue # <<>>, NEW q, Pending(queue, q)
  PROVE  Covers(Head(queue), q) \/ Pending(Tail(queue), q)
<1>1. PICK i \in DOMAIN queue : Covers(queue[i], q)
  BY DEF Pending
<1>2. CASE i = 1
  BY <1>1, <1>2
<1>3. CASE i # 1
  <2>1. i - 1 \in DOMAIN Tail(queue) /\ Tail(queue)[i - 1] = queue[i]
    BY <1>3
  <2> QED BY <1>1, <2>1 DEF Pending
<1> QED BY <1>2, <1>3

LEMMA StartNotices ==
  ASSUME WriteAssumption, TypeOK, Noticed, RecomputeStart
  PROVE  RunIsThorough' /\ Noticed'
<1> DEFINE job == Head(queue)
           seeds == Seeds(job.seed)
           K == IF seeds = {} THEN {{}} ELSE {AffectedBy(p) : p \in seeds}
           C == {Start(job, S) : S \in K}
<1>1. /\ run = None /\ queue # <<>> /\ status \in {"starting", "active"}
      /\ queue \in Seq(Job)
  BY DEF RecomputeStart, TypeOK
<1>2. job \in Job /\ job.seed \in Routes
  <2>1. job \in Job
    BY <1>1
  <2> HIDE DEF job
  <2> QED BY <2>1 DEF Job
<1>3. PICK c \in ToAwait(C) : Continue(c, Tail(queue))
  BY DEF RecomputeStart
<1> HIDE DEF job
<1>4. seeds \subseteq Paths
  BY <1>2, SeedsArePaths
<1> HIDE DEF seeds
<1>5. \A S \in K : S \subseteq infos
                   /\ \A a \in S, r \in infos : a \in Refs[r] => r \in S
  BY <1>4, AffectedCloses
<1>6. \A q \in Held : Covers(job, q) => \A S \in K : q \in S
  <2> SUFFICES ASSUME NEW q \in Held, Covers(job, q) PROVE \A S \in K : q \in S
    OBVIOUS
  <2>1. seeds = {q}
    BY CoveredSeeds DEF seeds
  <2>2. q \in infos /\ q \in Paths
    BY <1>4, <2>1 DEF Held
  <2>3. q \in AffectedBy(q)
    BY <2>2, AffectedCloses
  <2> QED BY <2>1, <2>3
<1> HIDE DEF K
<1>7. \A d \in C : Sane(d) /\ d.job = job /\ Careful(d, Tail(queue), K)
  BY <1>2, <1>5, StartIsSane, StartIsThorough DEF Careful
<1> HIDE DEF C
<1>8. c.job = job /\ Settled(c) /\ Careful(c, Tail(queue), K)
  BY <1>7, ToAwaitSettles, ToAwaitIsCareful
<1>9. NoticedBy(c.job, c.candidates, Tail(queue))
  <2> SUFFICES ASSUME NEW q \in Held \ overlay, Fits(q, overlay)
               PROVE  \/ Pending(Tail(queue), q)
                      \/ c.job.by # "put" /\ q \in c.candidates
    BY DEF NoticedBy
  <2>1. Pending(queue, q)
    BY <1>1 DEF Noticed
  <2>2. CASE Covers(job, q)
    BY <1>6, <1>8, <2>2 DEF Covers, Careful
  <2> QED BY <1>1, <2>1, <2>2, PendingTail DEF job
<1> QED BY <1>3, <1>8, <1>9, ContinueNotices

LEMMA AnswerNotices ==
  ASSUME WriteAssumption, TypeOK, RunIsSane, RunIsThorough, Noticed,
         status \in {"starting", "active"}, LowerAnswers
  PROVE  RunIsThorough' /\ Noticed'
<1> DEFINE p == run.asks
           next == IF Unresolved(run, p) \subseteq Lower
                   THEN Admit(run, p) ELSE Passed(run, p)
           K == {run.candidates}
<1>1. run # None /\ \E c \in ToAwait({next}) : Continue(c, queue)
  BY DEF LowerAnswers
<1>2. /\ Sane(run) /\ p \in run.todo /\ Thorough(run, queue)
      /\ NoticedBy(run.job, run.candidates, queue)
  BY <1>1 DEF RunIsSane, Sane, RunIsThorough, Noticed
<1>3. PICK c \in ToAwait({next}) : Continue(c, queue)
  BY <1>1
<1>4. Sane(next) /\ Thorough(next, queue) /\ next.job = run.job
      /\ next.candidates = run.candidates
  <2>1. CASE Unresolved(run, p) \subseteq Lower
    <3>1. Sane(Admit(run, p)) /\ Admit(run, p).job = run.job
      BY <1>2, <2>1, AdmitIsSane DEF Admit, Onward
    <3>2. /\ Thorough(Admit(run, p), queue)
          /\ Admit(run, p).candidates = run.candidates
      BY <1>2, AdmitIsThorough
    <3> QED BY <2>1, <3>1, <3>2
  <2>2. CASE ~(Unresolved(run, p) \subseteq Lower)
    <3>1. Sane(Passed(run, p)) /\ Passed(run, p).job = run.job
      BY <1>2, PassedIsSane DEF Passed, Onward
    <3>2. ~Fits(p, overlay \cup run.admitted)
      BY <2>2 DEF Fits, Unresolved
    <3>3. /\ Thorough(Passed(run, p), queue)
          /\ Passed(run, p).candidates = run.candidates
      BY <1>2, <3>2, PassedIsThorough
    <3> QED BY <2>2, <3>1, <3>3
  <2> QED BY <2>1, <2>2
<1> HIDE DEF next
<1>5. \A d \in {next} : Sane(d) /\ d.job = run.job /\ Careful(d, queue, K)
  BY <1>4 DEF Careful
<1> DEFINE C == {next}
<1> HIDE DEF K, C
<1>6. c.job = run.job /\ Settled(c) /\ Careful(c, queue, K)
  <2>1. c \in ToAwait(C)
    BY <1>3 DEF C
  <2>2. \A d \in C : Sane(d) /\ d.job = run.job /\ Careful(d, queue, K)
    BY <1>5 DEF C
  <2>3. c.job = run.job /\ Settled(c)
    BY <2>1, <2>2, ToAwaitSettles
  <2> QED BY <2>1, <2>2, <2>3, ToAwaitIsCareful
<1>7. NoticedBy(c.job, c.candidates, queue)
  BY <1>2, <1>6 DEF Careful, K
<1> QED BY <1>3, <1>6, <1>7, ContinueNotices

-----------------------------------------------------------------------------
(* The process: reconcile() takes up every recorded path. *)

LEMMA ActivateNotices ==
  ASSUME WriteAssumption, TypeOK, ReservationsAreOwned, Activate
  PROVE  RunIsThorough' /\ Noticed'
<1> DEFINE N == Cardinality(infos)
<1>1. run' = None /\ UNCHANGED <<staged, infos, overlay>>
  BY DEF Activate, ReservationsAreOwned
<1>2. PICK order \in [1..N -> infos] :
         /\ \A i, j \in DOMAIN order : i < j => order[i] < order[j]
         /\ queue' = [i \in DOMAIN order |->
                         [seed |-> <<"info", order[i]>>,
                          by |-> "reconcile", id |-> None]]
  BY DEF Activate
<1>3. IsFiniteSet(infos) /\ N \in Nat /\ infos \subseteq Nat
  BY FS_Subset, FS_CardinalityType DEF TypeOK, WriteAssumption
<1> HIDE DEF N
<1>4. ASSUME NEW i \in 1..N, NEW j \in 1..N, order[i] = order[j] PROVE i = j
  <2>1. order[i] \in Nat /\ order[j] \in Nat
    BY <1>3
  <2>2. ~(i < j) /\ ~(j < i)
    BY <1>2, <1>4, <2>1
  <2> QED BY <1>3, <2>2
<1>5. order \in Injection(1..N, infos)
  BY <1>4 DEF Injection, IsInjective
<1>6. Cardinality(1..N) = Cardinality(infos)
  BY <1>3, FS_Interval DEF N
<1>7. order \in Surjection(1..N, infos)
  BY <1>3, <1>5, <1>6, FS_Injection
<1>8. ASSUME NEW q \in infos PROVE Pending(queue', q)
  <2>1. PICK i \in 1..N : order[i] = q
    BY <1>7 DEF Surjection
  <2>2. /\ i \in DOMAIN queue'
        /\ queue'[i] = [seed |-> <<"info", q>>, by |-> "reconcile", id |-> None]
    BY <1>2, <2>1
  <2>3. Covers(queue'[i], q)
    BY <2>2 DEF Covers
  <2> QED BY <2>2, <2>3 DEF Pending
<1>9. \A q \in Held' : Pending(queue', q)
  BY <1>1, <1>8 DEF Held
<1> QED BY <1>1, <1>9 DEF RunIsThorough, Noticed, Pending

-----------------------------------------------------------------------------
(* Together. *)

\* A recomputation is under way in a process that is up.
RunsWhileUp == run # None => status \in {"starting", "active"}

LEMMA RunsStep ==
  ASSUME RunsWhileUp, [Next]_vars
  PROVE  RunsWhileUp'
<1>1. CASE \E u \in Slots : Client(u) \/ Progress(u)
  <2>1. UNCHANGED <<run, status>>
    BY <1>1 DEF Client, Progress, BeginInfo, StageNar, ReadFails, RecordFails,
      OnStagedRefused, ReadInfo, InsertInfo, ReadBack, ReadBackFails,
      RecordInfo, RejectInfo, OnStaged, tables, memory
  <2> QED BY <2>1 DEF RunsWhileUp
<1>2. CASE Recompute
  <2>1. status \in {"starting", "active"}
    BY <1>2 DEF Recompute, RecomputeStart, LowerAnswers, RunsWhileUp
  <2>2. run' = None \/ UNCHANGED status
    BY <1>2 DEF Recompute, RecomputeStart, LowerAnswers, Continue, Reject, Down
  <2> QED BY <2>1, <2>2 DEF RunsWhileUp
<1>3. CASE LowerFails \/ Crash \/ CrashInStageNar \/ OperatorRestarts
  <2>1. run' = None
    BY <1>3 DEF LowerFails, Reject, Crash, CrashInStageNar, OperatorRestarts, Down
  <2> QED BY <2>1 DEF RunsWhileUp
<1>4. CASE OnCommitted \/ Activated \/ Activate \/ UNCHANGED vars
  BY <1>4 DEF OnCommitted, Activated, Activate, memory, vars, RunsWhileUp
<1> QED BY <1>1, <1>2, <1>3, <1>4 DEF Next, Starting

Attentive == RunsWhileUp /\ RunIsThorough /\ Noticed

LEMMA AttentiveInit ==
  ASSUME Init
  PROVE  Attentive
BY DEF Init, Attentive, RunsWhileUp, RunIsThorough, Noticed

LEMMA AttentiveNext ==
  ASSUME WriteAssumption, TypeOK, TypeOK', Inv, Attentive, [Next]_vars
  PROVE  Attentive'
<1>0. /\ UploadsAreSound /\ RunIsSane /\ ReservationsAreOwned
      /\ RunsWhileUp /\ RunIsThorough /\ Noticed
  BY DEF Inv, Attentive
<1>1. RunsWhileUp'
  BY <1>0, RunsStep
<1>2. ASSUME NEW u \in Slots, Client(u) \/ Progress(u)
      PROVE  RunIsThorough' /\ Noticed'
  BY <1>0, <1>2, UploadAnnounces, AnnouncedKeeps
<1>3. ASSUME RecomputeStart
      PROVE  RunIsThorough' /\ Noticed'
  BY <1>0, <1>3, StartNotices
<1>4. ASSUME LowerAnswers
      PROVE  RunIsThorough' /\ Noticed'
  <2>1. status \in {"starting", "active"}
    BY <1>0, <1>4 DEF LowerAnswers, RunsWhileUp
  <2> QED BY <1>0, <1>4, <2>1, AnswerNotices
<1>5. ASSUME LowerFails
      PROVE  RunIsThorough' /\ Noticed'
  <2>1. /\ run # None /\ Reject(run.job, queue)
        /\ UNCHANGED <<staged, infos, overlay>>
    BY <1>5 DEF LowerFails, tables
  <2>2. NoticedBy(run.job, run.candidates, queue)
    BY <1>0, <2>1 DEF Noticed, RunsWhileUp
  <2> QED BY <2>1, <2>2, RejectNotices
<1>6. ASSUME OnCommitted \/ Activated \/ UNCHANGED vars
      PROVE  RunIsThorough' /\ Noticed'
  <2>1. /\ UNCHANGED <<overlay, run, queue, infos, staged>>
        /\ status' = status \/ (status = "starting" /\ status' = "active")
    BY <1>6 DEF OnCommitted, Activated, tables, memory, vars
  <2> QED BY <1>0, <2>1, QuietAnnounces, AnnouncedKeeps
<1>7. ASSUME Crash \/ CrashInStageNar \/ OperatorRestarts
      PROVE  RunIsThorough' /\ Noticed'
  <2>1. status' = "down" /\ run' = None
    BY <1>7 DEF Crash, CrashInStageNar, OperatorRestarts, Down
  <2> QED BY <2>1 DEF RunIsThorough, Noticed
<1>8. ASSUME Activate
      PROVE  RunIsThorough' /\ Noticed'
  BY <1>0, <1>8, ActivateNotices
<1>9. RunIsThorough' /\ Noticed'
  BY <1>2, <1>3, <1>4, <1>5, <1>6, <1>7, <1>8 DEF Next, Recompute, Starting
<1> QED BY <1>1, <1>9 DEF Attentive

LEMMA RestIsVisible ==
  ASSUME WriteAssumption, TypeOK, Noticed
  PROVE  CompleteIsVisible
<1> SUFFICES ASSUME status = "active", queue = <<>>, run = None,
                    NEW p \in Paths, Complete(p)
             PROVE  p \in overlay
  BY DEF CompleteIsVisible
<1>1. \A q : ~Pending(queue, q)
  BY DEF Pending
<1>2. \A q \in Held \ overlay : ~Fits(q, overlay)
  BY <1>1 DEF Noticed
<1> QED BY <1>2, NothingLeft

-----------------------------------------------------------------------------
(* Theorems. *)

\* The variables of the write path keep their types; in particular a
\* recomputation that is under way waits for an answer of the lower layers: the
\* passes over the candidates come to an await or to an end.
THEOREM TypeCorrect == Spec => []TypeOK
BY Invariance, PTL

\* No generation of the overlay ever holds a path with a missing dependency,
\* whatever uploads arrive while eligibility awaits the lower layers.
THEOREM OverlayIsClosed == Spec => []OverlayClosed
<1>1. Inv => OverlayClosed
  BY DEF Inv
<1> QED BY <1>1, Invariance, PTL

\* What the overlay serves is staged and readable, unless discard() of its own
\* route took the narinfo: rejections and retries on other routes do not.
THEOREM OverlayIsReadable == Spec => []OverlayReadable
<1>1. Inv => OverlayReadable
  BY DEF Inv, OverlayReadable, OverlayIsStaged, InfosAreStaged
<1> QED BY <1>1, Invariance, PTL

\* However many uploads overlap, what is staged and reserved stays within the
\* quota, and no reservation outlives its upload.
THEOREM QuotaHolds == Spec => []QuotaRespected
<1>1. Inv => QuotaRespected
  BY DEF Inv, QuotaRespected, QuotaIsKept, ReservationsAreOwned
<1> QED BY <1>1, Invariance, PTL

\* A staged route never changes its bytes, a NAR never leaves, and the right
\* narinfo of a path leaves only through discard().
THEOREM RoutesAreImmutable == Spec => RouteImmutable
<1>1. TypeOK /\ Inv /\ [Next]_vars => [Immutable]_vars
  BY InvNext, WriteAssumption DEF RowsKept
<1>2. Spec => [][Immutable]_vars
  BY <1>1, Invariance, PTL DEF Spec
<1> QED BY <1>2 DEF RouteImmutable, Immutable

\* Once eligibility is at rest every complete path is visible, for any graph of
\* references, in whatever order narinfos and NARs arrive, whoever's
\* recomputation admits them, whichever of them fail and across restarts.
THEOREM CompletePathsAreVisible == Spec => []CompleteIsVisible
<1>1. Init => Attentive
  BY AttentiveInit
<1>2. TypeOK /\ Inv /\ TypeOK' /\ Attentive /\ [Next]_vars => Attentive'
  BY AttentiveNext, WriteAssumption
<1>3. TypeOK /\ Attentive => CompleteIsVisible
  BY RestIsVisible, WriteAssumption DEF Attentive
<1> QED BY <1>1, <1>2, <1>3, Invariance, PTL DEF Spec
=============================================================================
