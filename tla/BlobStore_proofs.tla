-------------------------- MODULE BlobStore_proofs --------------------------
(***************************************************************************)
(* Theorems about the blob store, for every finite set of blobs and of     *)
(* admissions, every size function and capacity: type correctness, what is *)
(* kept, what is collected, what a restart preserves, and the capacity.    *)
(***************************************************************************)
EXTENDS BlobStore, FiniteSetTheorems, WellFoundedInduction, TLAPS

-----------------------------------------------------------------------------
(* The inductive invariant. *)

\* Leases are memory of the running store.
LeasesAreLive == phase # "up" => Leased = {}

\* What an owner holds is readable at every moment of a restart too, not only
\* once the store is up.
OwnedReadable == Owned \ tombstones \subseteq Ready \cap files

\* The store is down only after a crash, and whoever admits a write owns it.
WritesHaveOwners ==
    /\ crashes = 0 => phase = "up"
    /\ \A t \in Tokens : reservations[t] # None =>
          (reservations[t].origin = "write" => reservations[t].owner # None)

\* What the loops of reconcile() have established so far.
LoopsAgree ==
    /\ phase = "rows" => Ready \ todo \subseteq files
    /\ phase = "tombstones" => Ready \subseteq files /\ todo \subseteq tombstones
    /\ phase = "orphans" => Ready \subseteq files /\ todo = files \ Ready

\* A file without a row is an orphan: there is none while the store is up, and
\* adopting all there are leaves the store within its capacity.
OrphansFit ==
    /\ phase = "up" => files \subseteq Rows
    /\ phase # "up" => BytesOf(Ready \cup (files \ Rows)) <= Capacity
    /\ phase \notin {"up", "down"} => Pending = {}

Kept == /\ LeasedIsReadable /\ LeasesAreLive /\ OwnedReadable
        /\ WritesHaveOwners /\ NoWriteGarbage /\ LoopsAgree

-----------------------------------------------------------------------------
(* What #delete does, and what it is called for. *)

Holders == (Owners \cup Routes) \X Blobs
HashesOf(held) == {p[2] : p \in held}

LEMMA FailingType ==
  ASSUME TypeOK, NEW gone \in SUBSET Blobs, NEW failed \in Failing(gone)
  PROVE  /\ failed \subseteq gone \cap files
         /\ faults + Cardinality(failed) \in Nat
<1>1. failed \subseteq gone \cap files /\ faults \in Nat
  BY DEF Failing, TypeOK
<1>2. IsFiniteSet(failed)
  BY <1>1, FS_Subset, StoreAssumption
<1> QED BY <1>1, <1>2, FS_CardinalityType

\* Deleted hashes are no longer ready; a deleted hash that keeps an owner is
\* tombstoned; nothing becomes an orphan.
LEMMA DeleteEffect ==
  ASSUME TypeOK, NEW gone \in SUBSET Blobs, NEW failed \in Failing(gone),
         NEW held \in SUBSET Holders, Delete(gone, failed, held)
  PROVE  /\ catalog' \in [Blobs -> Row \cup {None}]
         /\ owners' \subseteq held
         /\ tombstones' \subseteq Blobs
         /\ files' \subseteq files /\ files \ gone \subseteq files'
         /\ faults' \in Nat
         /\ Ready' = Ready \ gone
         /\ \A h \in Ready' : catalog'[h] = catalog[h]
         /\ Rows' \subseteq Rows
         /\ files' \ Rows' \subseteq files \ Rows
         /\ \A p \in held : p[2] \notin gone => p \in owners'
         /\ tombstones \ gone \subseteq tombstones'
         /\ HashesOf(owners') \cap gone \subseteq tombstones'
<1>1. failed \subseteq gone \cap files /\ faults + Cardinality(failed) \in Nat
  BY FailingType
<1>2. catalog \in [Blobs -> Row \cup {None}] /\ None \notin Row
  BY StoreAssumption DEF TypeOK
<1> DEFINE erased == gone \ (failed \cup Pinned)
<1>3. \A h \in Blobs :
         /\ catalog'[h] = IF h \in erased \/ catalog[h] = None THEN None
                          ELSE IF h \in gone
                          THEN [catalog[h] EXCEPT !.state = "deleting"]
                          ELSE catalog[h]
  BY DEF Delete
<1>4. \A h \in Blobs : catalog[h] # None =>
         /\ [catalog[h] EXCEPT !.state = "deleting"] \in Row
         /\ [catalog[h] EXCEPT !.state = "deleting"].state = "deleting"
  BY <1>2 DEF Row
<1>5. catalog' \in [Blobs -> Row \cup {None}]
  <2>1. catalog' = [h \in Blobs |-> catalog'[h]]
    BY DEF Delete
  <2> QED BY <2>1, <1>2, <1>3, <1>4
<1>6. Rows' = Rows \ erased
  BY <1>2, <1>3, <1>4 DEF Rows
<1>7. Ready' = Ready \ gone
  <2>1. \A h \in Blobs : h \in Ready' <=> h \in Ready /\ h \notin gone
    BY <1>2, <1>3, <1>4, <1>6 DEF Ready, Rows
  <2> QED BY <2>1 DEF Ready, Rows
<1>8. \A h \in Ready' : catalog'[h] = catalog[h]
  BY <1>3, <1>7 DEF Ready, Rows
<1>9. /\ owners' = {p \in held : p[2] \notin erased}
      /\ files' = files \ (gone \ failed)
      /\ tombstones' = (tombstones \ (erased \cap files))
                            \cup failed \cup (gone \cap Pinned)
      /\ faults' = faults + Cardinality(failed)
  BY DEF Delete
<1> QED BY <1>1, <1>5, <1>6, <1>7, <1>8, <1>9 DEF TypeOK, HashesOf

\* #deleteIfUnownedWrite touches nothing that somebody still holds, and
\* leaves no unheld write blob among its candidates.
LEMMA SweepEffect ==
  ASSUME TypeOK, NEW candidates \in SUBSET Blobs,
         NEW held \in SUBSET Holders, NEW leased \in SUBSET Blobs,
         DeleteIfUnownedWrite(candidates, held, leased)
  PROVE  \E gone \in SUBSET Blobs : \E failed \in Failing(gone) :
            /\ Delete(gone, failed, held)
            /\ gone \cap HashesOf(held) = {}
            /\ gone \cap leased = {}
            /\ \A h \in candidates \cap Ready :
                  catalog[h].origin = "write" =>
                     h \in gone \/ h \in HashesOf(held) \/ h \in leased
<1> DEFINE gone == Unwanted(candidates, held, leased)
<1>1. PICK failed \in Failing(gone) : Delete(gone, failed, held)
  BY DEF DeleteIfUnownedWrite
<1>2. /\ gone \in SUBSET Blobs
      /\ gone \cap HashesOf(held) = {}
      /\ gone \cap leased = {}
  BY DEF Unwanted, HashesOf, Rows
<1>3. \A h \in candidates \cap Ready :
         catalog[h].origin = "write" =>
            h \in gone \/ h \in HashesOf(held) \/ h \in leased
  BY DEF Unwanted, HashesOf, Ready
<1> HIDE DEF gone
<1> QED BY <1>1, <1>2, <1>3

-----------------------------------------------------------------------------
(* Type correctness. *)

LEMMA RequestType ==
  ASSUME NEW a \in Request
  PROVE  /\ a \in Admission /\ a # None
         /\ a.origin = "write" => a.owner # None
<1>1. a \in Admission
  BY StoreAssumption DEF Request, Admission
<1>2. a.origin = "write" => a.owner # None
  BY StoreAssumption DEF Request
<1> QED BY <1>1, <1>2, StoreAssumption

\* The part of the state that a sweep changes, and its effect.
LEMMA SweepType ==
  ASSUME TypeOK, NEW candidates \in SUBSET Blobs,
         NEW held \in SUBSET Holders, NEW leased \in SUBSET Blobs,
         DeleteIfUnownedWrite(candidates, held, leased)
  PROVE  /\ catalog' \in [Blobs -> Row \cup {None}]
         /\ owners' \subseteq Holders
         /\ tombstones' \subseteq Blobs
         /\ files' \subseteq Blobs
         /\ faults' \in Nat
<1>1. PICK gone \in SUBSET Blobs : \E failed \in Failing(gone) :
                                       Delete(gone, failed, held)
  BY SweepEffect
<1>2. PICK failed \in Failing(gone) : Delete(gone, failed, held)
  BY <1>1
<1>3. files \subseteq Blobs
  BY DEF TypeOK
<1> QED BY <1>2, <1>3, DeleteEffect

LEMMA DiscardType ==
  ASSUME TypeOK, NEW h \in Blobs, Discard(h)
  PROVE  TypeOK'
<1>1. CASE Throw
  BY <1>1 DEF TypeOK, Throw, store
<1>2. ASSUME NEW failed \in Failing({h}), Delete({h}, failed, owners),
             todo' = todo \ {h},
             UNCHANGED <<committed, reservations, leases, phase, crashes>>
      PROVE  TypeOK'
  <2>1. owners \in SUBSET Holders /\ {h} \in SUBSET Blobs
    BY DEF TypeOK, Holders
  <2>2. /\ catalog' \in [Blobs -> Row \cup {None}]
        /\ owners' \subseteq owners /\ tombstones' \subseteq Blobs
        /\ files' \subseteq files /\ faults' \in Nat
    BY <1>2, <2>1, DeleteEffect
  <2> QED BY <1>2, <2>2 DEF TypeOK
<1> QED BY <1>1, <1>2 DEF Discard

LEMMA TypeInductive ==
  ASSUME TypeOK, [Next]_vars
  PROVE  TypeOK'
<1>1. Holders = (Owners \cup Routes) \X Blobs
  BY DEF Holders
<1>2. /\ owners \in SUBSET Holders /\ Leased \in SUBSET Blobs
      /\ Ready \in SUBSET Blobs /\ Evictable \in SUBSET Blobs
      /\ Rows \in SUBSET Blobs
  BY DEF TypeOK, Holders, Leased, Ready, Rows, Evictable
<1>3. CASE Start
  BY <1>3, <1>2 DEF Start, TypeOK
<1>4. CASE NextLoop
  BY <1>4, <1>2 DEF NextLoop, TypeOK, store
<1>5. ASSUME NEW h \in Blobs, ReconcileRow(h) PROVE TypeOK'
  <2>1. CASE Discard(h)
    BY <2>1, DiscardType
  <2>2. CASE todo' = todo \ {h} /\ UNCHANGED <<store, leases, phase, faults, crashes>>
    BY <2>2 DEF TypeOK, store
  <2> QED BY <1>5, <2>1, <2>2 DEF ReconcileRow
<1>6. ASSUME NEW h \in Blobs, ReconcileTombstone(h) PROVE TypeOK'
  BY <1>6, DiscardType DEF ReconcileTombstone
<1>7. ASSUME NEW h \in Blobs, AdoptOrphan(h) PROVE TypeOK'
  <2>1. CASE Throw
    BY <2>1 DEF TypeOK, Throw, store
  <2>2. CASE ~Throw
    BY <1>7, <2>2 DEF AdoptOrphan, TypeOK, Row
  <2> QED BY <2>1, <2>2
<1>8. ASSUME NEW a \in Request, ReserveFails(a) PROVE TypeOK'
  <2>1. PICK failed \in Failing(Evictable) :
           /\ files' = files \ (Evictable \ failed)
           /\ faults' = faults + Cardinality(failed)
    BY <1>8 DEF ReserveFails
  <2>2. faults + Cardinality(failed) \in Nat
    BY <1>2, FailingType
  <2> QED BY <1>8, <2>1, <2>2 DEF ReserveFails, TypeOK
<1>9. ASSUME NEW a \in Request, NEW t \in Tokens, Reserve(t, a) PROVE TypeOK'
  <2>1. PICK gone \in SUBSET Evictable : \E failed \in Failing(gone) :
           Delete(gone, failed, owners)
    BY <1>9 DEF Reserve
  <2>2. PICK failed \in Failing(gone) : Delete(gone, failed, owners)
    BY <2>1
  <2>3. gone \in SUBSET Blobs
    BY <1>2
  <2>4. /\ catalog' \in [Blobs -> Row \cup {None}]
        /\ owners' \subseteq owners /\ tombstones' \subseteq Blobs
        /\ files' \subseteq files /\ faults' \in Nat
    BY <1>2, <2>2, <2>3, DeleteEffect
  <2>5. a \in Admission
    BY RequestType
  <2> QED BY <1>9, <2>4, <2>5 DEF Reserve, TypeOK
<1>10. ASSUME NEW t \in Tokens, Promote(t) PROVE TypeOK'
  <2> DEFINE a == reservations[t]
             h == a.hash
  <2>1. a \in Admission
    BY <1>10 DEF Promote, TypeOK
  <2>2. /\ h \in Blobs /\ a.owner \in Owners \cup {None}
        /\ a.origin \in {"write", "remote"}
    BY <2>1 DEF Admission
  <2>3. [state |-> "ready", origin |-> Merged(h, a.origin)] \in Row
    BY <2>2 DEF Merged, Row
  <2>4. /\ files' = files \cup {h}
        /\ catalog' = [catalog EXCEPT ![h] =
                 [state |-> "ready", origin |-> Merged(h, a.origin)]]
        /\ owners' = owners \cup ({a.owner} \ {None}) \X {h}
        /\ reservations' = [reservations EXCEPT ![t] = None]
        /\ UNCHANGED <<committed, tombstones, leases, phase, todo, faults, crashes>>
    BY <1>10 DEF Promote
  <2> HIDE DEF a, h
  <2> QED BY <2>2, <2>3, <2>4 DEF TypeOK
<1>11. ASSUME NEW t \in Tokens, AdmitFails(t) PROVE TypeOK'
  BY <1>11 DEF AdmitFails, TypeOK
<1>12. ASSUME NEW h \in Blobs, Lookup(h) PROVE TypeOK'
  BY <1>12 DEF Lookup, TypeOK, store
<1>13. ASSUME NEW h \in Blobs, ReleaseLease(h) PROVE TypeOK'
  <2>1. leases' \in [Blobs -> Nat]
    BY <1>13 DEF ReleaseLease, TypeOK
  <2>2. DeleteIfUnownedWrite({h}, owners, {b \in Blobs : leases'[b] > 0})
    BY <1>13 DEF ReleaseLease
  <2>3. {b \in Blobs : leases'[b] > 0} \in SUBSET Blobs /\ {h} \in SUBSET Blobs
    OBVIOUS
  <2>4. /\ catalog' \in [Blobs -> Row \cup {None}]
        /\ owners' \subseteq Holders /\ tombstones' \subseteq Blobs
        /\ files' \subseteq Blobs /\ faults' \in Nat
    BY <1>2, <2>2, <2>3, SweepType
  <2> QED BY <1>1, <1>13, <2>1, <2>4 DEF ReleaseLease, TypeOK
<1>14. ASSUME NEW o \in Owners, NEW h \in Blobs, AcquireOwner(o, h) PROVE TypeOK'
  BY <1>14 DEF AcquireOwner, TypeOK
<1>15. ASSUME NEW o \in Owners, NEW S \in SUBSET Blobs, ReleaseOwner(o, S)
       PROVE  TypeOK'
  <2> DEFINE released == {p \in owners : p[1] = o /\ p[2] \in S}
  <2>1. /\ owners \ released \in SUBSET Holders
        /\ {p[2] : p \in released} \in SUBSET Blobs
    BY <1>2 DEF Holders
  <2>2. DeleteIfUnownedWrite({p[2] : p \in released}, owners \ released, Leased)
    BY <1>15 DEF ReleaseOwner
  <2>3. /\ catalog' \in [Blobs -> Row \cup {None}]
        /\ owners' \subseteq Holders /\ tombstones' \subseteq Blobs
        /\ files' \subseteq Blobs /\ faults' \in Nat
    BY <1>2, <2>1, <2>2, SweepType
  <2> QED BY <1>1, <1>15, <2>3 DEF ReleaseOwner, TypeOK
<1>16. ASSUME NEW o1 \in Owners, NEW o2 \in Owners, NEW S \in SUBSET Blobs,
              TransferOwner(o1, o2, S)
       PROVE  TypeOK'
  <2> DEFINE moved == {p \in owners : p[1] = o1 /\ p[2] \in S}
             held == (owners \ moved) \cup {<<o2, p[2]>> : p \in moved}
  <2>1. held \in SUBSET Holders
    BY <1>2 DEF Holders
  <2>2. DeleteIfUnownedWrite(Ready, held, Leased)
    BY <1>16 DEF TransferOwner
  <2>3. /\ catalog' \in [Blobs -> Row \cup {None}]
        /\ owners' \subseteq Holders /\ tombstones' \subseteq Blobs
        /\ files' \subseteq Blobs /\ faults' \in Nat
    BY <1>2, <2>1, <2>2, SweepType
  <2> QED BY <1>1, <1>16, <2>3 DEF TransferOwner, TypeOK
<1>17. ASSUME NEW r \in Routes, NEW o \in Owners, CommitRoute(r, o) PROVE TypeOK'
  BY <1>17, StoreAssumption DEF CommitRoute, TypeOK
<1>18. CASE Crash
  BY <1>18 DEF Crash, Down, TypeOK, store
<1>19. CASE CrashInReserve
  BY <1>19 DEF CrashInReserve, Down, TypeOK
<1>20. ASSUME NEW t \in Tokens, CrashInPromote(t) PROVE TypeOK'
  BY <1>20 DEF CrashInPromote, Down, TypeOK, Admission
<1>21. ASSUME NEW o \in Owners, NEW h \in Blobs, CrashInRelease(o, h) PROVE TypeOK'
  <2>1. catalog' \in [Blobs -> Row \cup {None}]
    <3>1. CASE catalog' = catalog
      BY <3>1 DEF TypeOK
    <3>2. CASE /\ h \in Unwanted({h}, owners', Leased)
               /\ catalog' = [catalog EXCEPT ![h].state = "deleting"]
      <4>1. catalog[h] \in Row
        BY <3>2 DEF Unwanted, Rows, TypeOK
      <4>2. [catalog[h] EXCEPT !.state = "deleting"] \in Row
        BY <4>1 DEF Row
      <4> QED BY <3>2, <4>2 DEF TypeOK
    <3> QED BY <1>21, <3>1, <3>2 DEF CrashInRelease
  <2>2. owners' \subseteq owners /\ files' \subseteq files
    BY <1>21 DEF CrashInRelease
  <2> QED BY <1>21, <2>1, <2>2 DEF CrashInRelease, Down, TypeOK
<1>22. CASE UNCHANGED vars
  BY <1>22 DEF vars, TypeOK
<1>23. Blobs \in SUBSET Blobs /\ \A h \in Blobs : {h} \in SUBSET Blobs
  OBVIOUS
<1> QED
  BY <1>3, <1>4, <1>5, <1>6, <1>7, <1>8, <1>9, <1>10, <1>11, <1>12, <1>13,
     <1>14, <1>15, <1>16, <1>17, <1>18, <1>19, <1>20, <1>21, <1>22, <1>23
     DEF Next, Reconcile, Serve, Fail, RecommitRoute

\* The tables, the directory and the memory of the store have their types at
\* every step: in particular a lease counter of #leases never underflows.
THEOREM TypeCorrect == Spec => []TypeOK
<1>1. Init => TypeOK
  BY DEF Init, TypeOK
<1> QED BY <1>1, TypeInductive, PTL DEF Spec

-----------------------------------------------------------------------------
(* What is held is kept, and what nobody holds is collected. *)

\* A deletion by the running store that spares what is held.
LEMMA DeleteKeeps ==
  ASSUME TypeOK, Kept, NEW gone \in SUBSET Blobs, NEW failed \in Failing(gone),
         NEW held \in SUBSET Holders, Delete(gone, failed, held),
         HashesOf(held) \subseteq Owned, HashesOf(held) \cap gone = {},
         Leased' \subseteq Leased, Leased' \cap gone = {},
         crashes = 0 => \A h \in Ready \ gone : catalog[h].origin = "write" =>
                           h \in HashesOf(held) \cup Leased',
         phase = "up", UNCHANGED <<phase, todo, crashes>>,
         WritesHaveOwners'
  PROVE  Kept'
<1>1. /\ owners' \subseteq held
      /\ files' \subseteq files /\ files \ gone \subseteq files'
      /\ Ready' = Ready \ gone
      /\ \A h \in Ready' : catalog'[h] = catalog[h]
      /\ \A p \in held : p[2] \notin gone => p \in owners'
      /\ tombstones \ gone \subseteq tombstones'
  BY DeleteEffect
<1>2. Owned' \subseteq HashesOf(held) /\ HashesOf(held) \subseteq Owned'
  BY <1>1 DEF Owned, HashesOf
<1>3. LeasedIsReadable'
  BY <1>1 DEF LeasedIsReadable, Kept
<1>4. OwnedReadable'
  BY <1>1, <1>2 DEF OwnedReadable, Kept
<1>5. NoWriteGarbage'
  BY <1>1, <1>2 DEF NoWriteGarbage
<1> QED BY <1>3, <1>4, <1>5 DEF Kept, LeasesAreLive, LoopsAgree

\* A sweep after owners or leases were given up.
LEMMA SweepKeeps ==
  ASSUME TypeOK, Kept, NEW candidates \in SUBSET Blobs,
         NEW held \in SUBSET Holders,
         DeleteIfUnownedWrite(candidates, held, Leased'),
         HashesOf(held) \subseteq Owned,
         Leased' \subseteq Leased,
         (Owned \cup Leased) \ (HashesOf(held) \cup Leased') \subseteq candidates,
         phase = "up", UNCHANGED <<phase, todo, crashes, reservations>>
  PROVE  Kept'
<1>1. Leased' \in SUBSET Blobs
  BY DEF Leased
<1>2. PICK gone \in SUBSET Blobs : \E failed \in Failing(gone) :
            /\ Delete(gone, failed, held)
            /\ gone \cap HashesOf(held) = {}
            /\ gone \cap Leased' = {}
            /\ \A h \in candidates \cap Ready :
                  catalog[h].origin = "write" =>
                     h \in gone \/ h \in HashesOf(held) \/ h \in Leased'
  BY <1>1, SweepEffect
<1>3. PICK failed \in Failing(gone) : Delete(gone, failed, held)
  BY <1>2
<1>4. crashes = 0 => \A h \in Ready \ gone : catalog[h].origin = "write" =>
                           h \in HashesOf(held) \cup Leased'
  BY <1>2 DEF Kept, NoWriteGarbage
<1>5. WritesHaveOwners'
  BY DEF Kept, WritesHaveOwners
<1> QED BY <1>2, <1>3, <1>4, <1>5, DeleteKeeps

\* #delete of one hash by reconcile().
LEMMA DiscardKeeps ==
  ASSUME TypeOK, Kept, phase \in {"rows", "tombstones"}, NEW h \in todo,
         h \notin files \/ h \notin Ready \/ h \in tombstones, Discard(h)
  PROVE  /\ Kept'
         /\ \A p \in owners : p[2] \in tombstones \/ p \in owners'
<1>1. CASE Throw
  <2>1. Ready' = Ready /\ Owned' = Owned /\ Leased' = Leased
    BY <1>1 DEF Throw, store, Ready, Rows, Owned, Leased
  <2>2. crashes # 0
    BY DEF Kept, WritesHaveOwners
  <2> QED BY <1>1, <2>1, <2>2 DEF Throw, store, Kept, LeasedIsReadable,
             LeasesAreLive, OwnedReadable, WritesHaveOwners, NoWriteGarbage,
             LoopsAgree
<1>2. ASSUME NEW failed \in Failing({h}), Delete({h}, failed, owners),
             todo' = todo \ {h},
             UNCHANGED <<committed, reservations, leases, phase, crashes>>
      PROVE  /\ Kept'
             /\ \A p \in owners : p[2] \in tombstones \/ p \in owners'
  <2>1. owners \in SUBSET Holders /\ {h} \in SUBSET Blobs
    BY DEF TypeOK, Holders
  <2>2. /\ owners' \subseteq owners
        /\ files' \subseteq files /\ files \ {h} \subseteq files'
        /\ Ready' = Ready \ {h}
        /\ \A p \in owners : p[2] \notin {h} => p \in owners'
        /\ tombstones \ {h} \subseteq tombstones'
        /\ HashesOf(owners') \cap {h} \subseteq tombstones'
    BY <1>2, <2>1, DeleteEffect
  <2>3. Owned' \subseteq Owned /\ Owned' \cap {h} \subseteq tombstones'
    BY <2>2 DEF Owned, HashesOf
  <2>4. crashes # 0 /\ Leased = {} /\ Leased' = {}
    BY <1>2 DEF Kept, WritesHaveOwners, LeasesAreLive, Leased
  <2>5. OwnedReadable'
    BY <2>2, <2>3 DEF OwnedReadable, Kept
  <2>6. LoopsAgree'
    BY <1>2, <2>2 DEF LoopsAgree, Kept
  <2>7. \A p \in owners : p[2] \in tombstones \/ p \in owners'
    BY <2>2 DEF Kept, OwnedReadable, Owned
  <2> QED BY <1>2, <2>4, <2>5, <2>6, <2>7 DEF Kept, LeasedIsReadable,
             LeasesAreLive, WritesHaveOwners, NoWriteGarbage
<1> QED BY <1>1, <1>2 DEF Discard

\* The memory of the store is gone and so is the claim about its garbage: a
\* crash has to keep what is owned.
LEMMA DownKeeps ==
  ASSUME TypeOK, Kept, Down, OwnedReadable', UNCHANGED reservations
  PROVE  Kept'
<1>1. Leased' = {}
  BY DEF Down, Leased
<1>2. crashes' # 0 /\ phase' = "down"
  BY DEF Down, TypeOK
<1> QED BY <1>1, <1>2 DEF Kept, LeasedIsReadable, LeasesAreLive,
           WritesHaveOwners, NoWriteGarbage, LoopsAgree

LEMMA KeptInductive ==
  ASSUME TypeOK, Kept, [Next]_vars
  PROVE  Kept'
<1>1. /\ owners \in SUBSET Holders /\ Leased \in SUBSET Blobs
      /\ Ready \in SUBSET Blobs /\ Evictable \in SUBSET Blobs
      /\ Owned = HashesOf(owners)
  BY DEF TypeOK, Holders, Leased, Ready, Rows, Evictable, Owned, HashesOf
<1>2. ASSUME UNCHANGED store
      PROVE  /\ Ready' = Ready /\ Owned' = Owned
             /\ OwnedReadable' /\ \A h \in Ready' : catalog'[h] = catalog[h]
  <2>1. UNCHANGED <<catalog, owners, tombstones, files>>
    BY <1>2 DEF store
  <2>2. Ready' = Ready /\ Owned' = Owned
    BY <2>1 DEF Ready, Rows, Owned
  <2> QED BY <2>1, <2>2 DEF Kept, OwnedReadable
<1>3. CASE Start
  <2>1. Ready' = Ready /\ Owned' = Owned /\ Leased' = Leased /\ Ready \subseteq Rows
    BY <1>3 DEF Start, Ready, Rows, Owned, Leased
  <2> QED BY <1>3, <2>1 DEF Start, Kept, LeasedIsReadable, LeasesAreLive,
        OwnedReadable, WritesHaveOwners, NoWriteGarbage, LoopsAgree, TypeOK
<1>4. CASE NextLoop
  <2>1. Ready' = Ready /\ Owned' = Owned /\ OwnedReadable' /\ Leased' = Leased
    BY <1>2, <1>4 DEF NextLoop, Leased
  <2>2. phase # "up" /\ crashes # 0 /\ Leased = {}
    BY <1>4 DEF NextLoop, Kept, WritesHaveOwners, LeasesAreLive
  <2>3. UNCHANGED <<reservations, crashes, files, tombstones>>
    BY <1>4 DEF NextLoop, store
  <2>4. LoopsAgree'
    BY <1>4, <2>1, <2>3 DEF NextLoop, Kept, LoopsAgree
  <2> QED BY <2>1, <2>2, <2>3, <2>4 DEF Kept, LeasedIsReadable, LeasesAreLive,
        WritesHaveOwners, NoWriteGarbage
<1>5. ASSUME NEW h \in Blobs, ReconcileRow(h) PROVE Kept'
  <2>1. CASE Discard(h) /\ (h \notin files \/ catalog[h].state = "deleting")
    <3>1. h \notin files \/ h \notin Ready
      BY <2>1 DEF Ready
    <3> QED BY <1>5, <2>1, <3>1, DiscardKeeps DEF ReconcileRow
  <2>2. CASE /\ h \in files /\ catalog[h].state = "ready"
             /\ todo' = todo \ {h}
             /\ UNCHANGED <<store, leases, phase, faults, crashes>>
    <3>1. Ready' = Ready /\ Owned' = Owned /\ OwnedReadable' /\ Leased' = Leased
      BY <1>2, <2>2 DEF Leased
    <3>2. phase = "rows" /\ phase' = "rows" /\ UNCHANGED <<reservations, files>>
      BY <1>5, <2>2 DEF ReconcileRow, store
    <3>3. crashes # 0 /\ Leased = {} /\ crashes' = crashes
      BY <2>2, <3>2 DEF Kept, WritesHaveOwners, LeasesAreLive
    <3>4. LoopsAgree'
      BY <2>2, <3>1, <3>2 DEF Kept, LoopsAgree
    <3> QED BY <3>1, <3>2, <3>3, <3>4 DEF Kept, LeasedIsReadable,
          LeasesAreLive, WritesHaveOwners, NoWriteGarbage
  <2> QED BY <1>5, <2>1, <2>2 DEF ReconcileRow
<1>6. ASSUME NEW h \in Blobs, ReconcileTombstone(h) PROVE Kept'
  <2>1. h \in todo /\ h \in tombstones /\ phase = "tombstones"
    BY <1>6 DEF ReconcileTombstone, Kept, LoopsAgree
  <2> QED BY <1>6, <2>1, DiscardKeeps DEF ReconcileTombstone
<1>7. ASSUME NEW h \in Blobs, AdoptOrphan(h) PROVE Kept'
  <2>1. CASE Throw
    <3>1. Ready' = Ready /\ Owned' = Owned /\ OwnedReadable' /\ Leased' = Leased
      BY <1>2, <2>1 DEF Throw, Leased
    <3>2. crashes # 0 /\ Leased = {}
      BY <1>7 DEF AdoptOrphan, Kept, WritesHaveOwners, LeasesAreLive
    <3> QED BY <2>1, <3>1, <3>2 DEF Throw, store, Kept, LeasedIsReadable,
          LeasesAreLive, WritesHaveOwners, NoWriteGarbage, LoopsAgree
  <2>2. CASE /\ catalog[h] = None
             /\ catalog' = [catalog EXCEPT ![h] =
                               [state |-> "ready", origin |-> "remote"]]
             /\ todo' = todo \ {h}
             /\ UNCHANGED <<owners, committed, reservations, tombstones, files,
                            leases, phase, faults, crashes>>
    <3>1. [state |-> "ready", origin |-> "remote"] # None
      BY StoreAssumption DEF Row
    <3>2. Ready' = Ready \cup {h}
      <4>1. \A b \in Blobs : catalog'[b] = IF b = h
                THEN [state |-> "ready", origin |-> "remote"] ELSE catalog[b]
        BY <2>2 DEF TypeOK
      <4> QED BY <3>1, <4>1 DEF Ready, Rows
    <3>3. /\ phase = "orphans" /\ h \in todo /\ crashes # 0
          /\ Leased = {} /\ Leased' = {}
      BY <1>7, <2>2 DEF AdoptOrphan, Kept, WritesHaveOwners, LeasesAreLive, Leased
    <3>4. Owned' = Owned
      BY <2>2 DEF Owned
    <3>5. LoopsAgree' /\ OwnedReadable'
      BY <2>2, <3>2, <3>3, <3>4 DEF Kept, LoopsAgree, OwnedReadable
    <3> QED BY <2>2, <3>3, <3>5 DEF Kept, LeasedIsReadable, LeasesAreLive,
          WritesHaveOwners, NoWriteGarbage
  <2> QED BY <1>7, <2>1, <2>2 DEF AdoptOrphan
<1>8. ASSUME NEW a \in Request, ReserveFails(a) PROVE Kept'
  <2>1. PICK failed \in Failing(Evictable) : files' = files \ (Evictable \ failed)
    BY <1>8 DEF ReserveFails
  <2>2. Ready' = Ready /\ Owned' = Owned /\ Leased' = Leased
    BY <1>8 DEF ReserveFails, Ready, Rows, Owned, Leased
  <2>3. Evictable \cap Owned = {} /\ Evictable \cap Leased = {}
    BY DEF Evictable
  <2>4. LeasedIsReadable' /\ OwnedReadable'
    BY <1>8, <2>1, <2>2, <2>3 DEF ReserveFails, Kept, LeasedIsReadable, OwnedReadable
  <2> QED BY <1>8, <2>2, <2>4 DEF ReserveFails, Kept, LeasesAreLive,
        WritesHaveOwners, NoWriteGarbage, LoopsAgree
<1>9. ASSUME NEW a \in Request, NEW t \in Tokens, Reserve(t, a) PROVE Kept'
  <2>1. PICK gone \in SUBSET Evictable : \E failed \in Failing(gone) :
           Delete(gone, failed, owners)
    BY <1>9 DEF Reserve
  <2>2. PICK failed \in Failing(gone) : Delete(gone, failed, owners)
    BY <2>1
  <2>3. /\ gone \in SUBSET Blobs /\ HashesOf(owners) \cap gone = {}
        /\ Leased' = Leased /\ Leased' \cap gone = {}
    BY <1>1, <1>9 DEF Evictable, Reserve, Leased
  <2>4. /\ phase = "up" /\ UNCHANGED <<phase, todo, crashes>>
        /\ reservations' = [reservations EXCEPT ![t] = a]
    BY <1>9 DEF Reserve
  <2>5. WritesHaveOwners'
    BY <2>4, RequestType DEF Kept, WritesHaveOwners, TypeOK
  <2>6. crashes = 0 => \A h \in Ready \ gone : catalog[h].origin = "write" =>
                           h \in HashesOf(owners) \cup Leased'
    BY <1>1, <2>3 DEF Kept, NoWriteGarbage
  <2> QED BY <1>1, <2>2, <2>3, <2>4, <2>5, <2>6, DeleteKeeps
<1>10. ASSUME NEW t \in Tokens, Promote(t) PROVE Kept'
  <2> DEFINE a == reservations[t]
             h == a.hash
             row == [state |-> "ready", origin |-> Merged(h, a.origin)]
  <2>1. a \in Admission
    BY <1>10 DEF Promote, TypeOK
  <2>2. /\ h \in Blobs /\ a.owner \in Owners \cup {None}
        /\ a.origin \in {"write", "remote"}
    BY <2>1 DEF Admission
  <2>3. row # None /\ row.state = "ready" /\ row.origin = Merged(h, a.origin)
    BY <2>2, StoreAssumption DEF Merged, Row
  <2>4. /\ files' = files \cup {h}
        /\ catalog' = [catalog EXCEPT ![h] = row]
        /\ owners' = owners \cup ({a.owner} \ {None}) \X {h}
        /\ reservations' = [reservations EXCEPT ![t] = None]
        /\ phase = "up" /\ reservations[t] # None
        /\ UNCHANGED <<committed, tombstones, leases, phase, todo, faults, crashes>>
    BY <1>10 DEF Promote
  <2>5. Merged(h, a.origin) = "write" => a.owner # None
    <3>1. a.origin = "write" => a.owner # None
      BY <2>4 DEF Kept, WritesHaveOwners
    <3> QED BY <2>2, <3>1 DEF Merged
  <2> HIDE DEF a, h, row
  <2>6. Ready' = Ready \cup {h} /\ \A b \in Blobs \ {h} : catalog'[b] = catalog[b]
    <3>1. \A b \in Blobs : catalog'[b] = IF b = h THEN row ELSE catalog[b]
      BY <2>4 DEF TypeOK
    <3> QED BY <2>2, <2>3, <3>1 DEF Ready, Rows
  <2>7. /\ Owned \subseteq Owned' /\ Owned' \subseteq Owned \cup {h}
        /\ a.owner # None => h \in Owned'
    <3>1. \A p \in owners' : p \in owners \/ p[2] = h
      BY <2>4
    <3>2. owners \subseteq owners' /\ (a.owner # None => <<a.owner, h>> \in owners')
      BY <2>4
    <3> QED BY <3>1, <3>2 DEF Owned
  <2>8. Leased' = Leased
    BY <2>4 DEF Leased
  <2>9. OwnedReadable' /\ LeasedIsReadable'
    BY <2>4, <2>6, <2>7, <2>8 DEF Kept, OwnedReadable, LeasedIsReadable
  <2>10. WritesHaveOwners'
    BY <2>4 DEF Kept, WritesHaveOwners, TypeOK
  <2>11. NoWriteGarbage'
    <3>1. \A b \in Ready' : catalog'[b].origin = "write" /\ crashes = 0 =>
             b \in Owned' \cup Leased'
      <4> TAKE b \in Ready'
      <4>1. CASE b = h
        <5>1. catalog'[h] = row
          BY <2>2, <2>4 DEF TypeOK
        <5> QED BY <4>1, <5>1, <2>3, <2>5, <2>7
      <4>2. CASE b # h
        <5>1. b \in Ready /\ b \in Blobs
          BY <1>1, <2>6, <4>2
        <5> QED BY <4>2, <5>1, <2>6, <2>7, <2>8 DEF Kept, NoWriteGarbage
      <4> QED BY <4>1, <4>2
    <3> QED BY <2>4, <3>1 DEF NoWriteGarbage
  <2> QED BY <2>4, <2>9, <2>10, <2>11 DEF Kept, LeasesAreLive, LoopsAgree
<1>11. ASSUME NEW t \in Tokens, AdmitFails(t) PROVE Kept'
  <2>1. Ready' = Ready /\ Owned' = Owned /\ Leased' = Leased
    BY <1>11 DEF AdmitFails, Ready, Rows, Owned, Leased
  <2>2. WritesHaveOwners'
    BY <1>11 DEF AdmitFails, Kept, WritesHaveOwners, TypeOK
  <2> QED BY <1>11, <2>1, <2>2 DEF AdmitFails, Kept, LeasedIsReadable,
        LeasesAreLive, OwnedReadable, NoWriteGarbage, LoopsAgree
<1>12. ASSUME NEW h \in Blobs, Lookup(h) PROVE Kept'
  <2>1. Ready' = Ready /\ Owned' = Owned /\ OwnedReadable'
    BY <1>2, <1>12 DEF Lookup
  <2>2. Leased' = Leased \cup {h}
    BY <1>12 DEF Lookup, Leased, TypeOK
  <2>3. UNCHANGED <<catalog, files, reservations, phase, todo, crashes>> /\ phase = "up"
    BY <1>12 DEF Lookup, store
  <2> QED BY <1>12, <2>1, <2>2, <2>3 DEF Lookup, Kept, LeasedIsReadable,
        LeasesAreLive, WritesHaveOwners, NoWriteGarbage, LoopsAgree
<1>13. ASSUME NEW h \in Blobs, ReleaseLease(h) PROVE Kept'
  <2>1. Leased' \subseteq Leased /\ Leased \ {h} \subseteq Leased'
    BY <1>13 DEF ReleaseLease, Leased, TypeOK
  <2>2. DeleteIfUnownedWrite({h}, owners, Leased')
    BY <1>13 DEF ReleaseLease, Leased
  <2>3. phase = "up" /\ UNCHANGED <<phase, todo, crashes, reservations>>
    BY <1>13 DEF ReleaseLease
  <2>4. {h} \in SUBSET Blobs
    OBVIOUS
  <2> QED BY <1>1, <2>1, <2>2, <2>3, <2>4, SweepKeeps
<1>14. ASSUME NEW o \in Owners, NEW h \in Blobs, AcquireOwner(o, h) PROVE Kept'
  <2>1. Ready' = Ready /\ Leased' = Leased
    BY <1>14 DEF AcquireOwner, Ready, Rows, Leased
  <2>2. Owned \subseteq Owned' /\ Owned' \subseteq Owned \cup {h}
    <3>1. owners' = owners \cup {<<o, h>>} /\ <<o, h>>[2] = h
      BY <1>14 DEF AcquireOwner
    <3> QED BY <3>1 DEF Owned
  <2>3. h \notin tombstones => h \in Ready \cap files
    BY <1>14 DEF AcquireOwner, Kept, OwnedReadable, LeasedIsReadable
  <2> QED BY <1>14, <2>1, <2>2, <2>3 DEF AcquireOwner, Kept, LeasedIsReadable,
        LeasesAreLive, OwnedReadable, WritesHaveOwners, NoWriteGarbage, LoopsAgree
<1>15. ASSUME NEW o \in Owners, NEW S \in SUBSET Blobs, ReleaseOwner(o, S)
       PROVE  Kept'
  <2> DEFINE released == {p \in owners : p[1] = o /\ p[2] \in S}
  <2>1. /\ owners \ released \in SUBSET Holders
        /\ HashesOf(released) \in SUBSET Blobs
        /\ HashesOf(owners \ released) \subseteq Owned
        /\ Owned \ HashesOf(owners \ released) \subseteq HashesOf(released)
    BY <1>1 DEF Holders, HashesOf
  <2>2. Leased' = Leased
    BY <1>15 DEF ReleaseOwner, Leased
  <2>3. DeleteIfUnownedWrite(HashesOf(released), owners \ released, Leased')
    BY <1>15, <2>2 DEF ReleaseOwner, HashesOf
  <2>4. phase = "up" /\ UNCHANGED <<phase, todo, crashes, reservations>>
    BY <1>15 DEF ReleaseOwner
  <2> HIDE DEF released
  <2> QED BY <2>1, <2>2, <2>3, <2>4, SweepKeeps
<1>16. ASSUME NEW o1 \in Owners, NEW o2 \in Owners, NEW S \in SUBSET Blobs,
              TransferOwner(o1, o2, S)
       PROVE  Kept'
  <2> DEFINE moved == {p \in owners : p[1] = o1 /\ p[2] \in S}
             held == (owners \ moved) \cup {<<o2, p[2]>> : p \in moved}
  <2>1. held \in SUBSET Holders
    BY <1>1 DEF Holders
  <2>2. HashesOf(held) \subseteq Owned /\ Owned \subseteq HashesOf(held)
    <3>1. \A p \in held : \E q \in owners : p[2] = q[2]
      OBVIOUS
    <3>2. \A q \in owners : \E p \in held : p[2] = q[2]
      <4> TAKE q \in owners
      <4>1. CASE q \in moved
        <5>1. <<o2, q[2]>> \in held
          BY <4>1
        <5> QED BY <5>1
      <4>2. CASE q \notin moved
        BY <4>2
      <4> QED BY <4>1, <4>2
    <3> HIDE DEF held
    <3> QED BY <1>1, <3>1, <3>2 DEF HashesOf
  <2>3. Leased' = Leased
    BY <1>16 DEF TransferOwner, Leased
  <2>4. DeleteIfUnownedWrite(Ready, held, Leased')
    BY <1>16, <2>3 DEF TransferOwner
  <2>5. phase = "up" /\ UNCHANGED <<phase, todo, crashes, reservations>>
    BY <1>16 DEF TransferOwner
  <2> HIDE DEF held
  <2> QED BY <1>1, <2>1, <2>2, <2>3, <2>4, <2>5, SweepKeeps
<1>17. ASSUME NEW r \in Routes, NEW o \in Owners, CommitRoute(r, o) PROVE Kept'
  <2>1. Ready' = Ready /\ Leased' = Leased
    BY <1>17 DEF CommitRoute, Ready, Rows, Leased
  <2>2. Owned' = Owned
    <3>1. \A q \in owners : \E p \in owners' : p[2] = q[2]
      <4> TAKE q \in owners
      <4>1. CASE q[1] = o
        <5>1. q[2] \in Parts[r]
          BY <1>17, <4>1 DEF CommitRoute
        <5>2. <<r, q[2]>> \in owners'
          BY <1>17, <5>1 DEF CommitRoute
        <5> QED BY <5>2
      <4>2. CASE q[1] # o
        BY <1>17, <4>2 DEF CommitRoute
      <4> QED BY <4>1, <4>2
    <3>2. \A p \in owners' : \E q \in owners : p[2] = q[2]
      <4> TAKE p \in owners'
      <4>1. CASE p \in owners
        BY <4>1
      <4>2. CASE p \notin owners
        <5>1. p[2] \in Parts[r]
          BY <1>17, <4>2 DEF CommitRoute
        <5>2. p[2] \in {q[2] : q \in {s \in owners : s[1] = o}}
          BY <1>17, <5>1 DEF CommitRoute
        <5> QED BY <5>2
      <4> QED BY <4>1, <4>2
    <3> QED BY <3>1, <3>2 DEF Owned
  <2> QED BY <1>17, <2>1, <2>2 DEF CommitRoute, Kept, LeasedIsReadable,
        LeasesAreLive, OwnedReadable, WritesHaveOwners, NoWriteGarbage, LoopsAgree
<1>18. CASE Crash
  BY <1>2, <1>18, DownKeeps DEF Crash, store
<1>19. CASE CrashInReserve
  <2>1. PICK gone \in SUBSET Evictable : files' = files \ gone
    BY <1>19 DEF CrashInReserve
  <2>2. Ready' = Ready /\ Owned' = Owned /\ Evictable \cap Owned = {}
    BY <1>19 DEF CrashInReserve, Ready, Rows, Owned, Evictable
  <2>3. OwnedReadable'
    BY <1>19, <2>1, <2>2 DEF CrashInReserve, Kept, OwnedReadable
  <2> QED BY <1>19, <2>3, DownKeeps DEF CrashInReserve
<1>20. ASSUME NEW t \in Tokens, CrashInPromote(t) PROVE Kept'
  <2>1. Ready' = Ready /\ Owned' = Owned /\ files \subseteq files'
    BY <1>20 DEF CrashInPromote, Ready, Rows, Owned
  <2>2. OwnedReadable'
    BY <1>20, <2>1 DEF CrashInPromote, Kept, OwnedReadable
  <2> QED BY <1>20, <2>2, DownKeeps DEF CrashInPromote
<1>21. ASSUME NEW o \in Owners, NEW h \in Blobs, CrashInRelease(o, h) PROVE Kept'
  <2>1. Owned' \subseteq Owned
    BY <1>21 DEF CrashInRelease, Owned
  <2>2. OwnedReadable'
    <3>1. CASE UNCHANGED <<catalog, files>>
      <4>1. Ready' = Ready
        BY <3>1 DEF Ready, Rows
      <4> QED BY <1>21, <2>1, <3>1, <4>1 DEF CrashInRelease, Kept, OwnedReadable
    <3>2. CASE /\ h \in Unwanted({h}, owners', Leased)
               /\ catalog' = [catalog EXCEPT ![h].state = "deleting"]
               /\ files' \in {files, files \ {h}}
      <4>1. h \notin Owned'
        BY <3>2 DEF Unwanted, Owned
      <4>2. Ready \ {h} \subseteq Ready'
        BY <3>2 DEF Ready, Rows, TypeOK
      <4> QED BY <1>21, <2>1, <3>2, <4>1, <4>2 DEF CrashInRelease, Kept, OwnedReadable
    <3> QED BY <1>21, <3>1, <3>2 DEF CrashInRelease
  <2> QED BY <1>21, <2>2, DownKeeps DEF CrashInRelease
<1>22. CASE UNCHANGED vars
  <2>1. Ready' = Ready /\ Owned' = Owned /\ Leased' = Leased
    BY <1>22 DEF vars, Ready, Rows, Owned, Leased
  <2> QED BY <1>22, <2>1 DEF vars, Kept, LeasedIsReadable, LeasesAreLive,
        OwnedReadable, WritesHaveOwners, NoWriteGarbage, LoopsAgree
<1>23. Blobs \in SUBSET Blobs /\ \A h \in Blobs : {h} \in SUBSET Blobs
  OBVIOUS
<1> QED
  BY <1>3, <1>4, <1>5, <1>6, <1>7, <1>8, <1>9, <1>10, <1>11, <1>12, <1>13,
     <1>14, <1>15, <1>16, <1>17, <1>18, <1>19, <1>20, <1>21, <1>22, <1>23
     DEF Next, Reconcile, Serve, Fail, RecommitRoute

LEMMA KeptInvariant == Spec => [](TypeOK /\ Kept)
<1>1. Init => TypeOK /\ Kept
  <2>1. ASSUME Init PROVE Ready = {} /\ Owned = {} /\ Leased = {}
    BY <2>1 DEF Init, Ready, Rows, Owned, Leased
  <2>2. Init => TypeOK
    BY DEF Init, TypeOK
  <2> QED BY <2>1, <2>2 DEF Init, Kept, LeasedIsReadable, LeasesAreLive,
        OwnedReadable, WritesHaveOwners, NoWriteGarbage, LoopsAgree
<1>2. TypeOK /\ Kept /\ [Next]_vars => (TypeOK /\ Kept)'
  BY TypeInductive, KeptInductive
<1> QED BY <1>1, <1>2, PTL DEF Spec

\* No reservation, eviction, sweep, failed unlink or crash takes a blob away
\* from a lease that is open or from an owner, tombstoned blobs excepted.
THEOREM HeldIsReadable == Spec => []KeptIsReadable
<1>1. Kept => KeptIsReadable
  BY DEF Kept, KeptIsReadable, OwnedIsReadable, OwnedReadable
<1> QED BY <1>1, KeptInvariant, PTL

\* As long as the process has not crashed, a ready blob of the write path has
\* an owner or an open lease: the last holder to go takes it along.
THEOREM WritesAreCollected == Spec => []NoWriteGarbage
<1>1. Kept => NoWriteGarbage
  BY DEF Kept
<1> QED BY <1>1, KeptInvariant, PTL

\* No step of reconcile(), and no crash in the middle of it, drops the owner
\* row of a blob, unless the unlink of that blob had failed before.
THEOREM RestartsKeepOwners == Spec => RestartKeepsOwned
<1> DEFINE Keeps == phase # "up" =>
              \A p \in owners : p[2] \in tombstones \/ p \in owners'
<1>1. ASSUME TypeOK, Kept, [Next]_vars PROVE [Keeps]_vars
  <2> SUFFICES ASSUME phase # "up", Next PROVE Keeps
    BY <1>1
  <2>1. CASE owners' = owners
    BY <2>1
  <2>2. ASSUME NEW h \in Blobs, ReconcileRow(h) PROVE Keeps
    <3>1. CASE Discard(h) /\ (h \notin files \/ catalog[h].state = "deleting")
      <4>1. h \notin files \/ h \notin Ready
        BY <3>1 DEF Ready
      <4>2. phase = "rows" /\ h \in todo
        BY <2>2 DEF ReconcileRow
      <4> QED BY <1>1, <3>1, <4>1, <4>2, DiscardKeeps
    <3>2. CASE UNCHANGED <<store, leases, phase, faults, crashes>>
      BY <3>2 DEF store
    <3> QED BY <2>2, <3>1, <3>2 DEF ReconcileRow
  <2>3. ASSUME NEW h \in Blobs, ReconcileTombstone(h) PROVE Keeps
    <3>1. h \in todo /\ h \in tombstones /\ phase = "tombstones" /\ Discard(h)
      BY <1>1, <2>3 DEF ReconcileTombstone, Kept, LoopsAgree
    <3> QED BY <1>1, <3>1, DiscardKeeps
  <2>4. ASSUME NEW h \in Blobs, AdoptOrphan(h) PROVE owners' = owners
    BY <2>4 DEF AdoptOrphan, Throw, store
  <2>5. Start \/ NextLoop \/ Crash => owners' = owners
    BY DEF Start, NextLoop, Crash, store
  <2>6. ~Serve
    BY DEF Serve, ReserveFails, Reserve, Promote, AdmitFails, Lookup,
           ReleaseLease, AcquireOwner, ReleaseOwner, TransferOwner,
           CommitRoute, RecommitRoute
  <2>7. Fail => Crash
    BY DEF Fail, CrashInReserve, CrashInPromote, CrashInRelease
  <2> QED BY <2>1, <2>2, <2>3, <2>4, <2>5, <2>6, <2>7 DEF Next, Reconcile
<1> QED BY <1>1, KeptInvariant, PTL DEF Spec, RestartKeepsOwned

\* Whatever the crash left in the directory and in the catalog, the store that
\* opens for business has exactly the files its ready rows name.
THEOREM RestartsAgree == Spec => ReconcileAgrees
<1> DEFINE Agrees == phase # "up" /\ phase' = "up" => Ready' = files'
<1>1. ASSUME TypeOK, Kept, [Next]_vars PROVE [Agrees]_vars
  <2> SUFFICES ASSUME phase # "up", phase' = "up", Next PROVE Ready' = files'
    BY <1>1
  <2>1. CASE NextLoop
    <3>1. phase = "orphans" /\ todo = {} /\ files' = files /\ catalog' = catalog
      BY <2>1 DEF NextLoop, store
    <3>2. Ready' = Ready
      BY <3>1 DEF Ready, Rows
    <3> QED BY <1>1, <3>1, <3>2 DEF Kept, LoopsAgree
  <2>2. ~Start
    BY DEF Start
  <2>3. ASSUME NEW h \in Blobs
        PROVE  ~ReconcileRow(h) /\ ~ReconcileTombstone(h) /\ ~AdoptOrphan(h)
    <3>1. ~Throw /\ ~Discard(h)
      BY DEF Throw, Discard
    <3> QED BY <3>1 DEF ReconcileRow, ReconcileTombstone, AdoptOrphan
  <2>4. ~Serve
    BY DEF Serve, ReserveFails, Reserve, Promote, AdmitFails, Lookup,
           ReleaseLease, AcquireOwner, ReleaseOwner, TransferOwner,
           CommitRoute, RecommitRoute
  <2>5. ~Fail
    BY DEF Fail, Crash, CrashInReserve, CrashInPromote, CrashInRelease, Down
  <2> QED BY <2>1, <2>2, <2>3, <2>4, <2>5 DEF Next, Reconcile
<1> QED BY <1>1, KeptInvariant, PTL DEF Spec, ReconcileAgrees
-----------------------------------------------------------------------------
(* Sums of byte counts.  SumFunctionOnSet is a fold, which no prover        *)
(* unfolds; it is the number of the bytes counted one by one, and about     *)
(* that the theorems on finite sets say all that is needed.                 *)

\* The bytes of S one by one: f[x] of them for each x.
Units(f, S) == {p \in S \X Nat : p[2] < f[p[1]]}
\* The recursion that the fold of the sum stands for.
Unfolds(g, f, S) ==
   g = [s \in SUBSET S |->
          IF s = {} THEN 0
          ELSE f[CHOOSE x \in s : TRUE] + g[s \ {CHOOSE x \in s : TRUE}]]

LEMMA SumUnfold ==
  ASSUME NEW f, NEW S
  PROVE  SumFunctionOnSet(f, S) = (CHOOSE g : Unfolds(g, f, S))[S]
BY DEF SumFunctionOnSet, FoldFunctionOnSet, MapThenFoldSet, Unfolds

LEMMA UnitsOfOne ==
  ASSUME NEW f, NEW x, f[x] \in Nat
  PROVE  /\ IsFiniteSet(Units(f, {x}))
         /\ Cardinality(Units(f, {x})) = f[x]
<1> DEFINE U == Units(f, {x})
           h == [n \in 1..f[x] |-> <<x, n - 1>>]
<1>1. \A n \in 1..f[x] : h[n] \in U
  BY DEF Units
<1>2. \A m, n \in 1..f[x] : h[m] = h[n] => m = n
  OBVIOUS
<1>3. \A p \in U : \E n \in 1..f[x] : h[n] = p
  <2> TAKE p \in U
  <2>1. p[1] = x /\ p[2] \in Nat /\ p[2] < f[x] /\ p = <<p[1], p[2]>>
    BY DEF Units
  <2>2. p[2] + 1 \in 1..f[x]
    BY <2>1
  <2>3. h[p[2] + 1] = p
    BY <2>1, <2>2
  <2> QED BY <2>2, <2>3
<1>4. h \in Bijection(1..f[x], U)
  BY <1>1, <1>2, <1>3 DEF Bijection, Injection, Surjection, IsInjective
<1>5. ExistsBijection(1..f[x], U)
  BY <1>4 DEF ExistsBijection
<1> QED BY <1>5, FS_CountingElements, FS_Bijection, FS_Interval

LEMMA UnitsUnion ==
  ASSUME NEW f, NEW S, NEW T
  PROVE  /\ Units(f, S \cup T) = Units(f, S) \cup Units(f, T)
         /\ S \cap T = {} => Units(f, S) \cap Units(f, T) = {}
BY DEF Units

LEMMA UnitsFinite ==
  ASSUME NEW S, IsFiniteSet(S), NEW f, \A x \in S : f[x] \in Nat
  PROVE  IsFiniteSet(Units(f, S))
<1> DEFINE parts == {Units(f, {x}) : x \in S}
<1>1. IsFiniteSet(parts)
  <2> DEFINE g == [x \in S |-> Units(f, {x})]
  <2>1. g \in Surjection(S, parts)
    BY DEF Surjection
  <2> QED BY <2>1, FS_Surjection DEF ExistsSurjection
<1>2. \A P \in parts : IsFiniteSet(P)
  BY UnitsOfOne
<1>3. Units(f, S) = UNION parts
  BY DEF Units
<1> HIDE DEF parts
<1> QED BY <1>1, <1>2, <1>3, FS_UNION

LEMMA UnitsAdd ==
  ASSUME NEW S, IsFiniteSet(S), NEW f, \A x \in S : f[x] \in Nat,
         NEW T \in SUBSET S, NEW x \in T
  PROVE  Cardinality(Units(f, T)) = f[x] + Cardinality(Units(f, T \ {x}))
<1>1. IsFiniteSet(T) /\ IsFiniteSet(T \ {x})
  BY FS_Subset
<1>2. IsFiniteSet(Units(f, T \ {x})) /\ IsFiniteSet(Units(f, {x}))
  BY <1>1, UnitsFinite, UnitsOfOne
<1>3. /\ Units(f, T) = Units(f, {x}) \cup Units(f, T \ {x})
      /\ Units(f, {x}) \cap Units(f, T \ {x}) = {}
  <2>1. T = {x} \cup (T \ {x}) /\ {x} \cap (T \ {x}) = {}
    OBVIOUS
  <2> QED BY <2>1, UnitsUnion
<1>4. /\ Cardinality(Units(f, {x})) = f[x] /\ f[x] \in Nat
      /\ Cardinality(Units(f, T \ {x})) \in Nat
      /\ Cardinality({}) = 0
  BY <1>2, UnitsOfOne, FS_CardinalityType, FS_EmptySet
<1> DEFINE A == Units(f, {x})
           B == Units(f, T \ {x})
<1>5. Cardinality(A \cup B) = Cardinality(A) + Cardinality(B) - Cardinality(A \cap B)
  BY <1>2, FS_Union
<1> HIDE DEF A, B
<1>6. /\ Units(f, T) = A \cup B /\ A \cap B = {}
      /\ Cardinality(A) = f[x] /\ Cardinality(B) \in Nat
      /\ Cardinality(B) = Cardinality(Units(f, T \ {x}))
  BY <1>3, <1>4 DEF A, B
<1>7. Cardinality(A \cup B) = f[x] + Cardinality(B)
  <2>1. Cardinality(A \cap B) = 0
    BY <1>4, <1>6
  <2>2. f[x] \in Nat
    OBVIOUS
  <2> QED BY <1>5, <1>6, <2>1, <2>2
<1> QED BY <1>6, <1>7

\* A subset of S on which the sum and the count differ, smallest first,
\* cannot exist.
LEMMA SumIsCardinality ==
  ASSUME NEW S, IsFiniteSet(S), NEW f, \A x \in S : f[x] \in Nat
  PROVE  SumFunctionOnSet(f, S) = Cardinality(Units(f, S))
<1> DEFINE c(s) == CHOOSE x \in s : TRUE
           g == CHOOSE g : Unfolds(g, f, S)
           k == [s \in SUBSET S |-> Cardinality(Units(f, s))]
<1>1. \A s \in SUBSET S : s # {} => c(s) \in s /\ s \ {c(s)} \in SUBSET S
  OBVIOUS
<1>2. Units(f, {}) = {} /\ Cardinality({}) = 0
  BY FS_EmptySet DEF Units
<1>3. \A s \in SUBSET S :
         k[s] = IF s = {} THEN 0 ELSE f[c(s)] + k[s \ {c(s)}]
  <2> TAKE s \in SUBSET S
  <2>1. CASE s = {}
    BY <1>2, <2>1
  <2>2. CASE s # {}
    <3>1. c(s) \in s /\ s \ {c(s)} \in SUBSET S
      BY <1>1, <2>2
    <3> HIDE DEF c
    <3>2. Cardinality(Units(f, s)) = f[c(s)] + Cardinality(Units(f, s \ {c(s)}))
      BY <3>1, UnitsAdd
    <3> QED BY <2>2, <3>1, <3>2
  <2> QED BY <2>1, <2>2
<1>4. Unfolds(k, f, S)
  BY <1>3 DEF Unfolds
<1>5. Unfolds(g, f, S)
  BY <1>4
<1>6. \A s \in SUBSET S :
         g[s] = IF s = {} THEN 0 ELSE f[c(s)] + g[s \ {c(s)}]
  BY <1>5 DEF Unfolds
<1> DEFINE Bad == {s \in SUBSET S : g[s] # k[s]}
<1> HIDE DEF g, k, c
<1>7. Bad = {}
  <2> SUFFICES ASSUME Bad # {} PROVE FALSE
    OBVIOUS
  <2>1. IsWellFoundedOn(StrictSubsetOrdering(S), SUBSET S)
    BY FS_StrictSubsetOrderingWellFounded, FS_FiniteSubsetsOfFinite
  <2>2. PICK s \in Bad : \A r \in Bad : ~(<<r, s>> \in StrictSubsetOrdering(S))
    BY <2>1, WFMin
  <2>3. s # {}
    BY <1>3, <1>6
  <2>4. s \ {c(s)} \in SUBSET S /\ c(s) \in s
    BY <1>1, <2>3
  <2>5. s \ {c(s)} \notin Bad
    <3>1. <<s \ {c(s)}, s>> \in StrictSubsetOrdering(S)
      BY <2>4 DEF StrictSubsetOrdering
    <3> QED BY <2>2, <3>1
  <2>6. g[s \ {c(s)}] = k[s \ {c(s)}]
    BY <2>4, <2>5
  <2> QED BY <1>3, <1>6, <2>3, <2>6
<1> QED BY <1>7, SumUnfold DEF g, k

LEMMA SumType ==
  ASSUME NEW S, IsFiniteSet(S), NEW f, \A x \in S : f[x] \in Nat
  PROVE  SumFunctionOnSet(f, S) \in Nat
BY SumIsCardinality, UnitsFinite, FS_CardinalityType

LEMMA SumEmpty ==
  ASSUME NEW f
  PROVE  SumFunctionOnSet(f, {}) = 0
<1>1. IsFiniteSet({}) /\ Cardinality({}) = 0 /\ Units(f, {}) = {}
  BY FS_EmptySet DEF Units
<1>2. SumFunctionOnSet(f, {}) = Cardinality(Units(f, {}))
  BY <1>1, SumIsCardinality
<1> QED BY <1>1, <1>2

LEMMA SumMonotone ==
  ASSUME NEW T, IsFiniteSet(T), NEW f, \A x \in T : f[x] \in Nat,
         NEW S \in SUBSET T
  PROVE  SumFunctionOnSet(f, S) <= SumFunctionOnSet(f, T)
<1>1. IsFiniteSet(S)
  BY FS_Subset
<1>2. Units(f, S) \in SUBSET Units(f, T) /\ IsFiniteSet(Units(f, T))
  BY UnitsFinite DEF Units
<1>3. Cardinality(Units(f, S)) <= Cardinality(Units(f, T))
  BY <1>2, FS_Subset
<1>4. /\ SumFunctionOnSet(f, S) = Cardinality(Units(f, S))
      /\ SumFunctionOnSet(f, T) = Cardinality(Units(f, T))
  BY <1>1, SumIsCardinality
<1> QED BY <1>3, <1>4

\* One more element, whatever the functions are outside the sets.
LEMMA SumAdd ==
  ASSUME NEW S, IsFiniteSet(S), NEW f, NEW g, NEW x, x \notin S,
         \A y \in S : f[y] \in Nat /\ g[y] = f[y], g[x] \in Nat
  PROVE  SumFunctionOnSet(g, S \cup {x}) = SumFunctionOnSet(f, S) + g[x]
<1> DEFINE T == S \cup {x}
<1>1. IsFiniteSet(T) /\ x \in T /\ T \ {x} = S
  BY FS_AddElement
<1>2. \A y \in T : g[y] \in Nat
  OBVIOUS
<1>3. Units(g, S) = Units(f, S)
  BY DEF Units
<1> HIDE DEF T
<1>4. Cardinality(Units(g, T)) = g[x] + Cardinality(Units(g, T \ {x}))
  BY <1>1, <1>2, UnitsAdd
<1>5. SumFunctionOnSet(g, T) = Cardinality(Units(g, T))
  BY <1>1, <1>2, SumIsCardinality
<1>6. SumFunctionOnSet(f, S) = Cardinality(Units(f, S))
  BY SumIsCardinality
<1>7. SumFunctionOnSet(f, S) \in Nat
  BY SumType
<1>8. SumFunctionOnSet(g, T) = g[x] + SumFunctionOnSet(f, S)
  BY <1>1, <1>3, <1>4, <1>5, <1>6
<1>9. g[x] + SumFunctionOnSet(f, S) = SumFunctionOnSet(f, S) + g[x]
  BY <1>7
<1> QED BY <1>8, <1>9 DEF T

-----------------------------------------------------------------------------
(* Capacity. *)

LEMMA Bytes ==
  ASSUME NEW T \in SUBSET Blobs
  PROVE  /\ BytesOf(T) \in Nat
         /\ \A S \in SUBSET T : BytesOf(S) <= BytesOf(T)
         /\ \A h \in Blobs : /\ Size[h] \in Nat
                             /\ BytesOf(T \cup {h}) <= BytesOf(T) + Size[h]
<1>1. IsFiniteSet(T) /\ \A h \in Blobs : Size[h] \in Nat
  BY StoreAssumption, FS_Subset
<1>2. \A x \in T : Size[x] \in Nat
  BY <1>1
<1>3. BytesOf(T) \in Nat
  BY <1>1, <1>2, SumType DEF BytesOf
<1>4. \A S \in SUBSET T : BytesOf(S) <= BytesOf(T)
  BY <1>1, <1>2, SumMonotone DEF BytesOf
<1>5. ASSUME NEW h \in Blobs
      PROVE  BytesOf(T \cup {h}) <= BytesOf(T) + Size[h]
  <2>1. CASE h \in T
    <3>1. T \cup {h} = T /\ Size[h] \in Nat
      BY <1>1, <2>1
    <3> HIDE DEF BytesOf
    <3> QED BY <3>1, <1>3
  <2>2. CASE h \notin T
    <3>1. BytesOf(T \cup {h}) = BytesOf(T) + Size[h]
      BY <1>1, <1>2, <2>2, SumAdd DEF BytesOf
    <3>2. Size[h] \in Nat
      BY <1>1
    <3> QED BY <3>1, <3>2, <1>3
  <2> QED BY <2>1, <2>2
<1> QED BY <1>1, <1>3, <1>4, <1>5

LEMMA Reserved ==
  ASSUME TypeOK
  PROVE  /\ ReservedBytes \in Nat
         /\ ReservedBytes = SumFunctionOnSet(
                [t \in Pending |-> reservations[t].bytes], Pending)
         /\ IsFiniteSet(Pending)
         /\ \A t \in Pending : reservations[t] \in Admission /\ reservations[t].bytes \in Nat
         /\ Pending = {} => ReservedBytes = 0
<1> DEFINE f == [t \in Pending |-> reservations[t].bytes]
<1>1. ReservedBytes = SumFunctionOnSet(f, Pending)
  BY DEF ReservedBytes, SumFunction
<1>2. IsFiniteSet(Pending)
  BY StoreAssumption, FS_Subset DEF Pending
<1>3. \A t \in Pending : reservations[t] \in Admission /\ reservations[t].bytes \in Nat
  BY DEF Pending, TypeOK, Admission
<1>4. \A t \in Pending : f[t] \in Nat
  BY <1>3
<1> HIDE DEF f
<1>5. SumFunctionOnSet(f, Pending) \in Nat
  BY <1>2, <1>4, SumType
<1>6. Pending = {} => SumFunctionOnSet(f, Pending) = 0
  BY SumEmpty
<1> QED BY <1>1, <1>2, <1>3, <1>5, <1>6 DEF f

LEMMA SumGrows ==
  ASSUME NEW P, IsFiniteSet(P), NEW t, t \notin P, NEW f, NEW g,
         DOMAIN f = P, DOMAIN g = P \cup {t},
         \A u \in P : f[u] \in Nat /\ g[u] = f[u], g[t] \in Nat
  PROVE  SumFunction(g) = SumFunction(f) + g[t]
BY SumAdd DEF SumFunction

\* A reservation charges its bytes.
LEMMA ReservedGrows ==
  ASSUME TypeOK, NEW t \in Tokens, NEW a \in Admission,
         reservations[t] = None, reservations' = [reservations EXCEPT ![t] = a]
  PROVE  ReservedBytes' = ReservedBytes + a.bytes
<1>1. a # None /\ a.bytes \in Nat
  BY StoreAssumption DEF Admission
<1>2. /\ Pending' = Pending \cup {t} /\ t \notin Pending /\ reservations'[t] = a
      /\ \A u \in Pending : reservations'[u] = reservations[u]
  BY <1>1 DEF Pending, TypeOK
<1>3. IsFiniteSet(Pending) /\ \A u \in Pending : reservations[u].bytes \in Nat
  BY Reserved
<1> DEFINE f == [u \in Pending |-> reservations[u].bytes]
           g == [u \in Pending' |-> reservations'[u].bytes]
           P == Pending
<1>4. /\ IsFiniteSet(P) /\ t \notin P
      /\ DOMAIN f = P /\ DOMAIN g = P \cup {t}
      /\ \A u \in P : f[u] \in Nat /\ g[u] = f[u]
      /\ g[t] \in Nat /\ g[t] = a.bytes
  BY <1>1, <1>2, <1>3
<1>5. SumFunction(f) = ReservedBytes /\ SumFunction(g) = ReservedBytes'
  BY DEF ReservedBytes
<1> HIDE DEF f, g, P
<1>6. SumFunction(g) = SumFunction(f) + g[t]
  BY <1>4, SumGrows
<1> QED BY <1>4, <1>5, <1>6

\* A finished admission gives them back.
LEMMA ReservedShrinks ==
  ASSUME TypeOK, NEW t \in Tokens, reservations[t] # None,
         reservations' = [reservations EXCEPT ![t] = None]
  PROVE  ReservedBytes = ReservedBytes' + reservations[t].bytes
<1> DEFINE P == Pending \ {t}
<1>1. /\ Pending' = P /\ Pending = P \cup {t} /\ t \notin P
      /\ \A u \in P : reservations'[u] = reservations[u]
  BY DEF Pending, TypeOK
<1>2. IsFiniteSet(Pending) /\ \A u \in Pending : reservations[u].bytes \in Nat
  BY Reserved
<1>3. IsFiniteSet(P) /\ \A u \in P : reservations'[u].bytes \in Nat
  BY <1>1, <1>2, FS_Subset
<1>4. reservations[t].bytes \in Nat
  BY <1>1, <1>2
<1> DEFINE f == [u \in Pending |-> reservations[u].bytes]
           g == [u \in Pending' |-> reservations'[u].bytes]
<1>5. /\ DOMAIN g = P /\ DOMAIN f = P \cup {t}
      /\ \A u \in P : g[u] \in Nat /\ f[u] = g[u]
      /\ f[t] \in Nat /\ f[t] = reservations[t].bytes
  BY <1>1, <1>2, <1>3
<1>6. SumFunction(f) = ReservedBytes /\ SumFunction(g) = ReservedBytes'
  BY DEF ReservedBytes
<1> HIDE DEF f, g, P
<1>7. SumFunction(f) = SumFunction(g) + f[t]
  BY <1>1, <1>3, <1>5, SumGrows
<1> QED BY <1>5, <1>6, <1>7

LEMMA ReservedSame ==
  ASSUME reservations' = reservations
  PROVE  ReservedBytes' = ReservedBytes /\ Pending' = Pending
BY DEF ReservedBytes, Pending

Space == CapacityRespected /\ OrphansFit

\* Steps that admit nothing: what is ready or an orphan only shrinks.
LEMMA ShrinkingFits ==
  ASSUME TypeOK, Space, UNCHANGED reservations,
         Ready' \subseteq Ready, files' \ Rows' \subseteq files \ Rows,
         phase' = phase \/ phase' = "down"
  PROVE  Space'
<1>1. Ready \in SUBSET Blobs /\ Rows \in SUBSET Blobs /\ files \in SUBSET Blobs
  BY DEF Ready, Rows, TypeOK
<1> DEFINE all == Ready \cup (files \ Rows)
           all2 == Ready' \cup (files' \ Rows')
<1>2. all \in SUBSET Blobs /\ all2 \in SUBSET all
  BY <1>1
<1>3. /\ BytesOf(Ready') \in Nat /\ BytesOf(Ready) \in Nat
      /\ BytesOf(Ready') <= BytesOf(Ready)
  BY <1>1, Bytes
<1>4. /\ BytesOf(all) \in Nat /\ BytesOf(all2) \in Nat
      /\ BytesOf(all2) <= BytesOf(all)
  BY <1>2, Bytes
<1>5. ReservedBytes' = ReservedBytes /\ Pending' = Pending /\ ReservedBytes \in Nat
  BY ReservedSame, Reserved
<1>6. Capacity \in Nat
  BY StoreAssumption
<1>7. BytesOf(Ready)' = BytesOf(Ready')
  BY DEF BytesOf
<1>8. BytesOf(Ready \cup (files \ Rows))' = BytesOf(all2)
  BY DEF BytesOf
<1>9. CapacityRespected'
  BY <1>3, <1>5, <1>6, <1>7 DEF Space, CapacityRespected
<1>10. phase = "up" => all = Ready
  BY DEF Space, OrphansFit
<1>11. BytesOf(all) <= Capacity
  <2>1. CASE phase = "up"
    <3>1. BytesOf(Ready) <= Capacity
      BY <1>3, <1>5, <1>6 DEF Space, CapacityRespected
    <3> QED BY <2>1, <3>1, <1>10
  <2>2. CASE phase # "up"
    BY <2>2 DEF Space, OrphansFit
  <2> QED BY <2>1, <2>2
<1>12. BytesOf(all2) <= Capacity
  BY <1>4, <1>6, <1>11
<1> HIDE DEF all, all2
<1> QED BY <1>5, <1>8, <1>9, <1>12 DEF Space, OrphansFit

LEMMA SweepFits ==
  ASSUME TypeOK, Space, NEW candidates \in SUBSET Blobs,
         NEW held \in SUBSET Holders, NEW leased \in SUBSET Blobs,
         DeleteIfUnownedWrite(candidates, held, leased),
         UNCHANGED <<phase, reservations>>
  PROVE  Space'
<1>1. PICK gone \in SUBSET Blobs : \E failed \in Failing(gone) :
                                       Delete(gone, failed, held)
  BY SweepEffect
<1>2. PICK failed \in Failing(gone) : Delete(gone, failed, held)
  BY <1>1
<1>3. Ready' = Ready \ gone /\ files' \ Rows' \subseteq files \ Rows
  BY <1>2, DeleteEffect
<1> QED BY <1>3, ShrinkingFits

LEMMA SpaceInductive ==
  ASSUME TypeOK, TypeOK', Kept, Space, [Next]_vars
  PROVE  Space'
<1>1. /\ owners \in SUBSET Holders /\ Leased \in SUBSET Blobs
      /\ Ready \in SUBSET Blobs /\ Evictable \in SUBSET Blobs
      /\ Rows \in SUBSET Blobs /\ Ready \subseteq Rows /\ files \in SUBSET Blobs
      /\ Capacity \in Nat
  BY StoreAssumption DEF TypeOK, Holders, Leased, Ready, Rows, Evictable
<1>2. BytesOf(Ready) \in Nat /\ ReservedBytes \in Nat
      /\ BytesOf(Ready) + ReservedBytes <= Capacity
  BY <1>1, Bytes, Reserved DEF Space, CapacityRespected
<1>3. CASE UNCHANGED <<catalog, reservations>> /\ files' \subseteq files
           /\ (phase' = phase \/ phase' = "down")
  <2>1. Ready' = Ready /\ Rows' = Rows
    BY <1>3 DEF Ready, Rows
  <2> QED BY <1>3, <2>1, ShrinkingFits
<1>5. ASSUME NEW h \in Blobs, Discard(h) PROVE Space'
  <2>1. CASE Throw
    BY <1>3, <2>1 DEF Throw, store
  <2>2. ASSUME NEW failed \in Failing({h}), Delete({h}, failed, owners),
               UNCHANGED <<reservations, phase>>
        PROVE  Space'
    <3>1. {h} \in SUBSET Blobs
      OBVIOUS
    <3>2. Ready' = Ready \ {h} /\ files' \ Rows' \subseteq files \ Rows
      BY <1>1, <2>2, <3>1, DeleteEffect
    <3> QED BY <2>2, <3>2, ShrinkingFits
  <2> QED BY <1>5, <2>1, <2>2 DEF Discard
<1>6. CASE Start
  <2>1. Ready' = Ready /\ Rows' = Rows /\ files' = files /\ phase = "down" /\ phase' = "rows"
    BY <1>6 DEF Start, Ready, Rows
  <2>2. Pending' = {}
    BY <1>6 DEF Start, Pending
  <2>3. ReservedBytes' = 0
    BY <2>2, SumEmpty DEF ReservedBytes, SumFunction
  <2>4. BytesOf(Ready)' = BytesOf(Ready)
        /\ BytesOf(Ready \cup (files \ Rows))' = BytesOf(Ready \cup (files \ Rows))
    BY <2>1 DEF BytesOf
  <2>5. CapacityRespected'
    BY <1>1, <1>2, <2>3, <2>4 DEF CapacityRespected
  <2> QED BY <2>1, <2>2, <2>4, <2>5 DEF Space, OrphansFit
<1>7. CASE NextLoop
  <2>1. UNCHANGED <<catalog, reservations, files>>
    BY <1>7 DEF NextLoop, store
  <2>2. Ready' = Ready /\ Rows' = Rows /\ Pending' = Pending /\ ReservedBytes' = ReservedBytes
    BY <2>1, ReservedSame DEF Ready, Rows
  <2>3. BytesOf(Ready)' = BytesOf(Ready)
        /\ BytesOf(Ready \cup (files \ Rows))' = BytesOf(Ready \cup (files \ Rows))
    BY <2>1, <2>2 DEF BytesOf
  <2>4. phase' = "up" => files \subseteq Rows
    <3>1. phase' = "up" => phase = "orphans" /\ todo = {}
      BY <1>7 DEF NextLoop
    <3> QED BY <1>1, <3>1 DEF Kept, LoopsAgree
  <2>5. phase \notin {"up", "down"}
    BY <1>7 DEF NextLoop
  <2> QED BY <2>1, <2>2, <2>3, <2>4, <2>5 DEF Space, OrphansFit, CapacityRespected
<1>8. ASSUME NEW h \in Blobs, ReconcileRow(h) PROVE Space'
  <2>1. CASE Discard(h)
    BY <1>5, <2>1
  <2>2. CASE UNCHANGED <<store, leases, phase, faults, crashes>>
    BY <1>3, <2>2 DEF store
  <2> QED BY <1>8, <2>1, <2>2 DEF ReconcileRow
<1>9. ASSUME NEW h \in Blobs, ReconcileTombstone(h) PROVE Space'
  BY <1>5, <1>9 DEF ReconcileTombstone
<1>10. ASSUME NEW h \in Blobs, AdoptOrphan(h) PROVE Space'
  <2>1. CASE Throw
    BY <1>3, <2>1 DEF Throw, store
  <2>2. CASE /\ catalog[h] = None
             /\ catalog' = [catalog EXCEPT ![h] =
                               [state |-> "ready", origin |-> "remote"]]
             /\ UNCHANGED <<reservations, files, phase>>
    <3>1. phase = "orphans" /\ h \in todo
      BY <1>10 DEF AdoptOrphan
    <3>2. h \in files \ Rows
      BY <2>2, <3>1 DEF Kept, LoopsAgree, Rows
    <3>3. [state |-> "ready", origin |-> "remote"] # None
      BY StoreAssumption DEF Row
    <3>4. Ready' = Ready \cup {h} /\ Rows' = Rows \cup {h}
      <4>1. \A b \in Blobs : catalog'[b] = IF b = h
                THEN [state |-> "ready", origin |-> "remote"] ELSE catalog[b]
        BY <2>2 DEF TypeOK
      <4> QED BY <3>3, <4>1 DEF Ready, Rows
    <3> DEFINE all == Ready \cup (files \ Rows)
    <3>5. all \in SUBSET Blobs /\ Ready' \in SUBSET all
          /\ Ready' \cup (files' \ Rows') = all
      BY <1>1, <2>2, <3>2, <3>4
    <3>6. BytesOf(all) <= Capacity /\ Pending = {}
      BY <3>1 DEF Space, OrphansFit
    <3>7. /\ BytesOf(all) \in Nat /\ BytesOf(Ready') \in Nat
          /\ BytesOf(Ready') <= BytesOf(all)
      BY <1>1, <3>5, Bytes
    <3>8. ReservedBytes' = 0 /\ Pending' = {}
      BY <2>2, <3>6, Reserved, ReservedSame
    <3>9. BytesOf(Ready)' = BytesOf(Ready')
          /\ BytesOf(Ready \cup (files \ Rows))' = BytesOf(all)
      BY <3>5 DEF BytesOf
    <3> HIDE DEF all
    <3>10. CapacityRespected'
      BY <1>1, <3>6, <3>7, <3>8, <3>9 DEF CapacityRespected
    <3> QED BY <2>2, <3>1, <3>6, <3>8, <3>9, <3>10 DEF Space, OrphansFit
  <2> QED BY <1>10, <2>1, <2>2 DEF AdoptOrphan
<1>11. ASSUME NEW a \in Request, ReserveFails(a) PROVE Space'
  <2>1. UNCHANGED <<catalog, reservations, phase>> /\ files' \subseteq files
    BY <1>11 DEF ReserveFails
  <2> QED BY <1>3, <2>1
<1>12. ASSUME NEW a \in Request, NEW t \in Tokens, Reserve(t, a) PROVE Space'
  <2>1. PICK gone \in SUBSET Evictable : \E failed \in Failing(gone) :
           StopsAt(gone, a.bytes) /\ Delete(gone, failed, owners)
    BY <1>12 DEF Reserve
  <2>2. PICK failed \in Failing(gone) : Delete(gone, failed, owners)
    BY <2>1
  <2>3. gone \in SUBSET Blobs
    BY <1>1
  <2>4. Ready' = Ready \ gone /\ files' \ Rows' \subseteq files \ Rows
    BY <1>1, <2>2, <2>3, DeleteEffect
  <2>5. a \in Admission
    BY RequestType
  <2>6. a.bytes \in Nat
    BY <2>5 DEF Admission
  <2>7. ReservedBytes' = ReservedBytes + a.bytes
    BY <1>12, <2>5, ReservedGrows DEF Reserve
  <2>8. BytesOf(Ready \ gone) + ReservedBytes + a.bytes <= Capacity
    BY <2>1 DEF StopsAt, Fits, UsageWithout
  <2>9. BytesOf(Ready)' = BytesOf(Ready \ gone)
    BY <2>4 DEF BytesOf
  <2>10. BytesOf(Ready \ gone) \in Nat
    BY <1>1, Bytes
  <2>11. CapacityRespected'
    BY <1>1, <1>2, <2>6, <2>7, <2>8, <2>9, <2>10 DEF CapacityRespected
  <2>12. phase = "up" /\ phase' = "up"
    BY <1>12 DEF Reserve
  <2> QED BY <2>4, <2>11, <2>12 DEF Space, OrphansFit
<1>13. ASSUME NEW t \in Tokens, Promote(t) PROVE Space'
  <2> DEFINE a == reservations[t]
             h == a.hash
             row == [state |-> "ready", origin |-> Merged(h, a.origin)]
  <2>1. a \in Admission
    BY <1>13 DEF Promote, TypeOK
  <2>2. h \in Blobs /\ a.origin \in {"write", "remote"} /\ a.bytes \in Nat
    BY <2>1 DEF Admission
  <2>3. row # None /\ row.state = "ready"
    BY <2>2, StoreAssumption DEF Merged, Row
  <2>4. /\ files' = files \cup {h}
        /\ catalog' = [catalog EXCEPT ![h] = row]
        /\ reservations' = [reservations EXCEPT ![t] = None]
        /\ phase = "up" /\ phase' = "up" /\ a # None
        /\ Size[h] <= a.bytes
    BY <1>13 DEF Promote
  <2>5. ReservedBytes = ReservedBytes' + a.bytes
    BY <2>4, ReservedShrinks
  <2>6. ReservedBytes' \in Nat
    <3>1. IsFiniteSet(Pending')
      BY StoreAssumption, FS_Subset DEF Pending
    <3>2. \A u \in Pending' : [v \in Pending' |-> reservations'[v].bytes][u] \in Nat
      BY DEF Pending, TypeOK, Admission
    <3> QED BY <3>1, <3>2, SumType DEF ReservedBytes, SumFunction
  <2> HIDE DEF a, h, row
  <2>7. Ready' = Ready \cup {h} /\ Rows' = Rows \cup {h}
    <3>1. \A b \in Blobs : catalog'[b] = IF b = h THEN row ELSE catalog[b]
      BY <2>4 DEF TypeOK
    <3> QED BY <2>2, <2>3, <3>1 DEF Ready, Rows
  <2>8. /\ BytesOf(Ready \cup {h}) <= BytesOf(Ready) + Size[h]
        /\ Size[h] \in Nat
    BY <1>1, <2>2, Bytes
  <2>9. BytesOf(Ready)' = BytesOf(Ready \cup {h})
    BY <2>7 DEF BytesOf
  <2>10. BytesOf(Ready \cup {h}) \in Nat
    BY <1>1, <2>2, Bytes
  <2>11. CapacityRespected'
    BY <1>1, <1>2, <2>2, <2>4, <2>5, <2>6, <2>8, <2>9, <2>10 DEF CapacityRespected
  <2> QED BY <2>4, <2>7, <2>11 DEF Space, OrphansFit
<1>14. ASSUME NEW t \in Tokens, AdmitFails(t) PROVE Space'
  <2>1. ReservedBytes = ReservedBytes' + reservations[t].bytes
    BY <1>14, ReservedShrinks DEF AdmitFails
  <2>2. reservations[t].bytes \in Nat
    BY <1>14, Reserved DEF AdmitFails, Pending
  <2>3. ReservedBytes' \in Nat
    <3>1. IsFiniteSet(Pending')
      BY StoreAssumption, FS_Subset DEF Pending
    <3>2. \A u \in Pending' : [v \in Pending' |-> reservations'[v].bytes][u] \in Nat
      BY DEF Pending, TypeOK, Admission
    <3> QED BY <3>1, <3>2, SumType DEF ReservedBytes, SumFunction
  <2>4. Ready' = Ready /\ Rows' = Rows /\ UNCHANGED <<files, phase>> /\ phase = "up"
    BY <1>14 DEF AdmitFails, Ready, Rows
  <2>5. BytesOf(Ready)' = BytesOf(Ready)
    BY <2>4 DEF BytesOf
  <2>6. CapacityRespected'
    BY <1>1, <1>2, <2>1, <2>2, <2>3, <2>5 DEF CapacityRespected
  <2> QED BY <2>4, <2>6 DEF Space, OrphansFit
<1>15. ASSUME NEW h \in Blobs, Lookup(h) PROVE Space'
  BY <1>3, <1>15 DEF Lookup, store
<1>16. ASSUME NEW h \in Blobs, ReleaseLease(h) PROVE Space'
  <2>1. {h} \in SUBSET Blobs /\ {b \in Blobs : leases'[b] > 0} \in SUBSET Blobs
    OBVIOUS
  <2> QED BY <1>1, <1>16, <2>1, SweepFits DEF ReleaseLease
<1>17. ASSUME NEW o \in Owners, NEW h \in Blobs, AcquireOwner(o, h) PROVE Space'
  BY <1>3, <1>17 DEF AcquireOwner
<1>18. ASSUME NEW o \in Owners, NEW S \in SUBSET Blobs, ReleaseOwner(o, S)
       PROVE  Space'
  <2> DEFINE released == {p \in owners : p[1] = o /\ p[2] \in S}
  <2>1. /\ owners \ released \in SUBSET Holders
        /\ {p[2] : p \in released} \in SUBSET Blobs
    BY <1>1 DEF Holders
  <2>2. DeleteIfUnownedWrite({p[2] : p \in released}, owners \ released, Leased)
        /\ UNCHANGED <<phase, reservations>>
    BY <1>18 DEF ReleaseOwner
  <2> HIDE DEF released
  <2> QED BY <1>1, <2>1, <2>2, SweepFits
<1>19. ASSUME NEW o1 \in Owners, NEW o2 \in Owners, NEW S \in SUBSET Blobs,
              TransferOwner(o1, o2, S)
       PROVE  Space'
  <2> DEFINE moved == {p \in owners : p[1] = o1 /\ p[2] \in S}
             held == (owners \ moved) \cup {<<o2, p[2]>> : p \in moved}
  <2>1. held \in SUBSET Holders
    BY <1>1 DEF Holders
  <2>2. DeleteIfUnownedWrite(Ready, held, Leased) /\ UNCHANGED <<phase, reservations>>
    BY <1>19 DEF TransferOwner
  <2> HIDE DEF held
  <2> QED BY <1>1, <2>1, <2>2, SweepFits
<1>20. ASSUME NEW r \in Routes, NEW o \in Owners, CommitRoute(r, o) PROVE Space'
  BY <1>3, <1>20 DEF CommitRoute
<1>21. CASE Crash
  BY <1>3, <1>21 DEF Crash, Down, store
<1>22. CASE CrashInReserve
  <2>1. UNCHANGED <<catalog, reservations>> /\ files' \subseteq files /\ phase' = "down"
    BY <1>22 DEF CrashInReserve, Down
  <2> QED BY <1>3, <2>1
<1>23. ASSUME NEW t \in Tokens, CrashInPromote(t) PROVE Space'
  <2> DEFINE a == reservations[t]
             h == a.hash
             f == [u \in Pending |-> reservations[u].bytes]
  <2>1. a \in Admission
    BY <1>23 DEF CrashInPromote, TypeOK
  <2>2. h \in Blobs /\ a.bytes \in Nat
    BY <2>1 DEF Admission
  <2>3. a.bytes <= ReservedBytes
    <3>1. t \in Pending /\ f[t] = a.bytes
      BY <1>23 DEF CrashInPromote, Pending
    <3>2. /\ IsFiniteSet(Pending) /\ ReservedBytes = SumFunctionOnSet(f, Pending)
          /\ \A u \in Pending : f[u] \in Nat
      BY Reserved
    <3> HIDE DEF f
    <3> DEFINE others == Pending \ {t}
    <3>3. /\ IsFiniteSet(others) /\ t \notin others
          /\ Pending = others \cup {t} /\ \A u \in others : f[u] \in Nat
      BY <3>1, <3>2, FS_Subset
    <3> HIDE DEF others
    <3>4. SumFunctionOnSet(f, Pending) = SumFunctionOnSet(f, others) + f[t]
      BY <3>1, <3>2, <3>3, SumAdd
    <3>5. SumFunctionOnSet(f, others) \in Nat
      BY <3>3, SumType
    <3> QED BY <2>2, <3>1, <3>2, <3>4, <3>5
  <2>4. /\ files' = files \cup {h} /\ phase = "up" /\ phase' = "down"
        /\ UNCHANGED <<catalog, reservations>> /\ Size[h] <= a.bytes
    BY <1>23 DEF CrashInPromote, Down
  <2> HIDE DEF a, h, f
  <2>5. Ready' = Ready /\ Rows' = Rows /\ ReservedBytes' = ReservedBytes
    BY <2>4, ReservedSame DEF Ready, Rows
  <2>6. BytesOf(Ready \cup {h}) <= BytesOf(Ready) + Size[h] /\ Size[h] \in Nat
    BY <1>1, <2>2, Bytes
  <2> DEFINE all == Ready \cup (files' \ Rows')
             most == Ready \cup {h}
  <2>7. files \subseteq Rows
    BY <2>4 DEF Space, OrphansFit
  <2>8. all \in SUBSET most /\ most \in SUBSET Blobs
    BY <1>1, <2>2, <2>4, <2>5, <2>7
  <2>9. BytesOf(all) \in Nat /\ BytesOf(most) \in Nat /\ BytesOf(all) <= BytesOf(most)
    BY <1>1, <2>8, Bytes
  <2>10. BytesOf(all) <= Capacity
    BY <1>1, <1>2, <2>2, <2>3, <2>4, <2>6, <2>9
  <2>11. BytesOf(Ready)' = BytesOf(Ready)
         /\ BytesOf(Ready \cup (files \ Rows))' = BytesOf(all)
    BY <2>5 DEF BytesOf
  <2> HIDE DEF all, most
  <2> QED BY <1>2, <2>4, <2>5, <2>10, <2>11 DEF Space, CapacityRespected, OrphansFit
<1>24. ASSUME NEW o \in Owners, NEW h \in Blobs, CrashInRelease(o, h) PROVE Space'
  <2>1. files' \subseteq files /\ phase' = "down" /\ UNCHANGED reservations
    BY <1>24 DEF CrashInRelease, Down
  <2>2. CASE catalog' = catalog
    BY <1>3, <2>1, <2>2
  <2>3. CASE /\ h \in Unwanted({h}, owners', Leased)
             /\ catalog' = [catalog EXCEPT ![h].state = "deleting"]
    <3>1. catalog[h] \in Row
      BY <2>3 DEF Unwanted, Rows, TypeOK
    <3>2. /\ [catalog[h] EXCEPT !.state = "deleting"] \in Row
          /\ [catalog[h] EXCEPT !.state = "deleting"].state = "deleting"
      BY <3>1 DEF Row
    <3>3. \A b \in Blobs : catalog'[b] = IF b = h
                THEN [catalog[h] EXCEPT !.state = "deleting"] ELSE catalog[b]
      BY <2>3 DEF TypeOK
    <3>4. Ready' \subseteq Ready /\ Rows \subseteq Rows'
      BY <3>2, <3>3, StoreAssumption DEF Ready, Rows
    <3> QED BY <2>1, <3>4, ShrinkingFits
  <2> QED BY <1>24, <2>2, <2>3 DEF CrashInRelease
<1>25. CASE UNCHANGED vars
  BY <1>3, <1>25 DEF vars
<1>26. Blobs \in SUBSET Blobs /\ \A h \in Blobs : {h} \in SUBSET Blobs
  OBVIOUS
<1> QED
  BY <1>6, <1>7, <1>8, <1>9, <1>10, <1>11, <1>12, <1>13, <1>14, <1>15, <1>16,
     <1>17, <1>18, <1>19, <1>20, <1>21, <1>22, <1>23, <1>24, <1>25, <1>26
     DEF Next, Reconcile, Serve, Fail, RecommitRoute

\* The ready blobs and the reservations under way never exceed capacityBytes,
\* whatever is evicted, fails to unlink, is readmitted or is adopted after a
\* crash.
THEOREM CapacityIsRespected == Spec => []CapacityRespected
<1>1. Init => Space
  <2>1. ASSUME Init
        PROVE Ready = {} /\ files \ Rows = {} /\ Pending = {} /\ phase = "up"
              /\ files = {}
    BY <2>1 DEF Init, Ready, Rows, Pending
  <2>2. Pending = {} => ReservedBytes = 0
    BY SumEmpty DEF ReservedBytes, SumFunction
  <2>3. BytesOf({}) = 0 /\ Capacity \in Nat
    BY SumEmpty, StoreAssumption DEF BytesOf
  <2> QED BY <2>1, <2>2, <2>3 DEF Space, CapacityRespected, OrphansFit
<1>2. TypeOK /\ Kept /\ TypeOK' /\ Space /\ [Next]_vars => Space'
  BY SpaceInductive
<1>3. Space => CapacityRespected
  BY DEF Space
<1> QED BY <1>1, <1>2, <1>3, KeptInvariant, PTL DEF Spec

=============================================================================
