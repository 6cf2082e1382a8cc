------------------------------ MODULE BlobStore ------------------------------
(***************************************************************************)
(* The content-addressed blob store shared by the read path (verified      *)
(* downloads) and the write path (uploads, writer runs, publication        *)
(* sagas): src/src/persistence/blob_store.ts.                              *)
(*                                                                         *)
(* A SQLite catalog records what the store holds, who owns it and how much *)
(* space is reserved; the bytes are files.  The two cannot change in one   *)
(* step: a file is linked before the row is committed and unlinked between *)
(* two statements, so a crash, a failed unlink or a rolled-back            *)
(* transaction leaves them apart until reconcile() runs in the next        *)
(* constructor.  Leases live in memory only.                               *)
(*                                                                         *)
(* Hashes are model values, a blob's size is the constant Size[h].  The    *)
(* order of last access is left open: any evictable blob may be evicted    *)
(* next.                                                                   *)
(***************************************************************************)
EXTENDS Naturals, FiniteSets, Functions

CONSTANTS
    Blobs,        \* content hashes
    Owners,       \* upload, writer-run, batch and saga owners
    Routes,       \* NAR routes; a route is also the owner "route:<route>"
    Tokens,       \* admissions that may be under way at once
    Size,         \* [Blobs -> Nat]
    Parts,        \* [Routes -> SUBSET Blobs]: the components of a route
    Reservable,   \* byte counts a download may reserve
    Capacity,     \* capacityBytes
    MaxLeases,    \* bound: open leases per blob
    MaxFaults,    \* bound: unlinks that fail
    MaxCrash,     \* bound: crashes
    None

Row == [state : {"ready", "deleting"}, origin : {"write", "remote", "mixed"}]
Admission == [hash : Blobs, bytes : Nat, origin : {"write", "remote"},
              owner : Owners \cup {None}]

ASSUME StoreAssumption ==
    /\ IsFiniteSet(Blobs) /\ IsFiniteSet(Tokens)
    /\ Size \in [Blobs -> Nat]
    /\ Parts \in [Routes -> SUBSET Blobs]
    /\ Reservable \subseteq Nat
    /\ Capacity \in Nat
    /\ Owners \cap Routes = {}
    /\ None \notin Owners \cup Routes
    /\ None \notin Row /\ None \notin Admission

VARIABLES
    catalog,      \* blob_store_catalog: hash -> None or [state, origin]
    owners,       \* blob_store_owners: {<<owner, hash>>}
    committed,    \* routes with rows in blob_store_route_components
    reservations, \* blob_store_reservations, with the admission that holds it
    tombstones,   \* blob_store_tombstones
    files,        \* hashes with a file under blobs/
    leases,       \* #leases: open leases per hash
    phase,        \* "down", the loops of reconcile(), or "up"
    todo,         \* what the running loop of reconcile() has left
    faults,       \* failed unlinks so far
    crashes       \* crashes so far

store == <<catalog, owners, committed, reservations, tombstones, files>>
vars == <<catalog, owners, committed, reservations, tombstones, files,
          leases, phase, todo, faults, crashes>>

----------------------------------------------------------------------------
(* Queries. *)

Rows == {h \in Blobs : catalog[h] # None}
Ready == {h \in Rows : catalog[h].state = "ready"}
Owned == {p[2] : p \in owners}
Leased == {h \in Blobs : leases[h] > 0}

\* Hashes a route component refers to: their row cannot be deleted, the
\* foreign key has no ON DELETE CASCADE.
Pinned == UNION {Parts[r] : r \in committed}

BytesOf(S) == SumFunctionOnSet(Size, S)
Pending == {t \in Tokens : reservations[t] # None}
ReservedBytes == SumFunction([t \in Pending |-> reservations[t].bytes])

\* usage(): ready bytes plus reserved bytes, as if `gone` were deleted.
UsageWithout(gone) == BytesOf(Ready \ gone) + ReservedBytes

\* Mutant: leases do not protect from eviction.
EvictableLeased ==
    {h \in Ready : catalog[h].origin \in {"remote", "mixed"} /\ h \notin Owned}

\* What #makeSpace may delete.
Evictable ==
    {h \in Ready : /\ catalog[h].origin \in {"remote", "mixed"}
                   /\ h \notin Owned
                   /\ h \notin Leased}

----------------------------------------------------------------------------
(* #delete: the row is marked, the file unlinked, the row deleted and its  *)
(* owner rows with it.  The unlink of the hashes in `failed` fails with    *)
(* another error than NotFound: they keep their file and get a tombstone.  *)
(* A hash that a route refers to loses its file but not its row, and is    *)
(* tombstoned too.  `held` are the owner rows in force.                    *)
Delete(gone, failed, held) ==
    LET erased == gone \ (failed \cup Pinned)
    IN  /\ catalog' = [h \in Blobs |->
                          IF h \in erased \/ catalog[h] = None THEN None
                          ELSE IF h \in gone
                          THEN [catalog[h] EXCEPT !.state = "deleting"]
                          ELSE catalog[h]]
        /\ owners' = {p \in held : p[2] \notin erased}
        /\ files' = files \ (gone \ failed)
        /\ tombstones' = (tombstones \ (erased \cap files))
                            \cup failed \cup (gone \cap Pinned)
        /\ faults' = faults + Cardinality(failed)

\* The unlinks that may fail among those of `gone`.
Failing(gone) ==
    {f \in SUBSET (gone \cap files) : faults + Cardinality(f) <= MaxFaults}

\* The rows #deleteIfUnownedWrite deletes among the candidates, once `held`
\* are the owner rows and `leased` the leased hashes.
Unwanted(candidates, held, leased) ==
    {h \in candidates \cap Rows :
        /\ catalog[h].origin = "write"
        /\ h \notin {p[2] : p \in held}
        /\ h \notin leased}

\* #deleteIfUnownedWrite for every candidate, after owner or lease changes.
DeleteIfUnownedWrite(candidates, held, leased) ==
    LET gone == Unwanted(candidates, held, leased)
    IN  \E failed \in Failing(gone) : Delete(gone, failed, held)

----------------------------------------------------------------------------
(* Admission: reserve() and then, after the body has been read, #promote.  *)

\* The requests the store receives: verified downloads without an owner, and
\* chunks and manifests of the write path with one.
Request ==
    [hash : Blobs, bytes : Reservable, origin : {"remote"}, owner : {None}]
        \cup {[hash |-> h, bytes |-> Size[h], origin |-> "write", owner |-> o] :
                 h \in Blobs, o \in Owners}

\* Mutant: live reservations are not charged.
FitsUnreserved(gone, bytes) == BytesOf(Ready \ gone) + bytes <= Capacity

Fits(gone, bytes) == UsageWithout(gone) + bytes <= Capacity

\* #makeSpace deletes one evictable blob after the other and stops at the
\* first point where the request fits.
StopsAt(gone, bytes) ==
    /\ Fits(gone, bytes)
    /\ gone # {} => \E last \in gone : ~Fits(gone \ {last}, bytes)

Reserve(t, a) ==
    /\ phase = "up"
    /\ reservations[t] = None
    /\ a.bytes <= Capacity
    /\ \E gone \in SUBSET Evictable : \E failed \in Failing(gone) :
          /\ StopsAt(gone, a.bytes)
          /\ Delete(gone, failed, owners)
    /\ reservations' = [reservations EXCEPT ![t] = a]
    /\ UNCHANGED <<committed, leases, phase, todo, crashes>>

\* Every evictable blob is gone and the request still does not fit: the
\* transaction rolls back, the unlinked files do not come back.
ReserveFails(a) ==
    /\ phase = "up"
    /\ a.bytes <= Capacity
    /\ ~Fits(Evictable, a.bytes)
    /\ Evictable # {}
    /\ \E failed \in Failing(Evictable) :
          /\ files' = files \ (Evictable \ failed)
          /\ faults' = faults + Cardinality(failed)
    /\ UNCHANGED <<catalog, owners, committed, reservations, tombstones,
                   leases, phase, todo, crashes>>

\* #promote: the file is linked unless it exists, then one transaction writes
\* the row, the owner and drops the reservation.  The tombstone, if there is
\* one, stays.
Merged(h, origin) ==
    IF catalog[h] # None /\ catalog[h].origin # origin THEN "mixed" ELSE origin

Promote(t) ==
    /\ phase = "up"
    /\ reservations[t] # None
    /\ LET a == reservations[t]
           h == a.hash
       IN  /\ Size[h] <= a.bytes
           /\ files' = files \cup {h}
           /\ catalog' = [catalog EXCEPT ![h] =
                 [state |-> "ready", origin |-> Merged(h, a.origin)]]
           /\ owners' = owners \cup ({a.owner} \ {None}) \X {h}
    /\ reservations' = [reservations EXCEPT ![t] = None]
    /\ UNCHANGED <<committed, tombstones, leases, phase, todo, faults, crashes>>

\* The body is too long, has another hash, breaks off or is aborted.
AdmitFails(t) ==
    /\ phase = "up"
    /\ reservations[t] # None
    /\ reservations' = [reservations EXCEPT ![t] = None]
    /\ UNCHANGED <<catalog, owners, committed, tombstones, files,
                   leases, phase, todo, faults, crashes>>

----------------------------------------------------------------------------
(* Leases and owners. *)

\* lookup() that finds the row and the file.
Lookup(h) ==
    /\ phase = "up"
    /\ h \in Ready \cap files
    /\ leases[h] < MaxLeases
    /\ leases' = [leases EXCEPT ![h] = @ + 1]
    /\ UNCHANGED <<store, phase, todo, faults, crashes>>

\* Mutant: the last lease of a write blob without an owner leaves it there.
ReleaseLeaseOnly(h) ==
    /\ phase = "up"
    /\ leases[h] > 0
    /\ leases' = [leases EXCEPT ![h] = @ - 1]
    /\ UNCHANGED <<store, phase, todo, faults, crashes>>

ReleaseLease(h) ==
    /\ phase = "up"
    /\ leases[h] > 0
    /\ leases' = [leases EXCEPT ![h] = @ - 1]
    /\ DeleteIfUnownedWrite({h}, owners, {b \in Blobs : leases'[b] > 0})
    /\ UNCHANGED <<committed, reservations, phase, todo, crashes>>

\* A writer run takes over blobs that something else holds: components a
\* route owns, and the base tree it materialised and leases.
AcquireOwner(o, h) ==
    /\ phase = "up"
    /\ h \in Ready
    /\ h \in Owned \cup Leased
    /\ owners' = owners \cup {<<o, h>>}
    /\ UNCHANGED <<catalog, committed, reservations, tombstones, files,
                   leases, phase, todo, faults, crashes>>

\* transferOwner() ends with a sweep over the ready rows.
TransferOwner(from, to, hashes) ==
    LET moved == {p \in owners : p[1] = from /\ p[2] \in hashes}
        held == (owners \ moved) \cup {<<to, p[2]>> : p \in moved}
    IN  /\ phase = "up"
        /\ from # to
        /\ DeleteIfUnownedWrite(Ready, held, Leased)
        /\ UNCHANGED <<committed, reservations, leases, phase, todo, crashes>>

ReleaseOwner(o, hashes) ==
    LET released == {p \in owners : p[1] = o /\ p[2] \in hashes}
    IN  /\ phase = "up"
        /\ released # {}
        /\ DeleteIfUnownedWrite({p[2] : p \in released}, owners \ released, Leased)
        /\ UNCHANGED <<committed, reservations, leases, phase, todo, crashes>>

\* commitRoute: the components pass from the upload to the route.  An upload
\* owns exactly the components it admitted.  A repeated upload of a committed
\* route only gives its owner up.
CommitRoute(r, o) ==
    /\ phase = "up"
    /\ r \notin committed
    /\ {p[2] : p \in {q \in owners : q[1] = o}} = Parts[r]
    /\ committed' = committed \cup {r}
    /\ owners' = {p \in owners : p[1] # o} \cup {r} \X Parts[r]
    /\ UNCHANGED <<catalog, reservations, tombstones, files,
                   leases, phase, todo, faults, crashes>>

RecommitRoute(r, o) ==
    /\ r \in committed
    /\ ReleaseOwner(o, Blobs)

----------------------------------------------------------------------------
(* Crashes.  Each statement outside a transaction is a place to die at.    *)

Down ==
    /\ crashes < MaxCrash
    /\ crashes' = crashes + 1
    /\ phase' = "down"
    /\ todo' = {}
    /\ leases' = [h \in Blobs |-> 0]

Crash ==
    /\ phase # "down"
    /\ Down
    /\ UNCHANGED <<store, faults>>

\* Between the link and the transaction of #promote, which a body that did
\* not fit its reservation never reaches.
CrashInPromote(t) ==
    /\ phase = "up"
    /\ reservations[t] # None
    /\ Size[reservations[t].hash] <= reservations[t].bytes
    /\ files' = files \cup {reservations[t].hash}
    /\ Down
    /\ UNCHANGED <<catalog, owners, committed, reservations, tombstones, faults>>

\* Inside the transaction of reserve(), after some unlinks.
CrashInReserve ==
    /\ phase = "up"
    /\ \E gone \in SUBSET Evictable \ {{}} : files' = files \ gone
    /\ Down
    /\ UNCHANGED <<catalog, owners, committed, reservations, tombstones, faults>>

\* After releaseOwner dropped the owner row: before #delete, after it marked
\* the row, or after it unlinked the file.
CrashInRelease(o, h) ==
    /\ phase = "up"
    /\ <<o, h>> \in owners
    /\ owners' = owners \ {<<o, h>>}
    /\ \/ UNCHANGED <<catalog, files>>
       \/ /\ h \in Unwanted({h}, owners', Leased)
          /\ catalog' = [catalog EXCEPT ![h].state = "deleting"]
          /\ files' \in {files, files \ {h}}
    /\ Down
    /\ UNCHANGED <<committed, reservations, tombstones, faults>>

----------------------------------------------------------------------------
(* reconcile(), from the constructor: three loops, one entry at a time.  A *)
(* statement that violates a constraint throws out of the constructor.     *)

Start ==
    /\ phase = "down"
    /\ reservations' = [t \in Tokens |-> None]
    /\ phase' = "rows"
    /\ todo' = Rows
    /\ UNCHANGED <<catalog, owners, committed, tombstones, files,
                   leases, faults, crashes>>

Throw ==
    /\ phase' = "down"
    /\ todo' = {}
    /\ UNCHANGED <<store, leases, faults, crashes>>

\* #delete of one hash while reconciling.  Without a file the row is deleted
\* at once, which the foreign key of a route component forbids.
Discard(h) ==
    \/ /\ h \notin files
       /\ h \in Pinned
       /\ Throw
    \/ /\ h \in files \/ h \notin Pinned
       /\ \E failed \in Failing({h}) : Delete({h}, failed, owners)
       /\ todo' = todo \ {h}
       /\ UNCHANGED <<committed, reservations, leases, phase, crashes>>

\* Mutant: the download cache is dropped at start-up.
ReconcileRowDropsDownloads(h) ==
    /\ phase = "rows"
    /\ h \in todo
    /\ \/ /\ h \notin files \/ catalog[h].state = "deleting"
             \/ catalog[h].origin # "write"
          /\ Discard(h)
       \/ /\ h \in files /\ catalog[h].state = "ready"
          /\ todo' = todo \ {h}
          /\ UNCHANGED <<store, leases, phase, faults, crashes>>

ReconcileRow(h) ==
    /\ phase = "rows"
    /\ h \in todo
    /\ \/ /\ h \notin files \/ catalog[h].state = "deleting"
          /\ Discard(h)
       \/ /\ h \in files /\ catalog[h].state = "ready"
          /\ todo' = todo \ {h}
          /\ UNCHANGED <<store, leases, phase, faults, crashes>>

ReconcileTombstone(h) ==
    /\ phase = "tombstones"
    /\ h \in todo
    /\ Discard(h)

\* A file without a ready row is hashed and adopted as a download.
AdoptOrphan(h) ==
    /\ phase = "orphans"
    /\ h \in todo
    /\ \/ /\ catalog[h] # None
          /\ Throw
       \/ /\ catalog[h] = None
          /\ catalog' = [catalog EXCEPT ![h] =
                            [state |-> "ready", origin |-> "remote"]]
          /\ todo' = todo \ {h}
          /\ UNCHANGED <<owners, committed, reservations, tombstones, files,
                         leases, phase, faults, crashes>>

\* Mutant: a row marked for deletion hides its file from the last loop.
NextLoopSkipsRows ==
    /\ todo = {}
    /\ \/ phase = "rows" /\ phase' = "tombstones" /\ todo' = tombstones
       \/ phase = "tombstones" /\ phase' = "orphans" /\ todo' = files \ Rows
       \/ phase = "orphans" /\ phase' = "up" /\ todo' = {}
    /\ UNCHANGED <<store, leases, faults, crashes>>

NextLoop ==
    /\ todo = {}
    /\ \/ phase = "rows" /\ phase' = "tombstones" /\ todo' = tombstones
       \/ phase = "tombstones" /\ phase' = "orphans" /\ todo' = files \ Ready
       \/ phase = "orphans" /\ phase' = "up" /\ todo' = {}
    /\ UNCHANGED <<store, leases, faults, crashes>>

Init ==
    /\ catalog = [h \in Blobs |-> None]
    /\ owners = {}
    /\ committed = {}
    /\ reservations = [t \in Tokens |-> None]
    /\ tombstones = {}
    /\ files = {}
    /\ leases = [h \in Blobs |-> 0]
    /\ phase = "up"
    /\ todo = {}
    /\ faults = 0
    /\ crashes = 0

Reconcile ==
    \/ Start
    \/ NextLoop
    \/ \E h \in Blobs : ReconcileRow(h) \/ ReconcileTombstone(h) \/ AdoptOrphan(h)

Serve ==
    \/ \E a \in Request : ReserveFails(a) \/ \E t \in Tokens : Reserve(t, a)
    \/ \E t \in Tokens : Promote(t) \/ AdmitFails(t)
    \/ \E h \in Blobs : Lookup(h) \/ ReleaseLease(h)
    \/ \E o \in Owners, h \in Blobs :
          AcquireOwner(o, h) \/ ReleaseOwner(o, {h})
    \/ \E o \in Owners : ReleaseOwner(o, Blobs)
    \/ \E o1, o2 \in Owners, S \in SUBSET Blobs : TransferOwner(o1, o2, S)
    \/ \E r \in Routes, o \in Owners : CommitRoute(r, o) \/ RecommitRoute(r, o)

Fail ==
    \/ Crash
    \/ CrashInReserve
    \/ \E t \in Tokens : CrashInPromote(t)
    \/ \E o \in Owners, h \in Blobs : CrashInRelease(o, h)

Next == Reconcile \/ Serve \/ Fail

Spec == Init /\ [][Next]_vars

----------------------------------------------------------------------------
(* Properties. *)

\* The tables and the memory of the store have their types; in particular a
\* lease that is released twice never takes the counter of #leases below zero.
TypeOK ==
    /\ catalog \in [Blobs -> Row \cup {None}]
    /\ owners \subseteq (Owners \cup Routes) \X Blobs
    /\ committed \subseteq Routes
    /\ reservations \in [Tokens -> Admission \cup {None}]
    /\ tombstones \subseteq Blobs
    /\ files \subseteq Blobs
    /\ leases \in [Blobs -> Nat]
    /\ phase \in {"down", "rows", "tombstones", "orphans", "up"}
    /\ todo \subseteq Blobs
    /\ faults \in Nat
    /\ crashes \in Nat

\* Capacity: the ready bytes and the live reservations never exceed
\* capacityBytes, through evictions, failed unlinks, rollbacks, readmission of
\* a blob marked for deletion and the adoption of orphans after a crash.
CapacityRespected == BytesOf(Ready) + ReservedBytes <= Capacity

\* An open lease (BlobLease.open reads the path) always has its file and its
\* ready row: no eviction, owner release or sweep takes a blob being read.
LeasedIsReadable == Leased \subseteq Ready \cap files

\* While the store is up, a blob some owner holds is ready and on disk, so
\* what recordPending and the uploader find owned can be read; a tombstone
\* is the one exception.
OwnedIsReadable ==
    phase = "up" => Owned \ tombstones \subseteq Ready \cap files

\* A blob that somebody reads or owns is never evicted, swept or lost, in any
\* interleaving of reservations, failing unlinks and crashes.
KeptIsReadable == LeasedIsReadable /\ OwnedIsReadable

\* Write-origin bytes nobody owns or reads are deleted at once or tombstoned:
\* #deleteIfUnownedWrite runs wherever the last holder can disappear.
NoWriteGarbage ==
    crashes = 0 =>
        \A h \in Ready : catalog[h].origin = "write" => h \in Owned \cup Leased

\* reconcile() never takes a blob away from an owner that holds it across the
\* restart, unless an earlier unlink of that blob failed.
RestartKeepsOwned ==
    [][phase # "up" => \A p \in owners : p[2] \in tombstones \/ p \in owners']_vars

\* Whatever a crash left behind, the store that comes up agrees with the
\* directory: the ready rows are exactly the files.
ReconcileAgrees == [][phase # "up" /\ phase' = "up" => Ready' = files']_vars
=============================================================================
