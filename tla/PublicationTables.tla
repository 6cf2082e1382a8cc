-------------------------- MODULE PublicationTables --------------------------
(***************************************************************************)
(* The publication tables of WriteRepository (write_repository.ts): the    *)
(* batch window, the frozen batches, the one pending candidate, the one    *)
(* active saga, the saga history, and the rows keyed by batch id that      *)
(* belong to them.  Every repository method is one SQLite transaction (or  *)
(* a fixed run of them without an await in between) and is one action      *)
(* here.  An action of this module frames every table; the variables of    *)
(* the running process belong to the module Publication.                   *)
(*                                                                         *)
(* Data abstraction.  A Hashtree is the set of blobs in its inventory:     *)
(* Tree[g] is the tree that a batch frozen at overlay generation g builds, *)
(* so two candidates have the same root exactly when their trees are       *)
(* equal.  Endpoint work is due at once: backoff times are abstracted.     *)
(***************************************************************************)
EXTENDS Integers, FiniteSets

CONSTANTS
  Servers,        \* Blossom servers
  Relays,         \* publication relays
  Hashes,         \* blob hashes
  Tree,           \* Tree[g]: inventory of the candidate of generation g
  MaxGeneration,  \* bound: overlay generations
  MaxBatch,       \* bound: batch ids
  MaxAttempts,    \* attempts after which relay work is exhausted
  RefreshLead,    \* refreshLeadSeconds, in model time units
  None            \* absent row, server or event

Generations == 1..MaxGeneration
Batches     == 1..MaxBatch
Targets     == Servers \cup Relays

ASSUME TablesAssumption ==
  /\ MaxGeneration \in Nat /\ MaxBatch \in Nat
  /\ MaxAttempts \in Nat \ {0} /\ RefreshLead \in Nat
  /\ Servers \cap Relays = {} /\ IsFiniteSet(Hashes)
  /\ Tree \in [Generations -> SUBSET Hashes]
  /\ \A g \in Generations : Tree[g] # {}

VARIABLES
  generation,  \* overlay_state.current_generation
  lastBatch,   \* AUTOINCREMENT sequence of publication_batches
  window,      \* publication_clock.generation, 0 when no window is open
  batches,     \* publication_batches by id
  pending,     \* pending_candidate (and its blobs, which are its tree)
  saga,        \* the row of publication_sagas
  history,     \* publication_saga_history
  sagaBlobs,   \* publication_saga_blobs by batch id
  proofs,      \* publication_blob_proofs by batch id
  work,        \* publication_endpoint_work by batch id and target
  attempts,    \* its attempts column, for relays
  owners       \* blob_store_owners "batch:<id>" and "saga:<id>"

windowTables == <<generation, lastBatch, window, batches>>
rowTables    == <<sagaBlobs, proofs, work, attempts>>
tables       == <<generation, lastBatch, window, batches, pending, saga, history,
                  sagaBlobs, proofs, work, attempts, owners>>

-----------------------------------------------------------------------------
(* Rows *)

Statuses == {"absent", "pending", "claimed", "retry", "complete", "exhausted"}

Event == [batch : Batches, gen : Generations, dest : SUBSET Servers,
          created : Nat, exp : Nat]

Batch == [gen : Generations, status : {"building", "failed", "pending"}]

Candidate == [batch : Batches, gen : Generations]

Saga == [batch : Batches, gen : Generations, dest : SUBSET Servers,
         complete : Servers \cup {None}, signed : Event \cup {None},
         ack : BOOLEAN, committed : BOOLEAN, admitted : BOOLEAN]

\* NULL is not a value of any column.
ASSUME NoneAssumption ==
  None \notin Saga /\ None \notin Event /\ None \notin Servers

NoWork == [t \in Targets |-> "absent"]

TablesTypeOK ==
  /\ generation \in 0..MaxGeneration
  /\ lastBatch \in 0..MaxBatch
  /\ window \in 0..MaxGeneration
  /\ batches \in [Batches -> Batch \cup {None}]
  /\ pending \in Candidate \cup {None}
  /\ saga \in Saga \cup {None}
  /\ history \subseteq Saga
  /\ sagaBlobs \in [Batches -> SUBSET Hashes]
  /\ proofs \in [Batches -> SUBSET (Servers \X Hashes)]
  /\ work \in [Batches -> [Targets -> Statuses]]
  /\ attempts \in [Batches -> [Relays -> Nat]]
  /\ owners \in [{"batch", "saga"} -> [Batches -> SUBSET Hashes]]

TablesInit ==
  /\ generation = 0
  /\ lastBatch = 0
  /\ window = 0
  /\ batches = [b \in Batches |-> None]
  /\ pending = None
  /\ saga = None
  /\ history = {}
  /\ sagaBlobs = [b \in Batches |-> {}]
  /\ proofs = [b \in Batches |-> {}]
  /\ work = [b \in Batches |-> NoWork]
  /\ attempts = [b \in Batches |-> [r \in Relays |-> 0]]
  /\ owners = [k \in {"batch", "saga"} |-> [b \in Batches |-> {}]]

-----------------------------------------------------------------------------
(* The batch window and the frozen batches *)

\* commitOverlay publishes the next overlay generation.
CommitOverlay ==
  /\ generation < MaxGeneration
  /\ generation' = generation + 1

\* Mutant: the window opens one generation too far.
MarkPublicationDirtyOffByOne(g) ==
  /\ window' = IF g > window THEN g + 1 ELSE window
  /\ UNCHANGED <<lastBatch, batches, pending, saga, history, rowTables, owners>>

\* markPublicationDirty: open the window or raise its generation.
MarkPublicationDirty(g) ==
  /\ window' = IF g > window THEN g ELSE window
  /\ UNCHANGED <<lastBatch, batches, pending, saga, history, rowTables, owners>>

\* claimPublicationBatch: freeze the window into a new batch.
ClaimPublicationBatch ==
  /\ window # 0
  /\ lastBatch < MaxBatch
  /\ lastBatch' = lastBatch + 1
  /\ batches' = [batches EXCEPT ![lastBatch + 1] =
                   [gen |-> window, status |-> "building"]]
  /\ window' = 0
  /\ UNCHANGED <<generation, pending, saga, history, rowTables, owners>>

\* publicationBatchFiles refuses a batch whose row is gone.
Buildable(b) == batches[b] # None /\ batches[b].status \in {"building", "failed"}

\* Mutant: the superseded candidate is read after the new one is written.
RecordPendingReadsLate(b) ==
  LET g == batches[b].gen
  IN  /\ Buildable(b)
      /\ pending' = [batch |-> b, gen |-> g]
      /\ batches' = [batches EXCEPT ![b] = [gen |-> g, status |-> "pending"]]
      /\ owners' = [owners EXCEPT !["batch"][b] = {}]
      /\ UNCHANGED <<generation, lastBatch, window, saga, history, rowTables>>

\* recordPending: replace the singleton candidate whatever its generation,
\* then drop the owner of the one it superseded.
RecordPending(b) ==
  LET g == batches[b].gen
      superseded == IF pending = None THEN {} ELSE {pending.batch} \ {b}
  IN  /\ Buildable(b)
      /\ pending' = [batch |-> b, gen |-> g]
      /\ batches' = [batches EXCEPT ![b] = [gen |-> g, status |-> "pending"]]
      /\ owners' = [owners EXCEPT !["batch"] =
                      [o \in Batches |->
                         IF o = b THEN @[o] \cup Tree[g]
                         ELSE IF o \in superseded THEN {} ELSE @[o]]]
      /\ UNCHANGED <<generation, lastBatch, window, saga, history, rowTables>>

\* markBatchFailed
MarkBatchFailed(b) ==
  /\ batches' = IF batches[b] = None THEN batches
                ELSE [batches EXCEPT ![b] = [gen |-> batches[b].gen,
                                             status |-> "failed"]]
  /\ UNCHANGED <<generation, lastBatch, window, pending, saga, history, rowTables,
                 owners>>

-----------------------------------------------------------------------------
(* Claiming and refreshing a saga *)

\* Mutant: a replica is credited without comparing roots.
PriorsAnyRoot ==
  IF saga # None /\ saga.complete = None /\ saga.signed = None
  THEN {h \in history : /\ h.committed /\ h.admitted
                        /\ h.complete # None /\ h.complete \in saga.dest}
  ELSE {}

\* Settled sagas of the same root whose complete server is a destination of
\* the active, unsigned, incomplete saga.
Priors ==
  IF saga # None /\ saga.complete = None /\ saga.signed = None
  THEN {h \in history : /\ h.committed /\ h.admitted
                        /\ h.complete # None /\ h.complete \in saga.dest
                        /\ Tree[h.gen] = Tree[saga.gen]}
  ELSE {}

\* The server claimPublication credits, from the newest such saga, or None.
Credits == IF Priors = {} THEN {None}
           ELSE {h.complete : h \in {k \in Priors :
                                      \A l \in Priors : l.batch <= k.batch}}

\* The active saga and its work after the credit c was written.
Credited(c) == IF c = None THEN saga ELSE [saga EXCEPT !.complete = c]

CreditedWork(c) ==
  IF c = None THEN work
  ELSE [work EXCEPT ![saga.batch] =
          [t \in Targets |->
             IF t \in Relays \/ work[saga.batch][t] = "absent"
             THEN work[saga.batch][t]
             ELSE IF t = c THEN "complete" ELSE "exhausted"]]

\* Mutants: generations are not compared; a signed saga is given up; an
\* unsigned saga is not.
SupersedesAnyGeneration ==
  /\ pending # None
  /\ saga # None => saga.admitted \/ saga.signed = None

SupersedesSigned ==
  /\ pending # None
  /\ saga # None => pending.gen > saga.gen

SupersedesAdmittedOnly ==
  /\ pending # None
  /\ saga # None => saga.admitted /\ pending.gen > saga.gen

\* A candidate takes over from no saga, an admitted one or an unsigned one,
\* the latter two only with a newer generation.
Supersedes ==
  /\ pending # None
  /\ saga # None => /\ saga.admitted \/ saga.signed = None
                    /\ pending.gen > saga.gen

NewSaga(c, D) ==
  [batch |-> c.batch, gen |-> c.gen, dest |-> D, complete |-> None,
   signed |-> None, ack |-> FALSE, committed |-> FALSE, admitted |-> FALSE]

\* INSERT OR REPLACE INTO publication_saga_history
Archive(row) == {h \in history : h.batch # row.batch} \cup {row}

\* claimPublication when the active saga stays, or when there is a candidate
\* but no destination: at most the credit is written.
ClaimKeep(c) ==
  /\ saga' = Credited(c)
  /\ work' = CreditedWork(c)
  /\ UNCHANGED <<windowTables, pending, history, sagaBlobs, proofs, attempts,
                 owners>>

\* The inventory rows of the candidate's id collide with rows already there:
\* the insert fails, the transaction rolls back and the tick throws.
ClaimConflict == Supersedes /\ sagaBlobs[pending.batch] \cap Tree[pending.gen] # {}

\* claimPublication when the candidate becomes the active saga.
ClaimReplace(c, D) ==
  LET b   == pending.batch
      old == IF saga = None THEN {} ELSE {saga.batch}
  IN  /\ Supersedes /\ ~ClaimConflict /\ D # {}
      /\ history' = IF saga = None THEN history ELSE Archive(Credited(c))
      /\ saga' = NewSaga(pending, D)
      /\ work' = [o \in Batches |-> IF o \in old THEN NoWork ELSE work[o]]
      /\ attempts' = [o \in Batches |-> IF o \in old THEN [r \in Relays |-> 0]
                                        ELSE attempts[o]]
      /\ sagaBlobs' = [sagaBlobs EXCEPT ![b] = @ \cup Tree[pending.gen]]
      /\ owners' = [k \in {"batch", "saga"} |->
                      [owners[k] EXCEPT ![b] =
                         IF k = "saga" THEN @ \cup owners["batch"][b] ELSE {}]]
      /\ pending' = None
      /\ UNCHANGED <<windowTables, proofs>>

\* MAX(batch_id) + 1 over the active saga and the history.
IsNextBatchId(n) ==
  /\ \A h \in history \cup {saga} : h.batch < n
  /\ \E h \in history \cup {saga} : n = h.batch + 1

\* beginPublicationRefresh: an admitted saga whose event is about to expire.
\* MaxBatch bounds the ids that refreshes may use.
RefreshDue(now) ==
  /\ saga # None /\ saga.committed /\ saga.admitted /\ saga.signed # None
  /\ saga.signed.exp <= now + RefreshLead
  /\ \E n \in Batches : IsNextBatchId(n)

\* The same candidate and its rows move to a new id, one above every saga id;
\* the published saga moves to the history unless its id is already there.
BeginPublicationRefresh(now) ==
  /\ RefreshDue(now)
  /\ \E n \in Batches :
       LET o == saga.batch
       IN  /\ IsNextBatchId(n)
           /\ history' = IF \E h \in history : h.batch = o THEN history
                         ELSE history \cup {saga}
           /\ saga' = [NewSaga([batch |-> n, gen |-> saga.gen], saga.dest)
                         EXCEPT !.complete = saga.complete]
           /\ sagaBlobs' = [sagaBlobs EXCEPT ![n] = sagaBlobs[o], ![o] = {}]
           /\ proofs' = [proofs EXCEPT ![n] = proofs[o], ![o] = {}]
           /\ work' = [work EXCEPT ![o] = NoWork, ![n] =
                         [t \in Targets |-> IF t \in Servers THEN work[o][t]
                                            ELSE "absent"]]
           /\ attempts' = [attempts EXCEPT ![o] = [r \in Relays |-> 0]]
           /\ owners' = [owners EXCEPT !["saga"][n] = @ \cup owners["saga"][o]]
           /\ UNCHANGED <<windowTables, pending>>

-----------------------------------------------------------------------------
(* Endpoint work of the active saga *)

SetWork(f) == work' = [work EXCEPT ![saga.batch] = f]

\* ensureEndpointWork: INSERT OR IGNORE pending rows for the targets.
Ensured(T) == [t \in Targets |-> IF t \in T /\ work[saga.batch][t] = "absent"
                                 THEN "pending" ELSE work[saga.batch][t]]

EnsureEndpointWork(T) ==
  /\ SetWork(Ensured(T))
  /\ UNCHANGED <<windowTables, pending, saga, history, sagaBlobs, proofs,
                 attempts, owners>>

\* #recordInitial gives an outcome to pending and claimed rows only.
Open == {t \in Targets : work[saga.batch][t] \in {"pending", "claimed"}}

\* A replica is exhausted at its first failure.
Exhausted(S) == [t \in Targets |-> IF t \in S \cap Open THEN "exhausted"
                                   ELSE work[saga.batch][t]]

ExhaustReplicas(S) ==
  /\ SetWork(Exhausted(S))
  /\ UNCHANGED <<windowTables, pending, saga, history, sagaBlobs, proofs,
                 attempts, owners>>

\* #outcome and recordEndpointOutcome of one more relay attempt.
RelayOutcome(b, r, ok) ==
  IF ok THEN "complete"
  ELSE IF attempts[b][r] + 1 >= MaxAttempts THEN "exhausted"
  ELSE "retry"

\* Outcomes for the relays in R, of which those in ok acknowledged.
RecordRelayOutcomes(b, R, ok) ==
  /\ work' = [work EXCEPT ![b] =
                [t \in Targets |-> IF t \in R THEN RelayOutcome(b, t, t \in ok)
                                  ELSE work[b][t]]]
  /\ attempts' = [attempts EXCEPT ![b] =
                    [r \in Relays |-> IF r \in R THEN attempts[b][r] + 1
                                     ELSE attempts[b][r]]]
  /\ UNCHANGED <<windowTables, pending, saga, history, sagaBlobs, proofs, owners>>

\* claimDueWork: relay rows only.
DueRelays == {r \in Relays : work[saga.batch][r] \in {"pending", "retry"}}

ClaimDueWork(R) ==
  /\ SetWork([t \in Targets |-> IF t \in R THEN "claimed" ELSE work[saga.batch][t]])
  /\ UNCHANGED <<windowTables, pending, saga, history, sagaBlobs, proofs,
                 attempts, owners>>

\* restoreClaimedWork, and the same statement in #activate.
Restored(w) == [b \in Batches |-> [t \in Targets |->
                  IF w[b][t] = "claimed" THEN "retry" ELSE w[b][t]]]

-----------------------------------------------------------------------------
(* Progress of the active saga *)

\* recordBlobProof
RecordBlobProof(s, h) ==
  /\ s \in saga.dest /\ h \in sagaBlobs[saga.batch]
  /\ proofs' = [proofs EXCEPT ![saga.batch] = @ \cup {<<s, h>>}]
  /\ UNCHANGED <<windowTables, pending, saga, history, sagaBlobs, work,
                 attempts, owners>>

\* serverComplete: as many proofs as inventory rows, and at least one.
ServerComplete(s) ==
  LET proven == {h \in Hashes : <<s, h>> \in proofs[saga.batch]}
  IN  /\ sagaBlobs[saga.batch] # {}
      /\ Cardinality(sagaBlobs[saga.batch]) = Cardinality(proven)

\* recordCompleteServer (COALESCE) and the outcome of the server's work row.
RecordCompleteServer(s) ==
  /\ saga' = IF saga.complete = None THEN [saga EXCEPT !.complete = s] ELSE saga
  /\ SetWork([work[saga.batch] EXCEPT ![s] = IF s \in Open THEN "complete" ELSE @])
  /\ UNCHANGED <<windowTables, pending, history, sagaBlobs, proofs, attempts,
                 owners>>

sagaOnly == <<windowTables, pending, history, rowTables, owners>>

\* recordSigned
RecordSigned(e) ==
  /\ saga.complete # None
  /\ saga' = IF saga.signed = None THEN [saga EXCEPT !.signed = e] ELSE saga
  /\ UNCHANGED sagaOnly

\* recordRelayAcknowledgement
RecordRelayAcknowledgement ==
  /\ saga.signed # None
  /\ saga' = [saga EXCEPT !.ack = TRUE]
  /\ UNCHANGED sagaOnly

\* commitPublication
CommitPublication ==
  /\ saga.ack
  /\ saga' = [saga EXCEPT !.committed = TRUE]
  /\ UNCHANGED sagaOnly

\* #pruneAdmitted: every archived saga without unfinished work loses the rows
\* of its batch id and its owner.
Releasable == {b \in Batches :
                 /\ \E h \in history : h.batch = b
                 /\ \A t \in Targets :
                      work[b][t] \in {"absent", "complete", "exhausted"}}

PruneAdmitted ==
  /\ batches' = [b \in Batches |-> IF b \in Releasable THEN None ELSE batches[b]]
  /\ sagaBlobs' = [b \in Batches |-> IF b \in Releasable THEN {} ELSE sagaBlobs[b]]
  /\ proofs' = [b \in Batches |-> IF b \in Releasable THEN {} ELSE proofs[b]]
  /\ work' = [b \in Batches |-> IF b \in Releasable THEN NoWork ELSE work[b]]
  /\ attempts' = [b \in Batches |-> IF b \in Releasable THEN [r \in Relays |-> 0]
                                    ELSE attempts[b]]
  /\ owners' = [owners EXCEPT !["saga"] =
                  [b \in Batches |-> IF b \in Releasable THEN {} ELSE @[b]]]
  /\ UNCHANGED <<generation, lastBatch, window, pending, history>>

\* markPublicationAdmitted
MarkPublicationAdmitted ==
  /\ saga.committed
  /\ saga' = [saga EXCEPT !.admitted = TRUE]
  /\ PruneAdmitted

=============================================================================
