----------------------------- MODULE Publication -----------------------------
(***************************************************************************)
(* The publication loop: PublicationBatchScheduler builds frozen batches,  *)
(* PublicationCoordinator drives the active saga through upload, signature,*)
(* relay acknowledgement, commit and admission, and the process crashes,   *)
(* shuts down and restarts.  All actors share one thread: a step of        *)
(* another actor happens only while the coordinator is at an await.        *)
(***************************************************************************)
EXTENDS PublicationTables

CONSTANTS
  DestinationLists,  \* server lists blossomServers() may return
  Concurrency,       \* retry.concurrency
  Lifetime,          \* lifetimeSeconds, in model time units
  OwnConfigured,     \* is the own identity one of the configured caches?
  MaxTime,           \* bound: clock
  MaxCrash           \* bound: crashes and shutdowns

ASSUME PublicationAssumption ==
  /\ DestinationLists \subseteq SUBSET Servers
  /\ Concurrency \in Nat \ {0} /\ Lifetime \in Nat \ {0}
  /\ OwnConfigured \in BOOLEAN
  /\ MaxTime \in Nat /\ MaxCrash \in Nat

VARIABLES
  up,          \* is the process running with the write path active?
  pc,          \* where the coordinator's #run is
  template,    \* the event it asked the signer for
  acked,       \* relays that acknowledged the last publish call
  worker,      \* per server in #replicateInitial: "queued", "active", "late"
               \* (its last call returned after the attempt was decided), "idle"
  left,        \* inventory a worker has not processed yet
  bad,         \* servers that refused a blob in this attempt
  cancelled,   \* #replicaAbort was aborted by a newer batch
  round,       \* relays whose repair #repair awaits
  stray,       \* repairs that outlived a failed #repair
  queue,       \* batches waiting in the scheduler's serial chain
  pruning,     \* was a publication admitted since the process started?
  stored,      \* state.sqlite: the accepted own event (durable)
  loaded,      \* own events in the EventStore
  current,     \* the selector's snapshot for the own identity
  now,         \* wall clock
  held,        \* blobs each server really stores
  announced,   \* events handed to relays
  crashes      \* crashes and shutdowns so far

uploads  == <<worker, left, bad, cancelled>>
repairs  == <<round, stray>>
run      == <<template, acked, uploads, repairs>>
selector == <<stored, loaded, current>>
world    == <<now, held, announced, crashes>>
vars     == <<tables, up, pc, run, queue, pruning, selector, world>>

\* Points at which #run holds the thread; everywhere else it is awaiting.
Holding == {"claim", "ensure", "stage", "ack", "commit", "accept", "mark"}
Waiting == {"idle", "assert", "authorize", "replicate", "sign", "publish",
            "repair", "repairing"}

Yielded == up /\ pc \in Waiting
Running(l) == up /\ pc = l

\* The tables and the memory of the loop have their types; batch ids handed out
\* by the window and by refreshes stay within their ranges.
TypeOK ==
  /\ TablesTypeOK
  /\ up \in BOOLEAN
  /\ pc \in Holding \cup Waiting
  /\ template \in Event \cup {None}
  /\ acked \subseteq Relays
  /\ worker \in [Servers -> {"idle", "queued", "active", "late"}]
  /\ left \in [Servers -> SUBSET Hashes]
  /\ bad \subseteq Servers
  /\ cancelled \in BOOLEAN
  /\ round \subseteq Relays
  /\ stray \subseteq Batches \X Relays
  /\ queue \subseteq Batches
  /\ pruning \in BOOLEAN
  /\ stored \in Event \cup {None}
  /\ loaded \subseteq Event
  /\ current \in Event \cup {None}
  /\ now \in Nat
  /\ held \in [Servers -> SUBSET Hashes]
  /\ announced \subseteq Event
  /\ crashes \in Nat

NoWorkers == [s \in Servers |-> "idle"]
NothingLeft == [s \in Servers |-> {}]

Init ==
  /\ TablesInit
  /\ up = TRUE /\ pc = "idle"
  /\ template = None /\ acked = {} /\ worker = NoWorkers
  /\ left = NothingLeft /\ bad = {} /\ cancelled = FALSE
  /\ round = {} /\ stray = {}
  /\ queue = {} /\ pruning = FALSE
  /\ stored = None /\ loaded = {} /\ current = None
  /\ now = 1 /\ held = NothingLeft /\ announced = {} /\ crashes = 0

-----------------------------------------------------------------------------
(* PublicationBatchScheduler *)

\* The overlay commits its next generation and the daemon marks it dirty.
Dirty ==
  /\ Yielded
  /\ CommitOverlay
  /\ MarkPublicationDirty(generation + 1)
  /\ UNCHANGED <<up, pc, run, queue, pruning, selector, world>>

\* #fire: freeze the window, cancel the upload of the older root, enqueue.
Fire ==
  /\ Yielded
  /\ ClaimPublicationBatch
  /\ cancelled' = (cancelled \/ pc \in {"authorize", "replicate"})
  /\ queue' = queue \cup {lastBatch + 1}
  /\ UNCHANGED <<up, pc, template, acked, worker, left, bad, repairs, pruning,
                 selector, world>>

\* #enqueue: builds run one at a time in id order.
FirstInQueue(b) == b \in queue /\ \A c \in queue : b <= c

Build(b) ==
  /\ Yielded /\ FirstInQueue(b)
  /\ RecordPending(b)
  /\ queue' = queue \ {b}
  /\ UNCHANGED <<up, pc, run, pruning, selector, world>>

BuildFails(b) ==
  /\ Yielded /\ FirstInQueue(b)
  /\ MarkBatchFailed(b)
  /\ queue' = queue \ {b}
  /\ UNCHANGED <<up, pc, run, pruning, selector, world>>

-----------------------------------------------------------------------------
(* PublicationCoordinator: claiming *)

\* tick: #run begins by asking the signer for its identity (authorize), with
\* neither a timeout nor a signal.
Tick ==
  /\ Running("idle")
  /\ pc' = "assert"
  /\ UNCHANGED <<tables, up, run, queue, pruning, selector, world>>

\* The signer confirms it: an expiring publication is refreshed before #run
\* claims.
Asserted ==
  /\ Running("assert")
  /\ pc' = "claim"
  /\ IF RefreshDue(now) THEN BeginPublicationRefresh(now) ELSE UNCHANGED tables
  /\ UNCHANGED <<up, run, queue, pruning, selector, world>>

\* It throws or reports another account, at the start of #run or of #repair.
AssertionFails ==
  /\ Running("assert") \/ Running("repair")
  /\ pc' = "idle"
  /\ UNCHANGED <<tables, up, run, queue, pruning, selector, world>>

Claim(D) ==
  /\ Running("claim")
  /\ \E c \in Credits :
       \/ ClaimReplace(c, D) /\ pc' = "ensure"
       \/ /\ Supersedes /\ (ClaimConflict \/ D = {})
          /\ ClaimKeep(c) /\ pc' = "idle"
       \/ /\ ~Supersedes
          /\ ClaimKeep(c) /\ pc' = IF saga = None THEN "idle" ELSE "ensure"
  /\ UNCHANGED <<up, run, queue, pruning, selector, world>>

\* Replica rows exist now; replicate unless a server is complete already.
\* Only rows that were never attempted are eligible.
Ensure ==
  LET eligible == {s \in Servers : Ensured(saga.dest)[s] = "pending"}
      upload   == saga.complete = None /\ eligible # {}
  IN  /\ Running("ensure")
      /\ EnsureEndpointWork(saga.dest)
      /\ pc' = IF saga.complete # None THEN "stage"
               ELSE IF upload THEN "authorize" ELSE "idle"
      /\ worker' = [s \in Servers |-> IF upload /\ s \in eligible THEN "queued"
                                      ELSE "idle"]
      /\ left' = [s \in Servers |-> IF upload /\ s \in eligible
                                    THEN sagaBlobs[saga.batch] ELSE {}]
      /\ bad' = {} /\ cancelled' = FALSE
      /\ UNCHANGED <<up, template, acked, repairs, queue, pruning, selector,
                     world>>

-----------------------------------------------------------------------------
(* Replication: #replicateInitial *)

Eligible  == {s \in Servers : worker[s] # "idle"}
Queued    == {s \in Servers : worker[s] = "queued"}
Active    == {s \in Servers : worker[s] \in {"active", "late"}}
Completed == saga.complete # None

\* prepareReplicaAuthorization succeeds: the workers take their first servers.
Authorized ==
  /\ Running("authorize") /\ ~cancelled
  /\ \E S \in SUBSET Queued :
       /\ Cardinality(S) = Concurrency \/ S = Queued
       /\ Cardinality(S) <= Concurrency
       /\ worker' = [s \in Servers |-> IF s \in S THEN "active" ELSE worker[s]]
  /\ pc' = "replicate"
  /\ UNCHANGED <<tables, up, template, acked, left, bad, cancelled, repairs,
                 queue, pruning, selector, world>>

EndAttempt ==
  /\ worker' = NoWorkers /\ left' = NothingLeft /\ bad' = {}
  /\ cancelled' = FALSE
  /\ UNCHANGED <<template, acked, repairs>>

\* It fails or is cancelled: every eligible server is exhausted.
AuthorizationFails ==
  /\ Running("authorize")
  /\ ExhaustReplicas(Eligible)
  /\ pc' = "idle" /\ EndAttempt
  /\ UNCHANGED <<up, queue, pruning, selector, world>>

Decided == cancelled \/ Completed

\* One replica.prove call returned, which asks the signer first, again without
\* a timeout.  A call that was already under way when
\* the attempt was decided still counts, but it is the server's last.
ProveBlob(s, h, ok) ==
  /\ Running("replicate")
  /\ worker[s] = "active" /\ h \in left[s]
  /\ left' = [left EXCEPT ![s] = @ \ {h}]
  /\ worker' = [worker EXCEPT ![s] = IF Decided THEN "late" ELSE @]
  /\ IF ok
     THEN /\ RecordBlobProof(s, h)
          /\ held' = [held EXCEPT ![s] = @ \cup {h}]
          /\ UNCHANGED bad
     ELSE /\ bad' = bad \cup {s}
          /\ UNCHANGED <<tables, held>>
  /\ UNCHANGED <<up, pc, template, acked, cancelled, repairs, queue, pruning,
                 selector, now, announced, crashes>>

\* A server of this attempt whose worker waits for nothing.
Busy(s) == worker[s] \in {"active", "late"}

\* The worker of s moves on to a queued server, if it may.
TakeNext(s, may) ==
  \/ /\ ~may \/ Queued = {}
     /\ worker' = [worker EXCEPT ![s] = "idle"]
  \/ /\ may
     /\ \E n \in Queued :
          worker' = [worker EXCEPT ![s] = "idle", ![n] = "active"]

\* A worker that fails after cancellation runs through the rest of the queue,
\* failing each server without a call.
Doomed(s) == {s} \cup IF cancelled /\ ~Completed THEN Queued ELSE {}

FailServer(s) ==
  /\ ExhaustReplicas(Doomed(s))
  /\ \/ /\ Decided
        /\ worker' = [n \in Servers |-> IF n \in Doomed(s) THEN "idle"
                                        ELSE worker[n]]
     \/ ~Decided /\ TakeNext(s, TRUE)

\* The worker of s has processed the whole inventory.
FinishServer(s) ==
  /\ Running("replicate") /\ Busy(s) /\ left[s] = {}
  /\ \/ /\ s \notin bad /\ ServerComplete(s)
        /\ RecordCompleteServer(s)
        /\ TakeNext(s, FALSE)
     \/ /\ s \in bad \/ ~ServerComplete(s)
        /\ FailServer(s)
  /\ UNCHANGED <<up, pc, template, acked, left, bad, cancelled, repairs, queue,
                 pruning, selector, world>>

\* The call of s was aborted by a complete sibling or by a newer batch.
AbortServer(s) ==
  /\ Running("replicate") /\ Busy(s) /\ left[s] # {}
  /\ Decided
  /\ FailServer(s)
  /\ UNCHANGED <<up, pc, template, acked, left, bad, cancelled, repairs, queue,
                 pruning, selector, world>>

\* All workers returned.
EndReplication ==
  /\ Running("replicate") /\ Active = {}
  /\ pc' = IF Completed THEN "stage" ELSE "idle"
  /\ EndAttempt
  /\ UNCHANGED <<tables, up, queue, pruning, selector, world>>

-----------------------------------------------------------------------------
(* Signing, announcing, committing *)

\* created_at: the wall clock, or one more than the newest archived event.
SignedHistory == {h \in history : h.signed # None}

CreatedAt(t) ==
  /\ t >= now
  /\ \A h \in SignedHistory : t > h.signed.created

Stage ==
  /\ Running("stage")
  /\ \/ /\ saga.signed = None
        /\ \E t \in {now} \cup {h.signed.created + 1 : h \in SignedHistory} :
             /\ CreatedAt(t)
             /\ template' = [batch |-> saga.batch, gen |-> saga.gen,
                             dest |-> saga.dest, created |-> t,
                             exp |-> now + Lifetime]
        /\ pc' = "sign"
        /\ UNCHANGED <<tables, announced>>
     \/ /\ saga.signed # None
        /\ EnsureEndpointWork(Relays)
        /\ IF saga.ack THEN pc' = "commit" /\ UNCHANGED announced
           ELSE pc' = "publish" /\ announced' = announced \cup {saga.signed}
        /\ UNCHANGED template
  /\ UNCHANGED <<up, acked, uploads, repairs, queue, pruning, selector, now, held,
                 crashes>>

Unexpired(e) == e.exp > now

\* Mutants: the event is announced before it is recorded; the event is
\* selected as soon as it is signed.
SignedUnrecorded ==
  /\ Running("sign") /\ Unexpired(template)
  /\ announced' = announced \cup {template}
  /\ pc' = "idle" /\ template' = None
  /\ UNCHANGED <<tables, up, acked, uploads, repairs, queue, pruning, selector,
                 now, held, crashes>>

SignedSelectsEarly ==
  /\ Running("sign") /\ Unexpired(template)
  /\ RecordSigned(template)
  /\ pc' = "stage" /\ template' = None
  /\ stored' = template /\ loaded' = loaded \cup {template}
  /\ current' = template
  /\ UNCHANGED <<up, acked, uploads, repairs, queue, pruning, world>>

\* The signer answered with the exact template and it still validates.
Signed ==
  /\ Running("sign") /\ Unexpired(template)
  /\ RecordSigned(template)
  /\ pc' = "stage" /\ template' = None
  /\ UNCHANGED <<up, acked, uploads, repairs, queue, pruning, selector, world>>

SigningFails ==
  /\ Running("sign")
  /\ pc' = "idle" /\ template' = None
  /\ UNCHANGED <<tables, up, acked, uploads, repairs, queue, pruning, selector,
                 world>>

\* publishRelays returned; the relays in ok acknowledged.
Published(ok) ==
  /\ Running("publish")
  /\ RecordRelayOutcomes(saga.batch, Relays \cap Open, ok)
  /\ acked' = ok
  /\ pc' = IF ok = {} THEN "idle" ELSE "ack"
  /\ UNCHANGED <<up, template, uploads, repairs, queue, pruning, selector, world>>

\* It threw: nothing is recorded.
PublishFails ==
  /\ Running("publish")
  /\ pc' = "idle"
  /\ UNCHANGED <<tables, up, run, queue, pruning, selector, world>>

Acknowledge ==
  /\ Running("ack")
  /\ RecordRelayAcknowledgement
  /\ pc' = "commit" /\ acked' = {}
  /\ UNCHANGED <<up, template, uploads, repairs, queue, pruning, selector, world>>

Commit ==
  /\ Running("commit")
  /\ CommitPublication
  /\ pc' = "accept"
  /\ UNCHANGED <<up, run, queue, pruning, selector, world>>

-----------------------------------------------------------------------------
(* The selector, for the own identity *)

Newest(E) == IF E = {} THEN {None}
             ELSE {e \in E : \A f \in E : f.created <= e.created}

Selectable(E) == {e \in E : Unexpired(e)}

\* accept: validate, then the durable newest-wins rule, then the EventStore.
Acceptable(e) ==
  Unexpired(e) /\ (stored # None => e.created > stored.created)

Accept(e) ==
  IF Acceptable(e)
  THEN /\ stored' = e
       /\ loaded' = loaded \cup {e}
       /\ current' \in Newest(Selectable(loaded'))
  ELSE UNCHANGED selector

\* The event comes back on the daemon's own relay subscription.
Echo(e) ==
  /\ Yielded /\ e \in announced
  /\ Acceptable(e)
  /\ Accept(e)
  /\ UNCHANGED <<tables, up, pc, run, queue, pruning, world>>

\* The expiration timer recomputes the selection.
ExpireSelection ==
  /\ Yielded /\ current # None /\ ~Unexpired(current)
  /\ current' \in Newest(Selectable(loaded))
  /\ UNCHANGED <<tables, up, pc, run, queue, pruning, stored, loaded, world>>

\* Mutant: admission waits for the event to come back from a relay.
AdmitWaitsForEcho ==
  /\ Running("accept")
  /\ pc' = IF saga.admitted THEN "repair"
           ELSE IF current = saga.signed THEN "mark" ELSE "idle"
  /\ UNCHANGED <<tables, up, run, queue, pruning, selector, world>>

\* Admission of the committed event; it throws when the event is not selected.
Admit ==
  /\ Running("accept")
  /\ IF saga.admitted
     THEN pc' = "repair" /\ UNCHANGED selector
     ELSE /\ IF current = saga.signed THEN UNCHANGED selector
             ELSE Accept(saga.signed)
          /\ pc' = IF current' = saga.signed THEN "mark" ELSE "idle"
  /\ UNCHANGED <<tables, up, run, queue, pruning, world>>

Mark ==
  /\ Running("mark")
  /\ MarkPublicationAdmitted
  /\ pc' = "repair" /\ pruning' = TRUE
  /\ UNCHANGED <<up, run, queue, selector, world>>

\* A reader of an overlay generation releases its lease: what is
\* archived is pruned again, wherever #run is.
ReleaseLease ==
  /\ Yielded /\ pruning
  /\ PruneAdmitted
  /\ UNCHANGED <<saga, up, pc, run, queue, pruning, selector, world>>

-----------------------------------------------------------------------------
(* Relay repair *)

\* The signer confirms the identity once more (authorize) and claimDueWork takes
\* up to Concurrency rows that are due; which are due is
\* left open, because backoff times are abstracted.
Repair ==
  /\ Running("repair")
  /\ \E R \in SUBSET DueRelays :
       /\ Cardinality(R) <= Concurrency
       /\ ClaimDueWork(R)
       /\ round' = R
       /\ pc' = IF R = {} THEN "idle" ELSE "repairing"
  /\ UNCHANGED <<up, template, acked, uploads, stray, queue, pruning, selector,
                 world>>

Repaired(r, ok) ==
  /\ Running("repairing") /\ r \in round
  /\ RecordRelayOutcomes(saga.batch, {r}, IF ok THEN {r} ELSE {})
  /\ round' = round \ {r}
  /\ pc' = IF round' = {} THEN "idle" ELSE "repairing"
  /\ UNCHANGED <<up, template, acked, uploads, stray, queue, pruning, selector,
                 world>>

\* The publish call of r timed out or threw: Promise.all rejects, r keeps its
\* claim and the other repairs go on with nobody waiting for them.
RepairThrows(r) ==
  /\ Running("repairing") /\ r \in round
  /\ round' = {}
  /\ stray' = stray \cup {<<saga.batch, q>> : q \in round \ {r}}
  /\ pc' = "idle"
  /\ UNCHANGED <<tables, up, template, acked, uploads, queue, pruning, selector,
                 world>>

\* Mutant: the claim is not checked.
StrayEndsUnchecked(b, r) ==
  /\ Yielded /\ <<b, r>> \in stray
  /\ stray' = stray \ {<<b, r>>}
  /\ \E ok \in SUBSET {r} : RecordRelayOutcomes(b, {r}, ok)
  /\ UNCHANGED <<up, pc, template, acked, uploads, round, queue, pruning,
                 selector, world>>

\* A stray repair ends: its outcome is recorded unless it threw too or the
\* claim was lost, the row having gone with its saga.
StrayEnds(b, r) ==
  /\ Yielded /\ <<b, r>> \in stray
  /\ stray' = stray \ {<<b, r>>}
  /\ \/ /\ work[b][r] = "claimed"
        /\ \E ok \in SUBSET {r} : RecordRelayOutcomes(b, {r}, ok)
     \/ UNCHANGED tables
  /\ UNCHANGED <<up, pc, template, acked, uploads, round, queue, pruning,
                 selector, world>>

-----------------------------------------------------------------------------
(* Crash, shutdown, restart, time *)

Stop ==
  /\ up /\ crashes < MaxCrash
  /\ up' = FALSE /\ pc' = "idle" /\ crashes' = crashes + 1
  /\ template' = None /\ acked' = {} /\ worker' = NoWorkers
  /\ left' = NothingLeft /\ bad' = {} /\ cancelled' = FALSE
  /\ round' = {} /\ stray' = {}
  /\ queue' = {} /\ pruning' = FALSE /\ loaded' = {} /\ current' = None
  /\ UNCHANGED <<stored, now, held, announced>>

Crash == Stop /\ UNCHANGED tables

\* Graceful shutdown: the coordinator is aborted, which exhausts the servers
\* of a running attempt and restores claimed rows; a running build fails.
Close ==
  /\ Yielded /\ Stop
  /\ work' = Restored(IF Eligible = {} THEN work
                      ELSE [work EXCEPT ![saga.batch] = Exhausted(Eligible)])
  /\ batches' = [b \in Batches |-> IF b \in queue /\ Buildable(b)
                                   THEN [gen |-> batches[b].gen, status |-> "failed"]
                                   ELSE batches[b]]
  /\ UNCHANGED <<generation, lastBatch, window, pending, saga, history, sagaBlobs,
                 proofs, attempts, owners>>

\* Mutant: the stored selection is not loaded.
RestartForgetsSelection ==
  /\ ~up /\ up' = TRUE
  /\ work' = Restored(work)
  /\ batches' = [b \in Batches |-> IF Buildable(b)
                                   THEN [gen |-> batches[b].gen, status |-> "failed"]
                                   ELSE batches[b]]
  /\ queue' = {b \in Batches : Buildable(b)}
  /\ loaded' = {} /\ current' = None
  /\ UNCHANGED <<generation, lastBatch, window, pending, saga, history, sagaBlobs,
                 proofs, attempts, owners, pc, run, pruning, stored, world>>

\* #activate, the scheduler's constructor and the selector's initial load.
Restart ==
  /\ ~up /\ up' = TRUE
  /\ work' = Restored(work)
  /\ batches' = [b \in Batches |-> IF Buildable(b)
                                   THEN [gen |-> batches[b].gen, status |-> "failed"]
                                   ELSE batches[b]]
  /\ queue' = {b \in Batches : Buildable(b)}
  /\ loaded' = IF OwnConfigured THEN Selectable({stored} \ {None}) ELSE {}
  /\ current' \in Newest(loaded')
  /\ UNCHANGED <<generation, lastBatch, window, pending, saga, history, sagaBlobs,
                 proofs, attempts, owners, pc, run, pruning, stored, world>>

TimePasses ==
  /\ ~up \/ Yielded
  /\ now < MaxTime /\ now' = now + 1
  /\ UNCHANGED <<tables, up, pc, run, queue, pruning, selector, held, announced,
                 crashes>>

-----------------------------------------------------------------------------
Scheduler ==
  \/ Dirty \/ Fire
  \/ \E b \in Batches : Build(b) \/ BuildFails(b)

Replicating ==
  \/ Authorized \/ AuthorizationFails \/ EndReplication
  \/ \E s \in Servers : FinishServer(s) \/ AbortServer(s)
  \/ \E s \in Servers, h \in Hashes, ok \in BOOLEAN : ProveBlob(s, h, ok)

Announcing ==
  \/ Stage \/ Signed \/ SigningFails \/ PublishFails
  \/ \E ok \in SUBSET Relays : Published(ok)
  \/ Acknowledge \/ Commit \/ Admit \/ Mark
  \/ Repair
  \/ \E r \in Relays : RepairThrows(r) \/ \E ok \in BOOLEAN : Repaired(r, ok)

Coordinator ==
  \/ Tick \/ Asserted \/ AssertionFails \/ Ensure
  \/ \E D \in DestinationLists : Claim(D)
  \/ Replicating \/ Announcing

Environment ==
  \/ \E b \in Batches, r \in Relays : StrayEnds(b, r)
  \/ \E e \in announced : Echo(e)
  \/ ReleaseLease \/ ExpireSelection \/ Crash \/ Close \/ Restart \/ TimePasses

Next == Scheduler \/ Coordinator \/ Environment

Spec == Init /\ [][Next]_vars

\* #run awaits the signer with neither a timeout nor a signal: in authorize, or
\* in the call of replica.prove of some worker.
AtSigner ==
  \/ pc \in {"assert", "repair"}
  \/ pc = "replicate" /\ \E s \in Servers : worker[s] = "active" /\ left[s] # {}

\* What the code gives by itself: the coordinator goes on wherever it does not
\* wait for the signer (the other awaits are under #bounded), its timer always
\* schedules another tick, window timers fire, builds end. The process is
\* restarted.
Fairness ==
  /\ WF_vars(~AtSigner /\ Coordinator)
  /\ WF_vars(Fire)
  /\ WF_vars(\E b \in Batches : Build(b) \/ BuildFails(b))
  /\ WF_vars(Restart)

FairSpec == Spec /\ Fairness

-----------------------------------------------------------------------------
(* Properties *)

\* The availability gate: whatever event was handed to a relay, some server
\* it names stores every blob of the announced tree, however the saga got
\* there (upload, credit of an earlier saga, refresh, restart).
AnnouncedIsAvailable ==
  \A e \in announced : \E s \in e.dest : Tree[e.gen] \subseteq held[s]

\* A crash between signing and acknowledgement never makes the daemon
\* announce a second event for the same candidate.
OneEventPerCandidate ==
  \A e, f \in announced : e.batch = f.batch /\ e.gen = f.gen => e = f

\* The events in the saga tables. A refresh leaves out the event of a saga
\* whose id the history holds already (INSERT OR IGNORE), and a claim drops the
\* row it replaces (INSERT OR REPLACE); both happen only after a refresh took
\* an id that a batch carries as well.
Remembered == {row.signed : row \in history \cup ({saga} \ {None})}

\* Relays and readers keep the newest created_at: no two announced events tie,
\* although created_at is computed before the signer's await, and a newer event
\* carries a generation at least as new, although failed batches are rebuilt out
\* of order. created_at is computed from the saga tables, so it holds among the
\* events that are still in them.
GenerationsAdvance ==
  \A e, f \in announced \cap Remembered :
    e # f => \/ e.created < f.created /\ e.gen <= f.gen
             \/ f.created < e.created /\ f.gen <= e.gen

\* Every blob the pending candidate still has to upload is kept alive by its
\* owner row until the saga's owner row replaces it.
PendingIsOwned ==
  pending # None => Tree[pending.gen] \subseteq owners["batch"][pending.batch]

\* Endpoint work belongs to the active saga: archiving, refreshing and
\* pruning leave no row that a later tick would act on.
NoOrphanWork ==
  \A b \in Batches :
    (saga = None \/ b # saga.batch) => work[b] = NoWork

\* The live saga uploads and proves exactly the inventory of its own
\* candidate, and owns it: no row of another batch is mixed in or pruned.
\* Pruning is keyed by batch id, so two sagas are excepted: one whose id an
\* archived saga carries as well, and the refresh of such a saga, which is
\* complete before it starts and whose predecessor is not in the tables.
InventoryIntact ==
  (/\ saga # None /\ \A row \in history : row.batch # saga.batch
   /\ saga.complete = None \/ announced \subseteq Remembered) =>
    /\ sagaBlobs[saga.batch] = Tree[saga.gen]
    /\ Tree[saga.gen] \subseteq owners["saga"][saga.batch]

\* From the build to the end of the saga, what is still to be uploaded is kept
\* by an owner row of the candidate or of the saga, through claims, refreshes,
\* pruning and crashes.
UploadsAreOwned == PendingIsOwned /\ InventoryIntact

\* A signed saga is replaced or refreshed only after its admission, and its
\* event never changes before (batch cancellation included).
SignedIsKept ==
  [][(saga # None /\ saga.signed # None /\ ~saga.admitted) =>
       saga' # None /\ saga'.batch = saga.batch /\ saga'.signed = saga.signed]_vars

\* The loop implements PublicationGate: an event reaches a relay only when a
\* named server stores its tree, and the own selection was announced before.
Gate == INSTANCE PublicationGate WITH selected <- current

ImplementsGate == Gate!GateSpec

\* Conditions on the world, which no code enforces. The signer returns from each
\* question, and asked again and again it confirms the identity; the server list
\* is not empty at every claim (it is while the signer is not ready); a relay
\* asked again and again says OK once.
SignerAnswers == WF_vars(AtSigner /\ Coordinator) /\ SF_vars(Asserted)
ServersAreListed == SF_vars(\E D \in DestinationLists \ {{}} : Claim(D))
RelaysAnswer == SF_vars(\E ok \in SUBSET Relays \ {{}} : Published(ok))

\* Where the code stays for ever: the event of the active saga has expired before
\* its admission, or the process stopped before it and does not load its own
\* selection.
Stuck ==
  /\ saga # None /\ saga.signed # None /\ ~saga.admitted
  /\ ~Unexpired(saga.signed) \/ (crashes > 0 /\ ~OwnConfigured)

\* If the signer answers, what a relay acknowledged becomes the daemon's own
\* selection, through crashes and shutdowns between commit and admission, unless
\* it expires first or the own identity is not a configured cache.
CommittedIsAdmitted ==
  SignerAnswers =>
    ((saga # None /\ saga.committed) ~> (saga # None /\ saga.admitted) \/ Stuck)

\* If the signer and a relay answer and servers are listed, no candidate starves
\* behind the active saga: it becomes the saga, or a newer one takes its place.
\* Only a restart may lose it, by rebuilding an older failed batch over the
\* pending row, and only a stuck saga, or a refresh that took its batch id, keeps
\* it waiting.
CandidateIsClaimed ==
  SignerAnswers /\ ServersAreListed /\ RelaysAnswer =>
    \A g \in Generations :
      (pending # None /\ pending.gen = g) ~>
        \/ saga # None /\ saga.gen >= g
        \/ pending # None /\ pending.gen > g
        \/ crashes > 0
        \/ Stuck \/ ClaimConflict

-----------------------------------------------------------------------------
(* The invariant behind the gate *)

\* A possession proof is true, and about the inventory of its batch.
ProofsAreTrue ==
  \A b \in Batches, s \in Servers, h \in Hashes :
    <<s, h>> \in proofs[b] => h \in held[s] /\ h \in sagaBlobs[b]

\* Until a server is complete, the inventory covers the candidate's tree or
\* was pruned altogether.
InventoryCovers ==
  (saga # None /\ saga.complete = None) =>
    \/ Tree[saga.gen] \subseteq sagaBlobs[saga.batch]
    \/ sagaBlobs[saga.batch] = {}

\* The complete server of a saga is one of its destinations and stores it.
Sound(row) == row.complete # None =>
                /\ row.complete \in row.dest
                /\ Tree[row.gen] \subseteq held[row.complete]

CompleteIsSound ==
  /\ saga # None => Sound(saga)
  /\ \A row \in history : Sound(row)

\* The stages of a saga are reached in order.
StagesInOrder ==
  saga # None =>
    /\ saga.signed # None => /\ saga.complete # None
                             /\ saga.signed.gen = saga.gen
                             /\ saga.signed.dest = saga.dest
    /\ saga.ack => saga.signed # None /\ saga.signed \in announced
    /\ saga.committed => saga.ack
    /\ saga.admitted => saga.committed

\* What the coordinator knows at each point of #run.
PointsAgree ==
  /\ pc \notin {"idle", "assert", "claim"} => saga # None
  /\ pc \in {"stage", "sign"} => saga.complete # None
  /\ pc = "sign" => /\ template # None
                    /\ template.gen = saga.gen /\ template.dest = saga.dest
  /\ pc \in {"publish", "ack"} => saga.signed # None /\ saga.signed \in announced
  /\ pc \in {"commit", "accept", "mark", "repair", "repairing"} => saga.ack

\* Replica rows, and the workers that serve them, belong to the active saga.
ReplicaWorkIsOwn ==
  /\ \A b \in Batches, s \in Servers :
       work[b][s] # "absent" => saga # None /\ b = saga.batch /\ s \in saga.dest
  /\ \A s \in Servers :
       worker[s] # "idle" => pc \in {"authorize", "replicate"} /\ s \in saga.dest

\* The selector only knows announced events.
SelectionIsAnnounced ==
  /\ stored \in announced \cup {None}
  /\ loaded \subseteq announced
  /\ current \in announced \cup {None}

\* The availability gate as an inductive invariant: announced events are
\* available because proofs are true and every stage keeps what it relied on.
GateInvariant ==
  /\ ProofsAreTrue
  /\ InventoryCovers
  /\ CompleteIsSound
  /\ StagesInOrder
  /\ PointsAgree
  /\ ReplicaWorkIsOwn
  /\ SelectionIsAnnounced
  /\ AnnouncedIsAvailable

-----------------------------------------------------------------------------
(* The invariants behind the announced events and the inventory *)

\* Archived sagas are behind the active one: an older generation, or a smaller
\* id of the same.
HistoryIsOlder ==
  \A row \in history : /\ saga # None
                       /\ row.gen <= saga.gen
                       /\ row.gen = saga.gen => row.batch < saga.batch

\* The event of a row, and the template at the signer, are of its candidate.
OfItsCandidate(row) ==
  row.signed # None => row.signed.batch = row.batch /\ row.signed.gen = row.gen

EventsMatch ==
  /\ \A row \in history : OfItsCandidate(row)
  /\ saga # None => OfItsCandidate(saga)
  /\ pc = "sign" => /\ saga # None /\ saga.signed = None
                    /\ template.batch = saga.batch /\ template.gen = saga.gen

\* An announced event is the active saga's or that of an earlier candidate,
\* whose id is in the tables.
AnnouncedIsKnown ==
  \A e \in announced :
    /\ saga # None
    /\ e.gen <= saga.gen
    /\ e.gen = saga.gen => e = saga.signed \/ e.batch < saga.batch
    /\ e.batch = saga.batch \/ \E row \in history : row.batch = e.batch

\* created_at grows along the archived sagas and on to the active one.
NewestSigned(e) == \A row \in SignedHistory : row.signed.created < e.created

CreatedAdvances ==
  /\ pc = "sign" => NewestSigned(template)
  /\ saga # None /\ saga.signed # None => NewestSigned(saga.signed)
  /\ \A row, other \in SignedHistory :
       row # other =>
         \/ row.signed.created < other.signed.created /\ row.gen <= other.gen
         \/ other.signed.created < row.signed.created /\ other.gen <= row.gen

EventInvariant ==
  /\ HistoryIsOlder /\ EventsMatch /\ AnnouncedIsKnown /\ CreatedAdvances
  /\ OneEventPerCandidate

\* Inventory rows have the id of a saga.
InventoryIsKnown ==
  \A b \in Batches :
    sagaBlobs[b] # {} => \/ saga # None /\ b = saga.batch
                        \/ \E row \in history : row.batch = b

-----------------------------------------------------------------------------
(* What the documentation says and the code does not do *)

\* "Same-root expiration refresh ... never consumes or masks a newer pending
\* generation": a claim with a newer candidate installs it.
NewerCandidateReplacesAdmitted ==
  [][(Running("claim") /\ up' /\ saga # None /\ saga.admitted
        /\ pending # None /\ pending.gen > saga.gen)
       => saga'.gen = pending.gen]_vars

=============================================================================
