------------------------------- MODULE ReadPath -------------------------------
(***************************************************************************)
(* The read path of one daemon: concurrent requests resolve a file of a    *)
(* published tree through the shared manifest cache and the shared blob    *)
(* fetcher (src/src/hashtree/manifest_cache.ts, hashtree/reader.ts,        *)
(* blossom/blob_fetcher.ts).                                               *)
(*                                                                         *)
(* Two levels share work between requests.  The manifest cache joins loads *)
(* of one (hash, source plan) and runs them under its own abort signal;    *)
(* the blob fetcher joins downloads of one hash whatever the plan, and     *)
(* runs them under the sources, budget and signal of whoever came first.   *)
(*                                                                         *)
(* A request reads one manifest and then the chunks it links, in order.    *)
(* The batch scheduler of the write path downloads the base of a build,    *)
(* manifest and chunks, through the same fetcher and not through the       *)
(* cache, under its own signal and budget.                                 *)
(* The blob store is what BlobStore promises: a blob that somebody leases  *)
(* stays, any other one may be evicted by somebody's reservation.          *)
(***************************************************************************)
EXTENDS Naturals, Sequences, FiniteSets, SequencesExt, FiniteSetsExt

CONSTANTS
    Requests,     \* concurrent HTTP requests
    Scheduler,    \* the batch scheduler, which materializes bases
    Manifests,    \* hashes of manifests
    Chunks,       \* hashes of raw chunks
    Sources,      \* Blossom origins
    Plans,        \* source plans: ordered sequences of sources
    Views,        \* who asks for what, and the base if the builds have one
    Body,         \* [Manifests -> Seq(Chunks)]
    Decoded,      \* [Manifests -> Nat]: decoded bytes
    MaxEntries, MaxDecodedBytes,  \* bounds of the manifest cache
    MaxAttempts,  \* sources tried per download
    None

Keys == Manifests \X Plans         \* inflight keys of the manifest cache
Blobs == Manifests \cup Chunks
Readers == Requests \cup {Scheduler}  \* who has a signal and a budget
Callers == Readers \cup Keys       \* who calls BlobFetcher.fetch

ASSUME ReadAssumption ==
    /\ Plans \subseteq Seq(Sources)
    /\ Views \subseteq [come : SUBSET Requests,
                        asks : [Requests -> Manifests \X Plans],
                        base : (Manifests \X Plans) \cup {None}]
    /\ Body \in [Manifests -> Seq(Chunks)]
    /\ Decoded \in [Manifests -> Nat \ {0}]
    /\ MaxEntries \in Nat \ {0}
    /\ MaxDecodedBytes \in Nat \ {0}
    /\ MaxAttempts \in Nat \ {0}
    /\ Manifests \cap Chunks = {}
    /\ Requests \cap (Manifests \X Plans) = {}
    /\ Scheduler \notin Requests \cup (Manifests \X Plans)

VARIABLES
    completed,    \* #completed: manifests, least recently used first
    decodedBytes, \* #decodedBytes
    load,         \* #inflight of the cache: key -> None or the request paying
    flight,       \* #inflight of the fetcher: hash -> None or the download
    wait,         \* caller -> None or the download it awaits
    holders,      \* {<<caller, hash>>}: open VerifiedBlobs
    stored,       \* hashes the blob store has
    quarantined,  \* quarantined origins
    req,          \* request -> its position
    base,         \* the scheduler's base and how much of it is held
    aborted,      \* requests whose client went away; the scheduler, closed
    expired,      \* readers whose budget is used up
    closed        \* the cache's abort signal

shared == <<completed, decodedBytes, load>>
fetcher == <<flight, wait, holders, stored, quarantined>>
vars == <<completed, decodedBytes, load, flight, wait, holders, stored,
          quarantined, req, base, aborted, expired, closed>>

\* A download: the sources left of its caller's plan, the number of tries, the
\* signal it obeys (None: the cache's) and the reader whose budget it debits.
Flight == [left : Seq(Sources), tries : Nat,
           signal : Readers \cup {None}, payer : Readers]

ASSUME NoneAssumption == None \notin Readers \cup Flight

Reasons == {"", "abort", "budget", "sources", "evicted", "decode", "closed"}
Wait == [hash : Blobs, stage : {"pending", "resolved", "rejected"},
         why : Reasons]

ASSUME NoWaitAssumption == None \notin Wait \cup Keys

\* What a request asks for and where it is; once it failed, why.
Position == [ask : Keys,
             pc : {"start", "manifest", "chunk", "stream", "done", "failed"},
             index : Nat, why : Reasons]

\* The base of the scheduler's builds, if the tree has one, and the next blob
\* of it to hold: 0 is its manifest, i its i-th chunk; beyond, the build runs.
Base == [ask : Keys \cup {None}, index : Nat]

Ended(r) == req[r].pc \in {"done", "failed"}
Target(r) == req[r].ask[1]
PlanOf(r) == req[r].ask[2]
KeyOf(r) == req[r].ask
Failed(p, why) == [p EXCEPT !.pc = "failed", !.why = why]

----------------------------------------------------------------------------
(* BlobFetcher.fetch: a lookup, or one download per hash that everyone     *)
(* joins.                                                                  *)

Held(c, h) == <<c, h>> \in holders

FetchHit(c, h) ==
    /\ h \in stored
    /\ holders' = holders \cup {<<c, h>>}
    /\ UNCHANGED <<flight, wait, stored, quarantined>>

FetchMiss(c, h, plan, signal, payer) ==
    /\ h \notin stored
    /\ flight' = IF flight[h] # None THEN flight
                 ELSE [flight EXCEPT ![h] =
                         [left |-> plan, tries |-> 0,
                          signal |-> signal, payer |-> payer]]
    /\ wait' = [wait EXCEPT ![c] =
                  [hash |-> h, stage |-> "pending", why |-> ""]]
    /\ UNCHANGED <<holders, stored, quarantined>>

\* The promise of the download settles for everyone who awaits it.
Settle(h, stage, why) ==
    /\ flight' = [flight EXCEPT ![h] = None]
    /\ wait' = [c \in Callers |->
                  IF wait[c] # None /\ wait[c].hash = h /\ wait[c].stage = "pending"
                  THEN [hash |-> h, stage |-> stage, why |-> why]
                  ELSE wait[c]]

\* Whether the abort signal of the download has fired.
Cancelled(f) == IF f.signal = None THEN closed ELSE f.signal \in aborted

Current(h) == Head(flight[h].left)
Attemptable(h) ==
    /\ flight[h] # None
    /\ flight[h].left # <<>>
    /\ flight[h].tries < MaxAttempts

\* The loop of #populate passes over a quarantined origin.
SkipQuarantined(h) ==
    /\ Attemptable(h)
    /\ Current(h) \in quarantined
    /\ flight' = [flight EXCEPT ![h].left = Tail(@)]
    /\ UNCHANGED <<shared, wait, holders, stored, quarantined, req, base, aborted,
                   expired, closed>>

\* beforeAttempt debits the payer's budget; the error leaves the loop.
OutOfBudget(h) ==
    /\ Attemptable(h)
    /\ Current(h) \notin quarantined
    /\ flight[h].payer \in expired
    /\ Settle(h, "rejected", "budget")
    /\ UNCHANGED <<shared, holders, stored, quarantined, req, base, aborted, expired,
                   closed>>

\* #attempt streams the body into the store under the hash; the lease it
\* takes is released before anyone who waits looks the blob up.
AttemptSucceeds(h) ==
    /\ Attemptable(h)
    /\ Current(h) \notin quarantined
    /\ flight[h].payer \notin expired
    /\ ~Cancelled(flight[h])
    /\ stored' = stored \cup {h}
    /\ Settle(h, "resolved", "")
    /\ UNCHANGED <<shared, holders, quarantined, req, base, aborted, expired, closed>>

\* A refused, broken, oversized or aborted transfer.  A body with another hash
\* quarantines its origin; so may an abort, which ends the pending read: a body
\* cut short has another hash.  An attempt may also fail after the blob was
\* admitted, which then stays in the store: a chunk shorter than its manifest
\* says, or a row beyond those that admit() looks through for its result.
AttemptFails(h) ==
    /\ Attemptable(h)
    /\ Current(h) \notin quarantined
    /\ flight[h].payer \notin expired
    /\ flight' = [flight EXCEPT ![h].left = Tail(@), ![h].tries = @ + 1]
    /\ \/ UNCHANGED <<stored, quarantined>>
       \/ /\ quarantined' = quarantined \cup {Current(h)}
          /\ UNCHANGED stored
       \/ /\ ~Cancelled(flight[h])
          /\ stored' = stored \cup {h}
          /\ UNCHANGED quarantined
    /\ UNCHANGED <<shared, wait, holders, req, base, aborted, expired, closed>>

\* Mutant: the download disappears without settling its promise.
UnavailableForgotten(h) ==
    /\ flight[h] # None
    /\ ~Attemptable(h)
    /\ flight' = [flight EXCEPT ![h] = None]
    /\ UNCHANGED <<shared, wait, holders, stored, quarantined, req, base, aborted,
                   expired, closed>>

\* Every source is used up: BlobUnavailable.
Unavailable(h) ==
    /\ flight[h] # None
    /\ ~Attemptable(h)
    /\ Settle(h, "rejected", IF Cancelled(flight[h]) THEN "abort" ELSE "sources")
    /\ UNCHANGED <<shared, holders, stored, quarantined, req, base, aborted, expired,
                   closed>>

\* The second lookup of fetch(): the blob may be gone again.
Resolved(c) ==
    /\ wait[c] # None /\ wait[c].stage = "resolved"
    /\ wait[c].hash \in stored
    /\ wait' = [wait EXCEPT ![c] = None]
    /\ holders' = holders \cup {<<c, wait[c].hash>>}
    /\ UNCHANGED <<flight, stored, quarantined>>

Rejected(c, why) ==
    /\ wait[c] # None
    /\ \/ wait[c].stage = "rejected" /\ why = wait[c].why
       \/ /\ wait[c].stage = "resolved" /\ wait[c].hash \notin stored
          /\ why = "evicted"
    /\ wait' = [wait EXCEPT ![c] = None]
    /\ UNCHANGED <<flight, holders, stored, quarantined>>

Dispose(c) ==
    /\ holders' = {p \in holders : p[1] # c}
    /\ UNCHANGED <<flight, wait, stored, quarantined>>

----------------------------------------------------------------------------
(* VerifiedManifestCache.load. *)

Without(s, m) ==
    IF m \in Range(s) THEN RemoveAt(s, CHOOSE i \in DOMAIN s : s[i] = m) ELSE s

BytesOf(s) ==
    LET sum[n \in 0..Len(s)] == IF n = 0 THEN 0 ELSE sum[n - 1] + Decoded[s[n]]
    IN  sum[Len(s)]

\* LruCache.set ejects the oldest entry beyond maxEntries; the loop after it
\* deletes the oldest entries until the counter fits.  onEject debits each.
Dropped(s, bytes) ==
    Min({n \in 0..Len(s) : /\ Len(s) - n <= MaxEntries
                           /\ bytes <= MaxDecodedBytes + BytesOf(SubSeq(s, 1, n))})

\* Mutant: a manifest loaded under two plans is counted twice.
RetainTwice(m) ==
    LET s == Without(completed, m) \o <<m>>
        bytes == decodedBytes + Decoded[m]
        n == Dropped(s, bytes)
    IN  /\ completed' = SubSeq(s, n + 1, Len(s))
        /\ decodedBytes' = bytes - BytesOf(SubSeq(s, 1, n))

Retain(m) ==
    LET prior == IF m \in Range(completed) THEN Decoded[m] ELSE 0
        s == Without(completed, m) \o <<m>>
        bytes == decodedBytes - prior + Decoded[m]
        n == Dropped(s, bytes)
    IN  /\ completed' = SubSeq(s, n + 1, Len(s))
        /\ decodedBytes' = bytes - BytesOf(SubSeq(s, 1, n))

\* A hit refreshes the entry; a load after close() is refused.
LoadHit(r) ==
    /\ req[r].pc = "start"
    /\ closed \/ Target(r) \in Range(completed)
    /\ req' = [req EXCEPT ![r] =
                 IF closed THEN Failed(@, "closed")
                 ELSE IF r \in aborted THEN Failed(@, "abort")
                 ELSE [@ EXCEPT !.pc = "chunk", !.index = 1]]
    /\ completed' = IF closed THEN completed
                    ELSE Without(completed, Target(r)) \o <<Target(r)>>
    /\ UNCHANGED <<decodedBytes, load, fetcher, base, aborted, expired, closed>>

\* A miss joins the load of its key or starts it: the loader fetches the
\* manifest under the cache's signal and the starter's budget.
LoadJoin(r) ==
    /\ req[r].pc = "start"
    /\ ~closed
    /\ Target(r) \notin Range(completed)
    /\ load[KeyOf(r)] # None
    /\ req' = [req EXCEPT ![r] = IF r \in aborted THEN Failed(@, "abort")
                                 ELSE [@ EXCEPT !.pc = "manifest"]]
    /\ UNCHANGED <<shared, fetcher, base, aborted, expired, closed>>

\* Mutant: the loader obeys the signal of the request that started it.
LoadStartCallerSignal(r) ==
    LET k == KeyOf(r)
    IN  /\ req[r].pc = "start"
        /\ ~closed
        /\ Target(r) \notin Range(completed)
        /\ load[k] = None
        /\ load' = [load EXCEPT ![k] = r]
        /\ FetchHit(k, Target(r)) \/ FetchMiss(k, Target(r), PlanOf(r), r, r)
        /\ req' = [req EXCEPT ![r] = IF r \in aborted THEN Failed(@, "abort")
                                     ELSE [@ EXCEPT !.pc = "manifest"]]
        /\ UNCHANGED <<completed, decodedBytes, base, aborted, expired, closed>>

LoadStart(r) ==
    LET k == KeyOf(r)
    IN  /\ req[r].pc = "start"
        /\ ~closed
        /\ Target(r) \notin Range(completed)
        /\ load[k] = None
        /\ load' = [load EXCEPT ![k] = r]
        /\ FetchHit(k, Target(r)) \/ FetchMiss(k, Target(r), PlanOf(r), None, r)
        /\ req' = [req EXCEPT ![r] = IF r \in aborted THEN Failed(@, "abort")
                                     ELSE [@ EXCEPT !.pc = "manifest"]]
        /\ UNCHANGED <<completed, decodedBytes, base, aborted, expired, closed>>

\* The waiters of a load; each settles with it unless its own signal fired.
Waiters(k) == {r \in Requests : req[r].pc = "manifest" /\ KeyOf(r) = k}

LoadFetched(k) ==
    /\ load[k] # None
    /\ Resolved(k)
    /\ UNCHANGED <<shared, req, base, aborted, expired, closed>>

LoadRejected(k) ==
    /\ load[k] # None
    /\ \E why \in Reasons :
          /\ Rejected(k, why)
          /\ req' = [r \in Requests |-> IF r \in Waiters(k) THEN Failed(req[r], why)
                                        ELSE req[r]]
    /\ load' = [load EXCEPT ![k] = None]
    /\ UNCHANGED <<completed, decodedBytes, base, aborted, expired, closed>>

\* The blob is read and decoded, and disposed of in either case.
LoadDecoded(k) ==
    /\ load[k] # None
    /\ Held(k, k[1])
    /\ Dispose(k)
    /\ load' = [load EXCEPT ![k] = None]
    /\ \/ /\ req' = [r \in Requests |-> IF r \in Waiters(k)
                                        THEN [req[r] EXCEPT !.pc = "chunk", !.index = 1]
                                        ELSE req[r]]
          /\ IF closed \/ Decoded[k[1]] > MaxDecodedBytes
             THEN UNCHANGED <<completed, decodedBytes>>
             ELSE Retain(k[1])
       \/ /\ req' = [r \in Requests |-> IF r \in Waiters(k) THEN Failed(req[r], "decode")
                                        ELSE req[r]]
          /\ UNCHANGED <<completed, decodedBytes>>
    /\ UNCHANGED <<base, aborted, expired, closed>>

\* close(): the signal fires, the loads settle, the entries are deleted.
Close ==
    /\ ~closed
    /\ closed' = TRUE
    /\ UNCHANGED <<shared, fetcher, req, base, aborted, expired>>

CloseEnds ==
    /\ closed
    /\ \A k \in Keys : load[k] = None
    /\ completed # <<>>
    /\ completed' = <<>>
    /\ decodedBytes' = decodedBytes - BytesOf(completed)
    /\ UNCHANGED <<load, fetcher, req, base, aborted, expired, closed>>

----------------------------------------------------------------------------
(* PathResolver: the body is streamed chunk by chunk, each under the       *)
(* request's own signal and budget.                                        *)

Chunk(r) == Body[Target(r)][req[r].index]

\* #rawStream of the next chunk, or the end of the file.
ChunkFetch(r) ==
    /\ req[r].pc = "chunk"
    /\ wait[r] = None
    /\ req[r].index <= Len(Body[Target(r)])
    /\ \/ /\ FetchHit(r, Chunk(r))
          /\ req' = [req EXCEPT ![r].pc = "stream"]
       \/ /\ FetchMiss(r, Chunk(r), PlanOf(r), r, r)
          /\ UNCHANGED req
    /\ UNCHANGED <<shared, base, aborted, expired, closed>>

Finish(r) ==
    /\ req[r].pc = "chunk"
    /\ req[r].index > Len(Body[Target(r)])
    /\ req' = [req EXCEPT ![r].pc = "done"]
    /\ UNCHANGED <<shared, fetcher, base, aborted, expired, closed>>

ChunkFetched(r) ==
    /\ Resolved(r)
    /\ req' = [req EXCEPT ![r].pc = "stream"]
    /\ UNCHANGED <<shared, base, aborted, expired, closed>>

ChunkRejected(r) ==
    /\ \E why \in Reasons :
          /\ Rejected(r, why)
          /\ req' = [req EXCEPT ![r] = Failed(@, why)]
    /\ UNCHANGED <<shared, base, aborted, expired, closed>>

\* Mutant: a stream that ends early keeps its blob.
ChunkStreamedKeepsBlob(r) ==
    /\ req[r].pc = "stream"
    /\ \/ /\ r \notin aborted
          /\ Dispose(r)
          /\ req' = [req EXCEPT ![r].pc = "chunk", ![r].index = @ + 1]
       \/ /\ r \in aborted
          /\ req' = [req EXCEPT ![r] = Failed(@, "abort")]
          /\ UNCHANGED fetcher
    /\ UNCHANGED <<shared, base, aborted, expired, closed>>

\* The chunk is read to its end; a cancelled or failed stream ends the request
\* and disposes of the blob as well.
ChunkStreamed(r) ==
    /\ req[r].pc = "stream"
    /\ Dispose(r)
    /\ \/ /\ r \notin aborted
          /\ req' = [req EXCEPT ![r].pc = "chunk", ![r].index = @ + 1]
       \/ /\ r \in aborted \cup expired
          /\ req' = [req EXCEPT ![r] =
                       Failed(@, IF r \in aborted THEN "abort" ELSE "budget")]
    /\ UNCHANGED <<shared, base, aborted, expired, closed>>

----------------------------------------------------------------------------
(* PathResolver.materialize, called by the batch scheduler for the base of *)
(* a build: manifest and chunks are fetched one after another and held     *)
(* until the build is over.                                                *)

Item(i) == IF i = 0 THEN base.ask[1] ELSE Body[base.ask[1]][i]
Whole == Len(Body[base.ask[1]])
BaseAwaits == wait[Scheduler] # None

\* Only the manifest is not asked for once the scheduler is closed.
BaseFetch ==
    /\ base.ask # None
    /\ ~BaseAwaits
    /\ base.index <= Whole
    /\ base.index = 0 => Scheduler \notin aborted
    /\ \/ /\ FetchHit(Scheduler, Item(base.index))
          /\ base' = [base EXCEPT !.index = @ + 1]
       \/ /\ FetchMiss(Scheduler, Item(base.index), base.ask[2], Scheduler, Scheduler)
          /\ UNCHANGED base
    /\ UNCHANGED <<shared, req, aborted, expired, closed>>

BaseFetched ==
    /\ Resolved(Scheduler)
    /\ base' = [base EXCEPT !.index = @ + 1]
    /\ UNCHANGED <<shared, req, aborted, expired, closed>>

\* What is held is disposed of, by the catch of materialize or at the end of
\* the build; the next base has a budget of its own.
BaseDisposed ==
    /\ holders' = {p \in holders : p[1] # Scheduler}
    /\ base' = [base EXCEPT !.index = 0]
    /\ expired' = expired \ {Scheduler}
    /\ UNCHANGED <<shared, flight, stored, quarantined, req, aborted, closed>>

BaseRejected ==
    /\ BaseAwaits
    /\ \/ wait[Scheduler].stage = "rejected"
       \/ wait[Scheduler].stage = "resolved" /\ wait[Scheduler].hash \notin stored
    /\ wait' = [wait EXCEPT ![Scheduler] = None]
    /\ BaseDisposed

\* The manifest is refused once it is read, or the build has ended.
BaseEnds ==
    /\ base.index > 0
    /\ ~BaseAwaits
    /\ base.index = 1 \/ base.index > Whole
    /\ UNCHANGED wait
    /\ BaseDisposed

\* close() of the scheduler, at the shutdown or after a failed activation; one
\* without a base shares nothing with the requests.
SchedulerCloses ==
    /\ base.ask # None
    /\ Scheduler \notin aborted
    /\ aborted' = aborted \cup {Scheduler}
    /\ UNCHANGED <<shared, fetcher, req, base, expired, closed>>

----------------------------------------------------------------------------
\* The client goes away: a waiter of the manifest cache is rejected at once,
\* a download it started is cancelled, one it joined runs on.
Abort(r) ==
    /\ r \notin aborted
    /\ ~Ended(r)
    /\ aborted' = aborted \cup {r}
    /\ req' = [req EXCEPT ![r] = IF @.pc = "manifest" THEN Failed(@, "abort")
                                 ELSE @]
    /\ UNCHANGED <<shared, fetcher, base, expired, closed>>

\* Deadline, attempts or bytes of a reader's budget are used up.
Expire(r) ==
    /\ r \notin expired
    /\ \/ r \in Requests /\ req[r].pc = "stream"
       \/ \E h \in Blobs : flight[h] # None /\ flight[h].payer = r
    /\ expired' = expired \cup {r}
    /\ UNCHANGED <<shared, fetcher, req, base, aborted, closed>>

\* Somebody's reservation evicts a blob nobody leases.
Evict(h) ==
    /\ h \in stored
    /\ \A p \in holders : p[2] # h
    /\ stored' = stored \ {h}
    /\ UNCHANGED <<shared, flight, wait, holders, quarantined, req, base, aborted,
                   expired, closed>>

Init ==
    /\ completed = <<>>
    /\ decodedBytes = 0
    /\ load = [k \in Keys |-> None]
    /\ flight = [h \in Blobs |-> None]
    /\ wait = [c \in Callers |-> None]
    /\ holders = {}
    /\ stored = {}
    /\ quarantined = {}
    /\ \E view \in Views :
          /\ req = [r \in Requests |->
                  [ask |-> view.asks[r], index |-> 0, why |-> "",
                   pc |-> IF r \in view.come THEN "start" ELSE "done"]]
          /\ base = [ask |-> view.base, index |-> 0]
    /\ aborted = {}
    /\ expired = {}
    /\ closed = FALSE

Download(h) ==
    \/ SkipQuarantined(h) \/ OutOfBudget(h)
    \/ AttemptSucceeds(h) \/ AttemptFails(h) \/ Unavailable(h)
Loading(k) == LoadFetched(k) \/ LoadRejected(k) \/ LoadDecoded(k)
Reading(r) ==
    \/ LoadHit(r) \/ LoadJoin(r) \/ LoadStart(r)
    \/ ChunkFetch(r) \/ ChunkFetched(r) \/ ChunkRejected(r) \/ ChunkStreamed(r)
    \/ Finish(r)
Materializing == BaseFetch \/ BaseFetched \/ BaseRejected \/ BaseEnds

Terminated == /\ \A r \in Requests : Ended(r)
              /\ closed
              /\ base.ask # None => Scheduler \in aborted
              /\ base.index = 0 /\ ~BaseAwaits
              /\ UNCHANGED vars

Next ==
    \/ \E h \in Blobs : Download(h) \/ Evict(h)
    \/ \E k \in Keys : Loading(k)
    \/ \E r \in Requests : Reading(r) \/ Abort(r)
    \/ \E r \in Readers : Expire(r)
    \/ Materializing \/ SchedulerCloses
    \/ Close \/ CloseEnds
    \/ Terminated

\* Every promise that can settle does, and started requests go on.
Fairness ==
    /\ \A h \in Blobs : WF_vars(Download(h))
    /\ \A k \in Keys : WF_vars(Loading(k))
    /\ \A r \in Requests : WF_vars(Reading(r))
    /\ WF_vars(Materializing)
    /\ WF_vars(CloseEnds)

Spec == Init /\ [][Next]_vars
FairSpec == Spec /\ Fairness

----------------------------------------------------------------------------
(* Properties. *)

\* The cache, the flights and the requests have their types; the counter of
\* decoded bytes never goes below zero, however often close() runs.
TypeOK ==
    /\ completed \in Seq(Manifests)
    /\ decodedBytes \in Nat
    /\ load \in [Keys -> Requests \cup {None}]
    /\ flight \in [Blobs -> Flight \cup {None}]
    /\ wait \in [Callers -> Wait \cup {None}]
    /\ holders \subseteq Callers \X Blobs
    /\ stored \subseteq Blobs
    /\ quarantined \subseteq Sources
    /\ req \in [Requests -> Position]
    /\ base \in Base
    /\ aborted \subseteq Readers
    /\ expired \subseteq Readers
    /\ closed \in BOOLEAN

\* The counter of the manifest cache is the decoded size of what it retains,
\* and both bounds hold, when two plans load one manifest at once too.
CacheAccounting ==
    /\ IsInjective(completed)
    /\ decodedBytes = BytesOf(completed)
    /\ decodedBytes <= MaxDecodedBytes
    /\ Len(completed) <= MaxEntries

\* No terminal path leaks a lease: an ended request, an ended load and an
\* ended build hold no blob, so the store can close once all are over.
NoLeakedLease ==
    \A p \in holders : /\ p[1] \in Requests => req[p[1]].pc = "stream"
                       /\ p[1] \in Keys => load[p[1]] # None
                       /\ p[1] = Scheduler => base.index > 0

\* Who awaits a download: a request that reads a chunk, for that chunk, and a
\* load under way, for its manifest, which it does not hold yet.
WaitsAreOwn ==
    /\ \A r \in Requests :
          wait[r] # None => req[r].pc = "chunk" /\ wait[r].hash = Chunk(r)
    /\ \A k \in Keys :
          wait[k] # None => /\ load[k] # None /\ wait[k].hash = k[1]
                            /\ \A p \in holders : p[1] # k

\* The place of a request in the body; a stream past its end holds no blob.
PlacesAreSound ==
    \A r \in Requests :
        /\ req[r].pc \in {"chunk", "stream"} => req[r].index > 0
        /\ req[r].pc = "stream" \/ wait[r] # None
              => req[r].index <= Len(Body[Target(r)])

\* Nobody waits for something that no longer comes: a download that somebody
\* awaits is in the fetcher's map, a load that somebody joined is in the
\* cache's, and a load under way awaits its blob or has it, as does a stream.
NobodyWaitsInVain ==
    /\ \A c \in Callers :
          wait[c] # None => (wait[c].stage = "pending" => flight[wait[c].hash] # None)
    /\ \A r \in Requests : req[r].pc = "manifest" => load[KeyOf(r)] # None
    /\ \A k \in Keys : load[k] # None => wait[k] # None \/ Held(k, k[1])
    /\ \A r \in Requests : req[r].pc = "stream" => Held(r, Chunk(r))

\* The scheduler awaits the next item of its base and holds all before it: a
\* build never reads a base that an eviction made incomplete.
BaseIsHeld ==
    /\ BaseAwaits => /\ base.ask # None /\ base.index <= Whole
                     /\ wait[Scheduler].hash = Item(base.index)
    /\ \A i \in 0..(base.index - 1) : Held(Scheduler, Item(i))

\* The download of a manifest obeys the cache's signal or, when the base of a
\* build asked for it first, the scheduler's; no request cancels it.
LoadsObeyTheCache ==
    /\ \A m \in Manifests :
          flight[m] # None => flight[m].signal \in {None, Scheduler}
    /\ \A k \in Keys :
          wait[k] # None => (wait[k].why = "abort" => closed \/ Scheduler \in aborted)

\* The inductive invariant of the proofs.
Inv ==
    /\ TypeOK /\ CacheAccounting /\ NoLeakedLease
    /\ WaitsAreOwn /\ PlacesAreSound /\ NobodyWaitsInVain
    /\ BaseIsHeld /\ LoadsObeyTheCache

\* Cancelling one request does not fail another one that shares its manifest:
\* while the daemon and its batch scheduler run, a request whose own client is
\* there never ends on an abort before its manifest arrived.  A closed scheduler
\* is an exception the code has: the load joined the download of a base.
ManifestAbortIsOwn ==
    [][\A r \in Requests :
          /\ req[r].pc = "manifest" /\ req'[r].pc = "failed"
          /\ req'[r].why = "abort" /\ ~closed /\ Scheduler \notin aborted
          => r \in aborted']_vars

\* Every request ends, whoever started the work it joined, and whatever was
\* aborted, exhausted, evicted or quarantined meanwhile.
EveryRequestEnds == \A r \in Requests : <>Ended(r)
=============================================================================
