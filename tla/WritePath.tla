------------------------------ MODULE WritePath ------------------------------
(***************************************************************************)
(* From an upload to a committed overlay generation: the PUT branch of the *)
(* HTTP handler (nix/http_handler.ts), the staging of narinfos and NARs    *)
(* (persistence/write_repository.ts), eligibility (write/eligibility.ts)   *)
(* and the daemon's onCommitted callback (runtime/daemon.ts).              *)
(*                                                                         *)
(* Uploads interleave at every await; eligibility recomputes one change at *)
(* a time off a promise queue and awaits the layers below the overlay; a   *)
(* crash may fall anywhere.  What runs without an await is one step.       *)
(*                                                                         *)
(* Store path hashes are numbers, in the order SQLite returns them.  The   *)
(* text of the narinfo of path p is p itself; any other text, or the text  *)
(* of p sent to another route, is rejected.  A route is <<"info", p>> or   *)
(* <<"nar", n>>.                                                           *)
(***************************************************************************)
EXTENDS Naturals, Sequences, FiniteSets, FiniteSetsExt, Functions

CONSTANTS
    Paths,        \* store path hashes
    Refs,         \* the references of a path's narinfo
    NarOf,        \* [Paths -> NARs]: its URL
    NARs,         \* NAR routes
    NarBytes,     \* contents a client sends as a NAR
    Garbage,      \* a text that is no narinfo
    Offers,       \* what clients send: {<<route, body>>}
    Resident,     \* [NARs -> NarBytes or None]: staged by an earlier process
    Lower,        \* store paths the layers below the overlay hold, a fixed set
    PerBody,      \* perBodyBytes: what one narinfo upload reserves
    Aggregate,    \* aggregateBytes
    Slots,        \* numbers of the uploads that may be under way at once
    MaxQueue,     \* bound: no upload arrives while more jobs are queued
    MaxCrash,     \* bound: crashes
    MaxFaults,    \* bound: lower-layer failures and failed transactions
    None

Texts == Paths \cup {Garbage}
Routes == ({"info"} \X Paths) \cup ({"nar"} \X NARs)
IsInfo(r) == r[1] = "info"
Bodies(r) == IF IsInfo(r) THEN Texts ELSE NarBytes

\* pc of an upload: "reading" its body; "linked": the file is in place, the
\* row is not; "staged"; "read" back; "recorded"; "waiting" for its own
\* recomputation.
Upload == [pc : {"reading", "linked", "staged", "read", "recorded", "waiting"},
           route : Routes, body : Texts \cup NarBytes]
Job == [seed : Routes, by : {"changes", "put", "reconcile"},
        id : Slots \cup {None}]
Recomputation ==
    [job : Job, todo : SUBSET Paths, candidates : SUBSET Paths,
     admitted : SUBSET Paths, progressed : BOOLEAN, asks : Paths]

ASSUME WriteAssumption ==
    /\ Paths \subseteq Nat /\ IsFiniteSet(Paths)
    /\ Refs \in [Paths -> SUBSET (Paths \cup Lower)]
    /\ NarOf \in [Paths -> NARs] /\ IsFiniteSet(NARs)
    /\ Slots \subseteq Nat /\ IsFiniteSet(Slots)
    /\ {PerBody, Aggregate, MaxQueue, MaxCrash, MaxFaults} \subseteq Nat
    /\ PerBody > 0
    /\ Resident \in [NARs -> NarBytes \cup {None}]
    /\ Garbage \notin Paths /\ None \notin Paths \cup NarBytes \cup {Garbage}
    /\ None \notin Upload \cup Recomputation

VARIABLES
    status,       \* write activation: "down", "starting", "active", "failed"
    put,          \* the uploads
    staged,       \* staged_blobs: route -> digest
    routed,       \* the blob store's route table: NAR -> digest
    files,        \* digests with a file under blobs/
    reserved,     \* write_reservations: the uploads that hold one
    infos,        \* staged_narinfos and staged_references: recorded paths
    overlay,      \* overlay_store_paths of the current generation
    generation,   \* overlay_state.current_generation
    queue,        \* #serial: recomputations not started yet
    run,          \* the recomputation under way
    due,          \* a resolved recomputation whose onCommitted has not run
    lastDirtied,  \* lastDirtiedGeneration of the daemon
    dirty,        \* the last generation given to the batch scheduler
    torn,         \* history: paths whose right narinfo discard() took
    faults, crashes

tables == <<staged, routed, files, reserved, infos, overlay, generation>>
memory == <<queue, run, due, lastDirtied>>
vars == <<status, put, staged, routed, files, reserved, infos, overlay,
          generation, queue, run, due, lastDirtied, dirty, torn, faults,
          crashes>>

\* Used by #reserve and by the admitting transaction: every distinct staged
\* digest has size one.
Digests == {staged[r] : r \in Routes} \ {None}
Used == Cardinality(Digests)
Reserved == PerBody * Cardinality(reserved)

At(u, pc) == put[u] # None /\ put[u].pc = pc
Move(u, pc) == put' = [put EXCEPT ![u].pc = pc]
Respond(u) == put' = [put EXCEPT ![u] = None]
Enqueue(j) == queue' = Append(queue, j)
Changed(r) == [seed |-> r, by |-> "changes", id |-> None]

----------------------------------------------------------------------------
(* PUT: readiness and authorisation, then WriteRepository.stage().         *)

\* A client sends body b to route r; the upload takes the first free slot.
Arrives(u, r, b) ==
    /\ status = "active" /\ u = Min({v \in Slots : put[v] = None} \cup {u})
    /\ put[u] = None
    /\ <<r, b>> \in Offers /\ Len(queue) <= MaxQueue

Begin(u, r, b, pc) ==
    put' = [put EXCEPT ![u] = [pc |-> pc, route |-> r, body |-> b]]

\* A mutant: concurrent uploads are not counted.
HasRoomAlone == Used + PerBody <= Aggregate

HasRoom == Used + Reserved + PerBody <= Aggregate

\* #reserve: the reservation is held while the body is read.  Without room
\* the upload answers 413 and changes nothing.
BeginInfo(u) ==
    /\ HasRoom
    /\ \E p \in Paths, b \in Texts :
          /\ Arrives(u, <<"info", p>>, b)
          /\ Begin(u, <<"info", p>>, b, "reading")
    /\ reserved' = reserved \cup {u}
    /\ UNCHANGED <<status, staged, routed, files, infos, overlay, generation,
                   memory, dirty, torn, faults, crashes>>

\* The client goes away or the body exceeds its ceiling.
ReadFails(u) ==
    /\ At(u, "reading")
    /\ Respond(u)
    /\ reserved' = reserved \ {u}
    /\ UNCHANGED <<status, staged, routed, files, infos, overlay, generation,
                   memory, dirty, torn, faults, crashes>>

\* The body of a narinfo is on disk.  A route that is staged already is
\* settled here; otherwise the file is linked under its digest.
ReadInfo(u) ==
    LET r == put[u].route
        b == put[u].body
    IN  /\ At(u, "reading")
        /\ IF staged[r] = None
           THEN /\ Move(u, "linked")
                /\ files' = files \cup {b}
                /\ UNCHANGED reserved
           ELSE /\ IF staged[r] = b THEN Move(u, "staged") ELSE Respond(u)
                /\ reserved' = reserved \ {u}
                /\ UNCHANGED files
        /\ UNCHANGED <<status, staged, routed, infos, overlay, generation,
                       memory, dirty, torn, faults, crashes>>

\* A mutant: INSERT OR REPLACE.
InsertInfoReplaces(u) ==
    LET r == put[u].route
    IN  /\ At(u, "linked")
        /\ reserved' = reserved \ {u}
        /\ staged' = [staged EXCEPT ![r] = put[u].body]
        /\ Enqueue(Changed(r))
        /\ Move(u, "staged")
        /\ UNCHANGED <<status, routed, files, infos, overlay, generation,
                       run, due, lastDirtied, dirty, torn, faults, crashes>>

\* The admitting transaction.  It checks the quota again, without the
\* reservations; another upload that took the route meanwhile makes the
\* INSERT fail.
InsertInfo(u) ==
    LET r == put[u].route
    IN  /\ At(u, "linked")
        /\ reserved' = reserved \ {u}
        /\ IF staged[r] = None /\ Used + 1 <= Aggregate
           THEN /\ staged' = [staged EXCEPT ![r] = put[u].body]
                /\ Enqueue(Changed(r))
                /\ Move(u, "staged")
           ELSE /\ Respond(u)
                /\ UNCHANGED <<staged, queue>>
        /\ UNCHANGED <<status, routed, files, infos, overlay, generation,
                       run, due, lastDirtied, dirty, torn, faults, crashes>>

\* The handler awaits the staged file; what it read it keeps, whatever happens
\* to the route and the file meanwhile.
ReadBack(u) ==
    /\ At(u, "staged")
    /\ put[u].body \in files
    /\ Move(u, "read")
    /\ UNCHANGED <<status, tables, memory, dirty, torn, faults, crashes>>

\* The file of the digest is gone: discard() of another route unlinked it
\* between this upload's link and its row.  The row stays: 503.
ReadBackFails(u) ==
    /\ At(u, "staged")
    /\ put[u].body \notin files
    /\ Respond(u)
    /\ UNCHANGED <<status, tables, memory, dirty, torn, faults, crashes>>

\* What was read is the narinfo of the route.  Its row may be gone by now.
RecordInfo(u) ==
    LET r == put[u].route
    IN  /\ At(u, "read") /\ put[u].body = r[2]
        /\ infos' = infos \cup {r[2]}
        /\ Enqueue(Changed(r))
        /\ Move(u, "recorded")
        /\ UNCHANGED <<status, staged, routed, files, reserved, overlay,
                       generation, run, due, lastDirtied, dirty, torn, faults,
                       crashes>>

\* discard(): the row of the route, whichever text it holds by now, and its
\* file unless another row refers to it.
Discard(r) ==
    IF staged[r] = None THEN UNCHANGED <<staged, files>>
    ELSE /\ staged' = [staged EXCEPT ![r] = None]
         /\ files' = files \ {d \in {staged[r]} :
                                 \A q \in Routes \ {r} : staged[q] # d}

\* It is no narinfo, or not the one of this route: 400.  Another upload of the
\* same text may have discarded the row, and a third one staged the right text.
RejectInfo(u) ==
    LET r == put[u].route
    IN  /\ At(u, "read") /\ put[u].body # r[2]
        /\ Discard(r)
        /\ torn' = torn \cup ({staged[r]} \cap {r[2]})
        /\ Respond(u)
        /\ UNCHANGED <<status, routed, reserved, infos, overlay, generation,
                       memory, dirty, faults, crashes>>

\* recordNarInfo's transaction fails: the handler discards the route, also
\* when an earlier upload had recorded it.
RecordFails(u) ==
    LET r == put[u].route
    IN  /\ At(u, "read") /\ put[u].body = r[2] /\ faults < MaxFaults
        /\ Discard(r)
        /\ Respond(u)
        /\ torn' = torn \cup {r[2]} /\ faults' = faults + 1
        /\ UNCHANGED <<status, routed, reserved, infos, overlay, generation,
                       memory, dirty, crashes>>

\* A mutant: the staged row is not looked up after the body.
NarFitsAlways(n, b) == TRUE

\* The route is free or holds these bytes; one that was committed before a
\* crash took its row has the bytes in the route table only.
NarFits(n, b) ==
    LET row == staged[<<"nar", n>>]
    IN  IF row # None THEN row = b ELSE routed[n] \in {None, b}

\* #stageNarComponents.  While the chunks arrive only the blob store sees the
\* upload; once they are admitted an existing row decides (409 if it has other
\* bytes), else commitRoute and the row follow without an await.
StageNar(u) ==
    \E n \in NARs, b \in NarBytes :
        LET r == <<"nar", n>>
        IN  /\ Arrives(u, r, b) /\ NarFits(n, b)
            /\ Begin(u, r, b, "recorded")
            /\ IF staged[r] # b
               THEN /\ staged' = [staged EXCEPT ![r] = b]
                    /\ routed' = [routed EXCEPT ![n] = b]
                    /\ Enqueue(Changed(r))
               ELSE UNCHANGED <<staged, routed, queue>>
            /\ UNCHANGED <<status, files, reserved, infos, overlay,
                           generation, run, due, lastDirtied, dirty, torn,
                           faults, crashes>>

\* onStaged: the upload queues a recomputation of its own and waits for it.
OnStaged(u) ==
    /\ At(u, "recorded")
    /\ Enqueue([seed |-> put[u].route, by |-> "put", id |-> u])
    /\ Move(u, "waiting")
    /\ UNCHANGED <<status, tables, run, due, lastDirtied, dirty, torn, faults,
                   crashes>>

\* onStaged: the signer no longer has its identity.
OnStagedRefused(u) ==
    /\ At(u, "recorded") /\ faults < MaxFaults
    /\ Respond(u)
    /\ faults' = faults + 1
    /\ UNCHANGED <<status, tables, memory, dirty, torn, crashes>>

----------------------------------------------------------------------------
(* EligibilityModel.#recompute.                                            *)

\* affectedCandidates: the seed, and what refers to it through recorded
\* narinfos.  A NAR route seeds one of the narinfos that name it.
AffectedBy(seed) ==
    LET reach[n \in 0..Cardinality(Paths)] ==
            IF n = 0 THEN {seed}
            ELSE reach[n - 1] \cup
                 {p \in infos : Refs[p] \cap reach[n - 1] # {}}
    IN  infos \cap reach[Cardinality(Paths)]

Seeds(r) == IF IsInfo(r) THEN {r[2]} ELSE {p \in infos : NarOf[p] = r[2]}

Start(j, cands) ==
    [job |-> j, todo |-> cands, candidates |-> cands, admitted |-> {},
     progressed |-> FALSE, asks |-> None]

\* References of p that neither the overlay nor this closure answers.
Unresolved(c, p) == Refs[p] \ ({p} \cup overlay \cup c.admitted)

\* The recomputation c, further on in its passes.
Onward(c, todo, admitted, progressed, asks) ==
    [job |-> c.job, todo |-> todo, candidates |-> c.candidates,
     admitted |-> admitted, progressed |-> progressed, asks |-> asks]

Passed(c, p) == Onward(c, c.todo \ {p}, c.admitted, c.progressed, None)
Admit(c, p) == Onward(c, c.todo \ {p}, c.admitted \cup {p}, TRUE, None)
Ask(c, p) == Onward(c, c.todo, c.admitted, c.progressed, p)
NextPass(c) == Onward(c, c.candidates, c.admitted, FALSE, None)

\* One candidate of the pass.  Only one with its NAR and with open
\* references makes the recomputation wait.
Examine(c, p) ==
    IF p \in overlay \cup c.admitted \/ staged[<<"nar", NarOf[p]>>] = None
    THEN Passed(c, p)
    ELSE IF Unresolved(c, p) = {} THEN Admit(c, p)
    ELSE Ask(c, p)

Finished(c) == c.todo = {} /\ ~c.progressed /\ c.asks = None

Step(c) ==
    IF c.asks # None \/ Finished(c) THEN c
    ELSE IF c.todo = {}
    THEN NextPass(c)
    ELSE Examine(c, Min(c.todo))

\* Where the recomputations C stand at their next await, or at their end:
\* passes over the candidates in order, as long as a pass admitted something.
ToAwait(C) ==
    LET bound == (Cardinality(Paths) + 1) * (Cardinality(Paths) + 1)
        after[n \in 0..bound] ==
            IF n = 0 THEN C ELSE {Step(c) : c \in after[n - 1]}
    IN  after[bound]

\* commitOverlay finds the narinfo and the NAR of every admitted path.
Committable(c) ==
    \A p \in c.admitted : /\ staged[<<"info", p>>] # None
                          /\ staged[<<"nar", NarOf[p]>>] # None

Down ==
    /\ status' = "down"
    /\ put' = [u \in Slots |-> None]
    /\ queue' = <<>> /\ run' = None /\ due' = FALSE

\* The recomputation rejects: the lower layers failed, or commitOverlay did
\* not find a row.  An upload answers 503; reconcile() fails the activation;
\* the subscription leaves the rejection unhandled, which ends the process.
Reject(job, rest) ==
    \/ /\ job.by = "put"
       /\ Respond(job.id)
       /\ run' = None /\ queue' = rest
       /\ UNCHANGED <<status, due>>
    \/ /\ job.by = "reconcile"
       /\ status' = "failed"
       /\ run' = None /\ queue' = <<>>
       /\ UNCHANGED <<put, due>>
    \/ /\ job.by = "changes"
       /\ Down

\* The recomputation c has come to its next await, or it is over: it commits
\* what it admitted and refreshes the overlay.  Only the recomputations of
\* the subscription and of reconcile() are followed by onCommitted.
Continue(c, rest) ==
    /\ \/ /\ ~Finished(c)
          /\ run' = c /\ queue' = rest
          /\ UNCHANGED <<status, put, overlay, generation, due>>
       \/ /\ Finished(c) /\ Committable(c)
          /\ overlay' = overlay \cup c.admitted
          /\ generation' = IF c.admitted = {} THEN generation
                           ELSE generation + 1
          /\ due' = (due \/ (c.admitted # {} /\ c.job.by # "put"))
          /\ IF c.job.by = "put" THEN Respond(c.job.id) ELSE UNCHANGED put
          /\ run' = None /\ queue' = rest
          /\ UNCHANGED status
       \/ /\ Finished(c) /\ ~Committable(c)
          /\ Reject(c.job, rest)
          /\ UNCHANGED <<overlay, generation>>
    /\ UNCHANGED <<staged, routed, files, reserved, infos, lastDirtied, dirty,
                   torn, crashes>>

\* The next job of the queue starts and reads the candidates: after the
\* onCommitted of the one before it, whose callback is ahead of it in the
\* microtask queue.
RecomputeStart ==
    /\ run = None /\ ~due /\ queue # <<>> /\ status \in {"starting", "active"}
    /\ LET seeds == Seeds(Head(queue).seed)
           candidates == IF seeds = {} THEN {{}}
                         ELSE {AffectedBy(p) : p \in seeds}
       IN  \E c \in ToAwait({Start(Head(queue), S) : S \in candidates}) :
              Continue(c, Tail(queue))
    /\ UNCHANGED faults

\* A mutant: any answer of the lower layers closes the references.
LowerAnswersAny ==
    /\ run # None
    /\ \E c \in ToAwait({Admit(run, run.asks)}) : Continue(c, queue)
    /\ UNCHANGED faults

\* lowerHasStorePath resolved for the references in question.
LowerAnswers ==
    /\ run # None
    /\ LET p == run.asks
           next == IF Unresolved(run, p) \subseteq Lower
                   THEN Admit(run, p) ELSE Passed(run, p)
       IN  \E c \in ToAwait({next}) : Continue(c, queue)
    /\ UNCHANGED faults

\* A publisher's source failed with another error than VerifiedAbsent.
LowerFails ==
    /\ run # None /\ faults < MaxFaults
    /\ faults' = faults + 1
    /\ Reject(run.job, queue)
    /\ UNCHANGED <<tables, lastDirtied, dirty, torn, crashes>>

\* onCommitted(currentGeneration()).
OnCommitted ==
    /\ due /\ status \in {"starting", "active"}
    /\ due' = FALSE
    /\ IF generation > lastDirtied
       THEN lastDirtied' = generation /\ dirty' = generation
       ELSE UNCHANGED <<lastDirtied, dirty>>
    /\ UNCHANGED <<status, put, tables, queue, run, faults, crashes, torn>>

----------------------------------------------------------------------------
(* The process.                                                            *)

Crash ==
    /\ status # "down" /\ crashes < MaxCrash
    /\ crashes' = crashes + 1
    /\ Down
    /\ UNCHANGED <<tables, lastDirtied, dirty, torn, faults>>

\* A crash between commitRoute and the row of the NAR.
CrashInStageNar ==
    \E n \in NARs, b \in NarBytes :
        /\ \E u \in Slots : Arrives(u, <<"nar", n>>, b)
        /\ crashes < MaxCrash
        /\ staged[<<"nar", n>>] = None /\ routed[n] = None
        /\ routed' = [routed EXCEPT ![n] = b]
        /\ crashes' = crashes + 1
        /\ Down
        /\ UNCHANGED <<staged, files, reserved, infos, overlay, generation,
                       lastDirtied, dirty, torn, faults>>

\* A failed activation is not retried: writes stay off until the operator
\* restarts the daemon.
OperatorRestarts ==
    /\ status = "failed"
    /\ Down
    /\ UNCHANGED <<tables, lastDirtied, dirty, torn, faults, crashes>>

\* A mutant: nothing is reconciled at start.
ActivateBlindly ==
    /\ status = "down"
    /\ status' = "starting"
    /\ reserved' = {}
    /\ lastDirtied' = dirty
    /\ UNCHANGED <<put, staged, routed, files, infos, overlay, generation,
                   queue, run, due, dirty, torn, faults, crashes>>

\* The next process: #activate clears the reservations, reconcile() queues
\* every recorded path in order, lastDirtiedGeneration is read back.
Activate ==
    /\ status = "down"
    /\ status' = "starting"
    /\ reserved' = {}
    /\ \E order \in [1..Cardinality(infos) -> infos] :
          /\ \A i, j \in DOMAIN order : i < j => order[i] < order[j]
          /\ queue' = [i \in DOMAIN order |->
                          [seed |-> <<"info", order[i]>>,
                           by |-> "reconcile", id |-> None]]
    /\ lastDirtied' = dirty
    /\ UNCHANGED <<put, staged, routed, files, infos, overlay, generation,
                   run, due, dirty, torn, faults, crashes>>

Activated ==
    /\ status = "starting" /\ queue = <<>> /\ run = None /\ ~due
    /\ status' = "active"
    /\ UNCHANGED <<put, tables, memory, dirty, torn, faults, crashes>>

Init ==
    /\ status = "down"
    /\ put = [u \in Slots |-> None]
    /\ staged = [r \in Routes |-> IF IsInfo(r) THEN None ELSE Resident[r[2]]]
    /\ routed = Resident
    /\ files = {} /\ reserved = {} /\ infos = {} /\ overlay = {}
    /\ generation = 0
    /\ queue = <<>> /\ run = None /\ due = FALSE
    /\ lastDirtied = 0 /\ dirty = 0 /\ torn = {}
    /\ faults = 0 /\ crashes = 0

\* An upload that has begun keeps moving.
Progress(u) ==
    \/ ReadInfo(u) \/ InsertInfo(u) \/ ReadBack(u) \/ ReadBackFails(u)
    \/ RecordInfo(u) \/ RejectInfo(u) \/ OnStaged(u)

Client(u) ==
    \/ BeginInfo(u) \/ StageNar(u)
    \/ ReadFails(u) \/ RecordFails(u) \/ OnStagedRefused(u)

Recompute == RecomputeStart \/ LowerAnswers

Starting == Activate \/ Activated

Next ==
    \/ \E u \in Slots : Client(u) \/ Progress(u)
    \/ Recompute \/ LowerFails \/ OnCommitted \/ Starting
    \/ Crash \/ CrashInStageNar \/ OperatorRestarts

Spec == Init /\ [][Next]_vars

----------------------------------------------------------------------------
(* Properties.                                                             *)

\* The variables have their types, and in a running process every reservation
\* belongs to an upload that is still to be admitted: none is leaked.
TypeOK ==
    /\ status \in {"down", "starting", "active", "failed"}
    /\ put \in [Slots -> Upload \cup {None}]
    /\ staged \in [Routes -> Texts \cup NarBytes \cup {None}]
    /\ \A r \in Routes : staged[r] \in Bodies(r) \cup {None}
    /\ routed \in [NARs -> NarBytes \cup {None}]
    /\ files \subseteq Texts
    /\ reserved \subseteq Slots
    /\ infos \subseteq Paths /\ overlay \subseteq Paths
    /\ queue \in Seq(Job)
    /\ run \in Recomputation \cup {None}
    /\ due \in BOOLEAN
    /\ {generation, lastDirtied, dirty, faults, crashes} \subseteq Nat
    /\ torn \subseteq Paths

\* Digests of the NARs that this process staged.
Late == {staged[r] : r \in {"nar"} \X NARs} \ ({None} \cup Range(Resident))

\* What was staged before, or the quota if that is more.
Allowed == Max({Aggregate, Cardinality(Range(Resident) \ {None})})

\* However uploads overlap and across restarts, what is staged and what the
\* uploads under way may still add stay within the aggregate quota.  Only NARs
\* go past it: their bytes are charged to the blob store, but count as used.
\* No reservation outlives its upload.
QuotaRespected ==
    /\ Used + Reserved <= Allowed + Cardinality(Late)
    /\ status = "active" =>
          \A u \in reserved : At(u, "reading") \/ At(u, "linked")

\* No generation ever holds a path with a missing dependency: every
\* reference is in the overlay or in the layers below it, as they were asked.
OverlayClosed ==
    \A p \in overlay : Refs[p] \subseteq {p} \cup overlay \cup Lower

\* What the overlay serves is there: its narinfo and its NAR are staged and
\* the narinfo's file exists, whatever was rejected, discarded or retried on
\* other routes.  Only discard() of its own route may take it away: on a retry
\* whose recordNarInfo failed, or when the rejection of an earlier upload of
\* another text came late.
OverlayReadable ==
    \A p \in overlay :
        \/ p \in torn
        \/ /\ staged[<<"info", p>>] = p /\ p \in files
           /\ staged[<<"nar", NarOf[p]>>] # None

\* A route is immutable once staged, however many clients upload it at once
\* and across crashes: its bytes never change, a NAR never leaves, and the
\* right narinfo of a path leaves only through discard().
RouteImmutable ==
    [][\A r \in Routes :
          staged[r] # None =>
             \/ staged'[r] = staged[r]
             \/ /\ IsInfo(r) /\ staged'[r] = None
                /\ staged[r] = r[2] => r[2] \in torn']_vars

\* Recorded, with its narinfo and its NAR staged, and no other recorded path
\* names that NAR: of several, affectedCandidates sees only one when it arrives.
Held ==
    {q \in infos : /\ staged[<<"nar", NarOf[q]>>] # None
                   /\ staged[<<"info", q>>] # None
                   /\ \A r \in infos : NarOf[r] = NarOf[q] => r = q}

\* The paths S and the lower layers answer the references of q.
Fits(q, S) == Refs[q] \subseteq {q} \cup S \cup Lower

\* The path is held, and so is everything it refers to, down to the overlay
\* and the layers below it.
Complete(p) ==
    LET closed[n \in 0..Cardinality(Paths)] ==
            IF n = 0 THEN overlay
            ELSE closed[n - 1] \cup {q \in Held : Fits(q, closed[n - 1])}
    IN  p \in Held \cap closed[Cardinality(Paths)]

\* Once eligibility is at rest every complete path is visible, in whatever
\* order its parts arrived, whoever's recomputation saw them first and across
\* crashes: none needs another upload to be noticed.
CompleteIsVisible ==
    status = "active" /\ queue = <<>> /\ run = None
    => \A p \in Paths : Complete(p) => p \in overlay

\* Every newly committed generation reaches PublicationBatchScheduler.dirty
\* (260812-mhi-PLAN.md): once eligibility is at rest, nothing is unmarked.
EveryGenerationDirtied ==
    status = "active" /\ queue = <<>> /\ run = None /\ ~due
    => dirty = generation
=============================================================================
