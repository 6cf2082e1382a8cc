------------------------------ MODULE ServePath ------------------------------
(***************************************************************************)
(* Serving narinfos and NARs: the GET and HEAD branches of the HTTP handler *)
(* (nix/http_handler.ts), the merge of the selected publications and the   *)
(* two route registries (nix/merged_cache.ts), and the generation leases   *)
(* that keep an overlay generation while it is being served                *)
(* (write/overlay.ts, persistence/write_repository.ts).                    *)
(*                                                                         *)
(* Requests interleave at every await with commits of the overlay,         *)
(* admissions that prune generations, changes of the selection, expiring   *)
(* pins and the shutdown of the handler.  A store path has one NAR route,  *)
(* NarOf[p], in every source; a source is "overlay" or a publication.      *)
(***************************************************************************)
EXTENDS Naturals, Sequences, FiniteSets, FiniteSetsExt, SequencesExt, Subsequence

CONSTANTS
    Paths,        \* store paths
    NARs,         \* NAR routes
    NarOf,        \* [Paths -> NARs]
    Pubs,         \* publications
    Holds,        \* [Pubs -> SUBSET Paths]: what their trees contain
    Snapshots,    \* the selections: sequences of publications
    Contents,     \* the overlay's paths in each generation, a sequence of sets
    MaxEntries,   \* capacity of each route registry
    Slots,        \* requests that may be under way at once
    MaxRequests,  \* bound: requests in all
    MaxFaults,    \* bound: failing files and sources
    None

Generations == DOMAIN Contents
Sources == Pubs \cup {"overlay"}

\* pc of a request: "reading" the overlay's narinfo; "merging" the narinfos
\* of its snapshot; "searching" its snapshot for the NAR; "opening" the NAR of
\* its source; "streaming" it.  told is a copy of the history.
Request ==
    [pc : {"reading", "merging", "searching", "opening", "streaming"},
     path : Paths \cup {None}, nar : NARs, head : BOOLEAN,
     lease : Generations \cup {None}, todo : Seq(Pubs),
     source : Sources \cup {None}, told : Sources \cup {None}]

ASSUME ServeAssumption ==
    /\ NarOf \in [Paths -> NARs] /\ Holds \in [Pubs -> SUBSET Paths]
    /\ \A s \in Snapshots : s \in Seq(Pubs)
    /\ Contents \in Seq(SUBSET Paths) /\ Contents # <<>>
    /\ \A g, h \in DOMAIN Contents : g < h => Contents[g] \subseteq Contents[h]
    /\ {MaxEntries, MaxRequests, MaxFaults} \subseteq Nat /\ MaxEntries > 0
    /\ IsFiniteSet(Slots)
    /\ "overlay" \notin Pubs
    /\ None \notin Sources /\ None \notin Nat /\ None \notin Request

VARIABLES
    closed,       \* the handler is closed
    selection,    \* selector.current()
    generation,   \* current_generation, and the overlay's snapshot
    admitted,     \* #admittedGeneration
    kept,         \* generations with rows in overlay_entries
    leases,       \* #generationLeases
    req,          \* the requests
    signer,       \* SignerRouteRegistry: its entries, oldest first
    armed,        \* ... and its timer
    winner,       \* WinnerRouteRegistry: its entries, oldest first
    told,         \* history: the source of the narinfo pinned last, per NAR
    leaked,       \* history: leases nobody holds any more
    requests, faults

registries == <<signer, armed, winner>>
overlay == <<generation, admitted, kept, leases>>
vars == <<closed, selection, overlay, req, registries, told, leaked,
          requests, faults>>

NarsOf(P) == {NarOf[p] : p \in P}

At(u, pc) == req[u] # None /\ req[u].pc = pc
Respond(u) == req' = [req EXCEPT ![u] = None]
Move(u, pc) == req' = [req EXCEPT ![u].pc = pc]

----------------------------------------------------------------------------
(* Generation leases.                                                      *)

\* #pruneAdmitted: older generations than the admitted one go, unless they
\* are current or leased.
Prune(held, floor) ==
    kept' = {g \in kept : g >= floor \/ g = generation \/ held[g] > 0}

\* acquireGeneration.
Acquire(g) ==
    /\ leases' = [leases EXCEPT ![g] = @ + 1]
    /\ UNCHANGED kept

Holding(pins, g) == Cardinality({n \in DOMAIN pins : pins[n].gen = g})

\* The release of a set of pins, and of the leases in G; each prunes.
Return(pins, G) ==
    /\ leases' = [g \in Generations |->
          leases[g] - Holding(pins, g) - (IF g \in G THEN 1 ELSE 0)]
    /\ Prune(leases', admitted)

\* commitOverlay and refresh().
Commit ==
    /\ generation < Len(Contents)
    /\ generation' = generation + 1
    /\ kept' = kept \cup {generation + 1}
    /\ UNCHANGED <<closed, selection, admitted, leases, req, registries, told,
                   leaked, requests, faults>>

\* A mutant: leases are not looked at.
AdmitPrunesAll ==
    /\ admitted < generation
    /\ admitted' = generation
    /\ Prune([g \in Generations |-> 0], generation)
    /\ UNCHANGED <<closed, selection, generation, leases, req, registries,
                   told, leaked, requests, faults>>

\* The publication of a generation is admitted.
Admit ==
    \E g \in (admitted + 1)..generation :
        /\ admitted' = g
        /\ Prune(leases, g)
        /\ UNCHANGED <<closed, selection, generation, leases, req, registries,
                       told, leaked, requests, faults>>

----------------------------------------------------------------------------
(* The registries.                                                         *)

\* set(): expired entries, the entry of this NAR and the oldest ones above
\* capacity go.
Live(entries, n) ==
    {m \in DOMAIN entries : ~entries[m].due /\ entries[m].nar # n}
KeptAt(entries, n) ==
    LET live == Live(entries, n)
    IN  IF Cardinality(live) < MaxEntries THEN live ELSE live \ {Min(live)}

Kept(entries, n) == Where(entries, KeptAt(entries, n))
Gone(entries, n) == Where(entries, DOMAIN entries \ KeptAt(entries, n))

SignerPin == [nar : NARs, gen : Generations, due : BOOLEAN]
WinnerPin == [nar : NARs, pub : Pubs, due : BOOLEAN]

\* The pins of a NAR, and the entries without them.
PinsOf(entries, n) == {m \in DOMAIN entries : entries[m].nar = n}
Without(entries, n) == Where(entries, DOMAIN entries \ PinsOf(entries, n))

\* Forget what was told of routes whose winner is no longer pinned.
Untold(winners) ==
    [n \in NARs |->
        IF \/ told[n] = "overlay"
           \/ \E m \in DOMAIN winners : winners[m].nar = n /\ ~winners[m].due
        THEN told[n] ELSE None]

\* Time passes: the oldest live pin reaches its time to live.
AgeSigner ==
    \E n \in DOMAIN signer :
        /\ ~signer[n].due /\ \A m \in 1..(n - 1) : signer[m].due
        /\ signer' = [signer EXCEPT ![n].due = TRUE]
        /\ UNCHANGED <<closed, selection, overlay, req, armed, winner, told,
                       leaked, requests, faults>>

AgeWinner ==
    \E n \in DOMAIN winner :
        /\ ~winner[n].due /\ \A m \in 1..(n - 1) : winner[m].due
        /\ winner' = [winner EXCEPT ![n].due = TRUE]
        /\ told' = Untold(winner')
        /\ UNCHANGED <<closed, selection, overlay, req, signer, armed, leaked,
                       requests, faults>>

Due == {n \in DOMAIN signer : signer[n].due}

\* A mutant: the timer purges once and is not set again.
TimerFiresOnce ==
    /\ armed /\ Due # {}
    /\ signer' = Where(signer, DOMAIN signer \ Due)
    /\ armed' = FALSE
    /\ Return(Where(signer, Due), {})
    /\ UNCHANGED <<closed, selection, generation, admitted, req, winner, told,
                   leaked, requests, faults>>

\* The timer of the earliest expiry purges and is set again.
TimerFires ==
    /\ armed /\ Due # {}
    /\ signer' = Where(signer, DOMAIN signer \ Due)
    /\ armed' = (signer' # <<>>)
    /\ Return(Where(signer, Due), {})
    /\ UNCHANGED <<closed, selection, generation, admitted, req, winner, told,
                   leaked, requests, faults>>

----------------------------------------------------------------------------
(* GET <hash>.narinfo.                                                     *)

Begins(u) ==
    /\ ~closed /\ requests < MaxRequests
    /\ u \in Slots /\ req[u] = None
    /\ u = CHOOSE v \in Slots : req[v] = None
    /\ requests' = requests + 1

InfoAsked(pc, p, g, source) ==
    [pc |-> pc, path |-> p, nar |-> NarOf[p], head |-> FALSE, lease |-> g,
     todo |-> selection, source |-> source, told |-> None]

\* The overlay has the narinfo: its generation is leased.
InfoFromOverlay(u) ==
    \E p \in Contents[generation] :
        /\ Begins(u)
        /\ req' = [req EXCEPT ![u] =
              InfoAsked("reading", p, generation, "overlay")]
        /\ Acquire(generation)
        /\ UNCHANGED <<closed, selection, generation, admitted, registries,
                       told, leaked, faults>>

\* Otherwise the publications are asked, in the order of the selection.
InfoFromPublications(u) ==
    \E p \in Paths \ Contents[generation] :
        /\ selection # <<>> /\ Begins(u)
        /\ req' = [req EXCEPT ![u] = InfoAsked("merging", p, None, None)]
        /\ UNCHANGED <<closed, selection, overlay, registries, told, leaked,
                       faults>>

\* The narinfo is read and parsed; its lease goes into the registry.
InfoRead(u) ==
    LET n == req[u].nar
        lost == Gone(signer, n)
    IN  /\ At(u, "reading") /\ ~closed
        /\ signer' = Append(Kept(signer, n),
                            [nar |-> n, gen |-> req[u].lease, due |-> FALSE])
        /\ armed' = TRUE
        /\ Return(lost, {})
        /\ told' = [told EXCEPT ![n] = "overlay"]
        /\ Respond(u)
        /\ UNCHANGED <<closed, selection, generation, admitted, winner,
                       leaked, requests, faults>>

\* The file is unreadable, the text does not parse, or the registry was
\* closed meanwhile: nothing releases the lease.
InfoReadFails(u) ==
    /\ At(u, "reading")
    /\ closed \/ faults < MaxFaults
    /\ faults' = IF closed THEN faults ELSE faults + 1
    /\ leaked' = [leaked EXCEPT ![req[u].lease] = @ + 1]
    /\ Respond(u)
    /\ UNCHANGED <<closed, selection, overlay, registries, told, requests>>

\* resolveMergedNarInfo asks every publication; the first that has the path
\* wins, whether the others agree with it or not.
MergeStep(u) ==
    LET pub == Head(req[u].todo)
    IN  /\ At(u, "merging") /\ req[u].todo # <<>>
        /\ req' = [req EXCEPT ![u] = [req[u] EXCEPT
              !.todo = Tail(req[u].todo),
              !.source = IF req[u].source = None /\ req[u].path \in Holds[pub]
                         THEN pub ELSE req[u].source]]
        /\ UNCHANGED <<closed, selection, overlay, registries, told, leaked,
                       requests, faults>>

\* The winner is pinned; without one the path is absent.
MergeEnds(u) ==
    LET n == req[u].nar
        pub == req[u].source
    IN  /\ At(u, "merging") /\ req[u].todo = <<>>
        /\ IF pub = None THEN UNCHANGED <<winner, told>>
           ELSE /\ winner' = Append(Kept(winner, n),
                                   [nar |-> n, pub |-> pub, due |-> FALSE])
                /\ told' = [Untold(winner') EXCEPT ![n] = pub]
        /\ Respond(u)
        /\ UNCHANGED <<closed, selection, overlay, signer, armed, leaked,
                       requests, faults>>

----------------------------------------------------------------------------
(* GET and HEAD nar/...                                                    *)

NarAsked(pc, n, head, g, source) ==
    [pc |-> pc, path |-> None, nar |-> n, head |-> head, lease |-> g,
     todo |-> selection, source |-> source, told |-> told[n]]

\* take(): the pin of the narinfo moves to this request.
NarFromPin(u) ==
    \E n \in NARs, head \in BOOLEAN :
        \E m \in PinsOf(signer, n) :
            /\ ~signer[m].due /\ Begins(u)
            /\ req' = [req EXCEPT ![u] =
                  NarAsked("opening", n, head, signer[m].gen, "overlay")]
            /\ signer' = Without(signer, n)
            /\ armed' = (signer' # <<>>)
            /\ UNCHANGED <<closed, selection, overlay, winner, told, leaked,
                           faults>>

\* take() finds no live pin: an expired one is released.  The current overlay
\* comes next, whatever the registry of winners says.
NarFromOverlay(u) ==
    \E n \in NarsOf(Contents[generation]), head \in BOOLEAN :
        LET old == Where(signer, PinsOf(signer, n))
        IN  /\ PinsOf(signer, n) \subseteq Due
            /\ Begins(u)
            /\ req' = [req EXCEPT ![u] =
                  NarAsked("opening", n, head, generation, "overlay")]
            /\ signer' = Without(signer, n) /\ armed' = (signer' # <<>>)
            /\ leases' = [g \in Generations |->
                  leases[g] - Holding(old, g)
                  + (IF g = generation THEN 1 ELSE 0)]
            /\ Prune(leases', admitted)
            /\ UNCHANGED <<closed, selection, generation, admitted, winner,
                           told, leaked, faults>>

\* A mutant: the NAR is looked for in the current selection only.
NarFromPublicationsUnpinned(u) ==
    \E n \in NARs \ NarsOf(Contents[generation]), head \in BOOLEAN :
        /\ selection # <<>> /\ Begins(u)
        /\ req' = [req EXCEPT ![u] =
              NarAsked("searching", n, head, None, None)]
        /\ UNCHANGED <<closed, selection, overlay, registries, told, leaked,
                       faults>>

\* The publication that won the narinfo, or else the selection in order.
NarFromPublications(u) ==
    \E n \in NARs \ NarsOf(Contents[generation]), head \in BOOLEAN :
        LET pins == {m \in PinsOf(winner, n) : ~winner[m].due}
        IN  /\ selection # <<>> /\ Begins(u)
            /\ req' = [req EXCEPT ![u] =
                  IF pins = {} THEN NarAsked("searching", n, head, None, None)
                  ELSE NarAsked("opening", n, head, None,
                                winner[CHOOSE m \in pins : TRUE].pub)]
            /\ winner' = IF pins = {} THEN Without(winner, n) ELSE winner
            /\ UNCHANGED <<closed, selection, overlay, signer, armed, told,
                           leaked, faults>>

\* The next publication of the snapshot is asked for the NAR.
Search(u) ==
    LET pub == Head(req[u].todo)
    IN  /\ At(u, "searching") /\ req[u].todo # <<>>
        /\ req' = IF req[u].nar \in NarsOf(Holds[pub])
                  THEN [req EXCEPT ![u] = [req[u] EXCEPT !.source = pub,
                                                         !.pc = "opening"]]
                  ELSE [req EXCEPT ![u].todo = Tail(req[u].todo)]
        /\ UNCHANGED <<closed, selection, overlay, registries, told, leaked,
                       requests, faults>>

\* releaseOverlay, which does nothing for a publication.
Release(u) == Return(<<>>, {req[u].lease} \ {None})

Answered(u) ==
    /\ Release(u) /\ Respond(u)
    /\ UNCHANGED <<closed, selection, generation, admitted, registries, told,
                   leaked, requests>>

\* No publication has it: 404.
NotFound(u) ==
    /\ At(u, "searching") /\ req[u].todo = <<>>
    /\ Answered(u) /\ UNCHANGED faults

\* The source resolved the route: HEAD is answered, GET starts to stream.
Open(u) ==
    /\ At(u, "opening")
    /\ \/ req[u].head /\ Answered(u)
       \/ /\ ~req[u].head /\ Move(u, "streaming")
          /\ UNCHANGED <<closed, selection, overlay, registries, told, leaked,
                         requests>>
    /\ UNCHANGED faults

\* A source failed before the response began.
Fails(u) ==
    /\ At(u, "opening") \/ At(u, "merging") \/ At(u, "searching")
    /\ faults < MaxFaults /\ faults' = faults + 1
    /\ Answered(u)

\* A mutant: the wrapper around the body releases only at its end.
StreamEndsLeaks(u) ==
    /\ At(u, "streaming") /\ Respond(u)
    /\ UNCHANGED <<closed, selection, overlay, registries, told, leaked,
                   requests, faults>>

\* releaseOnTerminal: the body is read to its end, cancelled or fails.
StreamEnds(u) ==
    /\ At(u, "streaming") /\ Answered(u) /\ UNCHANGED faults

----------------------------------------------------------------------------

SelectionChanges ==
    /\ selection' \in Snapshots \ {selection}
    /\ UNCHANGED <<closed, overlay, req, registries, told, leaked, requests,
                   faults>>

\* close() of the handler: both registries are emptied.
Close ==
    /\ ~closed /\ closed' = TRUE
    /\ signer' = <<>> /\ armed' = FALSE /\ winner' = <<>>
    /\ told' = [n \in NARs |-> None]
    /\ Return(signer, {})
    /\ UNCHANGED <<selection, generation, admitted, req, leaked, requests,
                   faults>>

Init ==
    /\ closed = FALSE
    /\ selection \in Snapshots
    /\ generation = 1 /\ admitted = 0 /\ kept = {1}
    /\ leases = [g \in Generations |-> 0]
    /\ req = [u \in Slots |-> None]
    /\ signer = <<>> /\ armed = FALSE /\ winner = <<>>
    /\ told = [n \in NARs |-> None]
    /\ leaked = [g \in Generations |-> 0]
    /\ requests = 0 /\ faults = 0

Client(u) ==
    \/ InfoFromOverlay(u) \/ InfoFromPublications(u) \/ NarFromPin(u)
    \/ NarFromOverlay(u) \/ NarFromPublications(u)

Progress(u) ==
    \/ InfoRead(u) \/ (closed /\ InfoReadFails(u))
    \/ MergeStep(u) \/ MergeEnds(u)
    \/ Search(u) \/ NotFound(u) \/ Open(u) \/ StreamEnds(u)

Next ==
    \/ \E u \in Slots : \/ Client(u) \/ Progress(u)
                        \/ InfoReadFails(u) \/ Fails(u)
    \/ Commit \/ Admit \/ SelectionChanges \/ Close
    \/ AgeSigner \/ AgeWinner \/ TimerFires

Spec == Init /\ [][Next]_vars

\* Files and sources answer or fail within their deadlines, a client reads its
\* response or goes away, time passes and due timers run.
FairSpec ==
    /\ Spec
    /\ WF_vars(AgeSigner) /\ WF_vars(TimerFires)
    /\ \A u \in Slots : WF_vars(Progress(u))

----------------------------------------------------------------------------
(* Properties.                                                             *)

\* The variables have their types, and the registries stay within their
\* capacity with one pin per NAR.
TypeOK ==
    /\ selection \in Snapshots /\ generation \in Generations
    /\ admitted \in 0..generation /\ kept \subseteq 1..generation
    /\ leases \in [Generations -> Nat] /\ leaked \in [Generations -> Nat]
    /\ req \in [Slots -> Request \cup {None}]
    /\ told \in [NARs -> Sources \cup {None}]
    /\ signer \in Seq(SignerPin) /\ winner \in Seq(WinnerPin)
    /\ \A entries \in {signer, winner} :
          /\ Len(entries) <= MaxEntries
          /\ \A m, n \in DOMAIN entries :
                entries[m].nar = entries[n].nar => m = n

\* However requests, expiry, eviction and shutdown overlap, every lease is
\* counted exactly once: as many as requests and pins hold, plus the leaked.
LeasesExact ==
    \A g \in Generations :
        leases[g] = Cardinality({u \in Slots :
                                    req[u] # None /\ req[u].lease = g})
                    + Holding(signer, g) + leaked[g]

\* A generation that a response or a pin still uses is never pruned, whatever
\* is committed and admitted while it is being served.
LeasedIsKept == \A g \in Generations : leases[g] > 0 => g \in kept

Serving(u) == req[u] # None /\ req[u].pc \in {"opening", "streaming"}

\* A NAR is not taken from another publication than the one whose narinfo was
\* served last for its URL, although the selection changed in between; only
\* the overlay may take its place.
NarFromTheSamePublication ==
    \A u \in Slots :
        Serving(u) /\ req[u].told # None
        => req[u].source \in {req[u].told, "overlay"}

\* When the clients are done every lease comes back without a further request,
\* so that a superseded generation can be pruned; only the leaked ones stay.
EveryLeaseReturns == <>[](leases = leaked)
=============================================================================
