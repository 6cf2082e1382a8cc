------------------------------ MODULE Selection ------------------------------
(***************************************************************************)
(* Which publication of which cache the daemon serves: validation          *)
(* (protocol/publication.ts), the durable acceptance policy                *)
(* (persistence/state_repository.ts) and the reactive selection with its   *)
(* expiration timer (nostr/selection.ts), fed by relays that deliver       *)
(* events late, again and out of order, across crashes.                    *)
(*                                                                         *)
(* An event is a record; its id is a number in the order of the hex ids.   *)
(* Every step below runs without an await: the stream calls accept()       *)
(* synchronously, and the model recomputes inside of it.                   *)
(***************************************************************************)
EXTENDS Naturals, Sequences, FiniteSetsExt, SequencesExt, Subsequence

CONSTANTS
    Events,       \* well-formed publications the relays may deliver
    Configured,   \* the configured identities, in order of precedence
    Own,          \* the writable identity, authorised once the signer is up
    OldVersions,  \* whether the event store's timeline shows replaced versions
    FutureLimit,  \* how far ahead of the clock created_at may be
    Ceiling,      \* the longest delay of a timer
    MaxTime,      \* bound: the clock
    MaxList,      \* bound: BUD-03 server lists of the publishers
    MaxCrash,     \* bound: crashes
    MaxFaults,    \* bound: corrupted rows and failed transactions
    None

Identities == ToSet(Configured) \cup {Own}

\* A layer of the snapshot: a publication with its publisher's server list.
Item == [event : Events, servers : 0..MaxList]

ASSUME SelectionAssumption ==
    /\ \A e \in Events :
          /\ DOMAIN e = {"identity", "createdAt", "id", "signed", "expires"}
          /\ e.identity \in Identities /\ e.signed \in BOOLEAN
          /\ {e.createdAt, e.id} \subseteq Nat
          /\ e.expires \in Nat \cup {None}
    /\ \A e, f \in Events : e.id = f.id => e = f
    /\ Configured \in Seq(Identities) /\ IsInjective(Configured)
    /\ {FutureLimit, Ceiling, MaxTime, MaxList, MaxCrash, MaxFaults}
          \subseteq Nat
    /\ OldVersions \in BOOLEAN
    /\ None \notin Events /\ None \notin Nat /\ None \notin Item

VARIABLES
    up,           \* the selector exists
    now,          \* the clock
    rows,         \* identity_state
    admitted,     \* publications in the event store
    order,        \* identityOrder: the authorised identities
    lists,        \* the newest BUD-03 list of each identity's publisher
    current,      \* the merged snapshot
    timer,        \* when the expiration timer fires, or None
    keyed,        \* history: identities accepted with signing keys
    granted,      \* history: identities whose downgrade was ever allowed
    peak,         \* history: the newest event selected since the row was lost
    capped,       \* history: the timer set last was shorter than needed
    crashes, faults

memory == <<admitted, order, lists, current, timer, capped>>
vars == <<up, now, rows, memory, keyed, granted, peak, crashes, faults>>

Row == [event : Events \cup {None}, signedHistory : BOOLEAN,
        unsignedConsent : BOOLEAN, corrupt : BOOLEAN]

\* NIP-01: the later event, and of two of the same second the lower id.
Newer(e, f) ==
    \/ e.createdAt > f.createdAt
    \/ e.createdAt = f.createdAt /\ e.id < f.id

\* validatePublication at time t, for an event that is well formed.
Valid(e, t) ==
    /\ e.createdAt <= t + FutureLimit
    /\ e.expires # None => e.expires > t

Older(E, e) ==
    {f \in E : f.identity = e.identity /\ Newer(e, f)}

\* A mutant: the timeline shows the versions a newer one replaced.
InsertKeepsOld(E, e) == E \cup {e}

\* EventStore.add, and the timeline the model reads.
Insert(E, e) == {e} \cup (IF OldVersions THEN E ELSE E \ Older(E, e))

\* CacheSelectionModel: per authorised identity, in their order, the newest
\* publication that is valid now, with its publisher's server list.
Chosen(E, i, t) ==
    {e \in E : /\ e.identity = i /\ Valid(e, t)
               /\ \A f \in E : f.identity = i /\ Valid(f, t) => ~Newer(f, e)}

Layer(E, i, servers, t) ==
    LET newest == Chosen(E, i, t)
    IN  IF newest = {} THEN None
        ELSE [event |-> CHOOSE e \in newest : TRUE, servers |-> servers[i]]

Select(E, ids, servers, t) ==
    LET layers == [n \in DOMAIN ids |-> Layer(E, ids[n], servers, t)]
    IN  Where(layers, {n \in DOMAIN ids : layers[n] # None})

Expiries(items) == {items[n].event.expires : n \in DOMAIN items} \ {None}

\* A mutant: only the first layer of the snapshot is scheduled.
DeadlineOfFirst(items, t) ==
    IF items = <<>> \/ items[1].event.expires = None THEN None
    ELSE t + Min({Ceiling, items[1].event.expires - t})

\* The delay is capped at the largest one a JavaScript timer takes.
Deadline(items, t) ==
    IF Expiries(items) = {} THEN None
    ELSE t + Min({Ceiling, Min(Expiries(items)) - t})

\* Whether the timer fires before the expiration it is meant for.
Capped(items, t) == Expiries(items) # {} /\ Min(Expiries(items)) - t > Ceiling

\* History: the newest event of each identity that was selected, given the
\* newest ones before.
Peaks(items, before) ==
    [i \in Identities |->
        LET seen == {e \in {items[n].event : n \in DOMAIN items} :
                        e.identity = i} \cup ({before[i]} \ {None})
        IN  IF seen = {} THEN None
            ELSE CHOOSE e \in seen : \A f \in seen : ~Newer(f, e)]

\* distinctUntilChanged and the subscriber: an unchanged snapshot reaches
\* nobody, and leaves the timer as it is.  armed is the timer beforehand.
Emit(E, ids, servers, t, armed) ==
    \E items \in {Select(E, ids, servers, t)} :
        /\ current' = items
        /\ timer' = IF items = current THEN armed ELSE Deadline(items, t)
        /\ capped' = IF items = current THEN capped ELSE Capped(items, t)
        /\ peak' = Peaks(items, peak)

----------------------------------------------------------------------------
(* accept().                                                               *)

\* StateRepository.accept: no downgrade without consent, nothing stale.
Acceptable(e) ==
    LET row == rows[e.identity]
    IN  /\ row.signedHistory /\ ~e.signed => row.unsignedConsent
        /\ row.event # None => Newer(e, row.event)

Accepted(e) ==
    /\ rows' = [rows EXCEPT ![e.identity] =
          [rows[e.identity] EXCEPT
              !.event = e,
              !.signedHistory = rows[e.identity].signedHistory \/ e.signed]]
    /\ keyed' = IF e.signed THEN keyed \cup {e.identity} ELSE keyed

\* A mutant: the store has e before the transaction, which fails.
AcceptVolatile(e) ==
    /\ up /\ Valid(e, now) /\ e.identity \in ToSet(order)
    /\ Acceptable(e)
    /\ admitted' = Insert(admitted, e)
    /\ Emit(admitted', order, lists, now, timer)
    /\ UNCHANGED <<up, now, rows, order, lists, keyed, granted, crashes,
                   faults>>

\* A relay delivers e.  Anything else than this is a rejection, which
\* changes nothing.
Accept(e) ==
    /\ up /\ Valid(e, now) /\ e.identity \in ToSet(order)
    /\ Acceptable(e)
    /\ Accepted(e)
    /\ admitted' = Insert(admitted, e)
    /\ Emit(admitted', order, lists, now, timer)
    /\ UNCHANGED <<up, now, order, lists, granted, crashes, faults>>

\* The process ends after the transaction and before the store has e.
AcceptCrashes(e) ==
    /\ up /\ Valid(e, now) /\ e.identity \in ToSet(order)
    /\ Acceptable(e) /\ crashes < MaxCrash
    /\ Accepted(e)
    /\ up' = FALSE /\ crashes' = crashes + 1
    /\ UNCHANGED <<now, memory, granted, peak, faults>>

\* A newer BUD-03 list of the publisher of i (kind 10063).
AcceptServers(i) ==
    /\ up /\ i \in ToSet(order) /\ lists[i] < MaxList
    /\ lists' = [lists EXCEPT ![i] = @ + 1]
    /\ Emit(admitted, order, lists', now, timer)
    /\ UNCHANGED <<up, now, rows, admitted, order, keyed, granted, crashes,
                   faults>>

\* authorizePublicationPublisher: the own cache takes precedence.
Authorize ==
    /\ up /\ (order # <<>> => Head(order) # Own)
    /\ order' = <<Own>> \o Where(order, {n \in DOMAIN order : order[n] # Own})
    /\ Emit(admitted, order', lists, now, timer)
    /\ UNCHANGED <<up, now, rows, admitted, lists, keyed, granted, crashes,
                   faults>>

\* setUnsignedConsent.
Consent(i, allowed) ==
    /\ rows[i].unsignedConsent # allowed
    /\ rows' = [rows EXCEPT ![i].unsignedConsent = allowed]
    /\ granted' = IF allowed THEN granted \cup {i} ELSE granted
    /\ UNCHANGED <<up, now, memory, keyed, peak, crashes, faults>>

----------------------------------------------------------------------------
(* Time, crashes and the next process.                                     *)

Tick ==
    /\ now < MaxTime
    /\ now' = now + 1
    /\ UNCHANGED <<up, rows, memory, keyed, granted, peak, crashes, faults>>

\* The callback clears its handle and recomputes.
TimerFires ==
    /\ up /\ timer # None /\ timer <= now
    /\ Emit(admitted, order, lists, now, None)
    /\ UNCHANGED <<up, now, rows, admitted, order, lists, keyed, granted,
                   crashes, faults>>

Crash ==
    /\ up /\ crashes < MaxCrash
    /\ up' = FALSE /\ crashes' = crashes + 1
    /\ UNCHANGED <<now, rows, memory, keyed, granted, peak, faults>>

\* The stored event is unreadable when the next process looks.
Corrupt(i) ==
    /\ ~up /\ faults < MaxFaults
    /\ rows[i].event # None /\ ~rows[i].corrupt
    /\ rows' = [rows EXCEPT ![i].corrupt = TRUE]
    /\ faults' = faults + 1
    /\ UNCHANGED <<up, now, memory, keyed, granted, peak, crashes>>

\* A mutant: a corrupt row is deleted.
ClearedForgets(row) ==
    IF row.corrupt
    THEN [event |-> None, signedHistory |-> FALSE, unsignedConsent |-> FALSE,
          corrupt |-> FALSE]
    ELSE row

\* clearCorruptSelection: the event and its watermark go, the policy stays.
Cleared(row) ==
    IF row.corrupt THEN [row EXCEPT !.event = None, !.corrupt = FALSE] ELSE row

\* A stored event is validated again, and must belong to a configured cache.
Restored(i) ==
    {e \in {rows[i].event} \ {None} :
        /\ ~rows[i].corrupt /\ Valid(e, now) /\ i \in ToSet(Configured)}

Start ==
    /\ ~up /\ up' = TRUE
    /\ rows' = [i \in Identities |-> Cleared(rows[i])]
    /\ admitted' = UNION {Restored(i) : i \in Identities}
    /\ order' = Configured
    /\ lists' = [i \in Identities |-> 0]
    /\ \E items \in {Select(admitted', order', lists', now)} :
       LET before == [i \in Identities |->
                         IF rows[i].corrupt THEN None ELSE peak[i]]
       IN  /\ current' = items /\ timer' = Deadline(items, now)
           /\ capped' = Capped(items, now)
           /\ peak' = Peaks(items, before)
    /\ UNCHANGED <<now, keyed, granted, crashes, faults>>

Init ==
    /\ up = FALSE /\ now = 0
    /\ rows = [i \in Identities |->
                  [event |-> None, signedHistory |-> FALSE,
                   unsignedConsent |-> FALSE, corrupt |-> FALSE]]
    /\ admitted = {} /\ order = <<>> /\ lists = [i \in Identities |-> 0]
    /\ current = <<>> /\ timer = None /\ capped = FALSE
    /\ keyed = {} /\ granted = {} /\ peak = [i \in Identities |-> None]
    /\ crashes = 0 /\ faults = 0

Next ==
    \/ \E e \in Events : Accept(e) \/ AcceptCrashes(e)
    \/ \E i \in Identities : \/ AcceptServers(i) \/ Corrupt(i)
                             \/ \E b \in BOOLEAN : Consent(i, b)
    \/ Authorize \/ Tick \/ TimerFires \/ Crash \/ Start

Spec == Init /\ [][Next]_vars

\* The event loop runs timers that are due, and the daemon is started again.
FairSpec == Spec /\ WF_vars(TimerFires) /\ WF_vars(Start)

----------------------------------------------------------------------------
(* Properties.                                                             *)

Selected == {current[n].event : n \in DOMAIN current}

\* The variables have their types, and the snapshot has at most one layer per
\* authorised identity, in their order: the own cache before the others.
TypeOK ==
    /\ up \in BOOLEAN /\ now \in 0..MaxTime
    /\ rows \in [Identities -> Row]
    /\ admitted \subseteq Events
    /\ order \in Seq(Identities) /\ lists \in [Identities -> 0..MaxList]
    /\ current \in Seq(Item)
    /\ timer \in Nat \cup {None} /\ capped \in BOOLEAN
    /\ keyed \cup granted \subseteq Identities
    /\ peak \in [Identities -> Events \cup {None}]

\* Freshness: whatever the relays replay, whatever expires and however often
\* the process restarts, no identity goes back to an older publication than
\* one it has served, unless its row was lost.
NeverRollsBack == up => \A e \in Selected : peak[e.identity] = e

\* Signed history: an identity that was ever accepted with signing keys serves
\* an unsigned publication only if somebody once consented, a lost row and a
\* restart included.
NoSilentDowngrade ==
    up => \A e \in Selected :
        e.identity \in keyed /\ ~e.signed => e.identity \in granted

\* The snapshot is what the table says: a committed publication of a
\* configured cache is served as long as it is valid, nothing uncommitted is,
\* each layer has its publisher's newest server list, and the layers follow the
\* precedence, one for each cache.
SelectionIsDurable ==
    up => /\ \A e \in Selected : rows[e.identity].event = e
          /\ \A i \in ToSet(Configured) :
                rows[i].event # None /\ Valid(rows[i].event, now)
                => rows[i].event \in Selected
          /\ \A n \in DOMAIN current :
                current[n].servers = lists[current[n].event.identity]
          /\ \A m, n \in DOMAIN current :
                m < n => \E j, k \in DOMAIN order :
                   /\ current[m].event.identity # current[n].event.identity
                   /\ j < k /\ order[j] = current[m].event.identity
                   /\ order[k] = current[n].event.identity

\* D-01: an expired publication stops being served, unless the nearest
\* expiration was beyond the longest timer when the snapshot last changed: that
\* timer fires early, finds the snapshot unchanged and is not set again, and the
\* code drops nothing.
ExpiredIsDropped ==
    \A e \in Events : (up /\ e \in Selected /\ ~Valid(e, now) /\ ~capped)
                      ~> ~(up /\ e \in Selected)
=============================================================================
