------------------------------- MODULE Daemon -------------------------------
(***************************************************************************)
(* The life of one daemon process: the signer capability                   *)
(* (signer/capability.ts), the activation of the write path and the        *)
(* supervisor's shutdown (runtime/daemon.ts, app.ts), and the durable      *)
(* identity the write database is bound to (WriteRepository.bindIdentity). *)
(*                                                                         *)
(* The signer is shared: the ready chain, the activation, the publication  *)
(* loop and uploads call assertIdentity or signEvent at any time, and each *)
(* call awaits an answer of a signer that may be remote, fail, or answer   *)
(* for another account than before.  What the workers do between their     *)
(* calls is in Publication and WritePath; here a worker only starts, uses  *)
(* the databases, and ends.                                                *)
(***************************************************************************)
EXTENDS Naturals, FiniteSets

CONSTANTS
    Pubkeys,        \* accounts
    Intents,        \* configured signers: sets of [mode, pubkey]
    None

\* "local" is a key file or an nsec, "remote" a NIP-46 connection (nip46,
\* nbunksec), "locked" an ncryptsec that needs a password before bind.
Intent == [mode : {"local", "remote", "locked"}, pubkey : Pubkeys]

ASSUME DaemonAssumption ==
    /\ Intents \subseteq Intent
    /\ None \notin Pubkeys

VARIABLES
    proc,        \* where launchDaemon and shutdown are
    intent,      \* config.writeIntent
    bound,       \* writable_owner: the identity of the write database
    open,        \* the write database and the blob store are open
    signer,      \* the signer capability
    account,     \* who the signer behind it answers for
    ready,       \* the signerReady chain
    activation,  \* the activation task
    drains,      \* the activation has registered its drains
    calls,       \* assertions under way: state.pubkey each has read
    scheduler,   \* the batch scheduler
    build,       \* a build of its serial chain is under way
    coordinator, \* the publication coordinator
    loop,        \* where its #run is
    event,       \* signEvent under way: [asserted, author]
    signed       \* history: authors of the events signEvent returned

memory == <<signer, ready, activation, drains, calls, scheduler, build,
            coordinator, loop, event>>
workers == <<scheduler, build, coordinator, loop>>
vars == <<proc, intent, bound, open, account, memory, signed>>

Callers == {"ready", "activate", "loop", "prove", "sign", "put"}

Signer == [status : {"disconnected", "connecting", "ready", "failed"},
           pubkey : Pubkeys \cup {None},     \* of the state "ready"
           active : BOOLEAN,
           key : BOOLEAN,                    \* retainedKey is not wiped
           closed : {"no", "closing", "yes"}]

Disconnected == [status |-> "disconnected", pubkey |-> None,
                 active |-> FALSE, key |-> FALSE, closed |-> "no"]

Init == /\ proc = "down" /\ intent \in Intents /\ bound = None /\ open = FALSE
        /\ account = intent.pubkey
        /\ signer = Disconnected /\ ready = "none" /\ activation = "none"
        /\ drains = FALSE /\ calls = [c \in Callers |-> None]
        /\ scheduler = "none" /\ build = FALSE
        /\ coordinator = "none" /\ loop = "idle" /\ event = None
        /\ signed = {}

----------------------------------------------------------------------------
(* The signer capability.                                                  *)

\* subject.next: nothing is emitted once close() has completed the subject.
Emits(s, status) ==
    IF s.closed = "yes" THEN s ELSE [s EXCEPT !.status = status]

\* The check with which assertIdentity and signEvent begin.
Usable(s) == s.closed = "no" /\ s.status = "ready" /\ s.active

\* A mutant: close() leaves the retained key.
ReleasedKeepsKey(s, status) == [Emits(s, status) EXCEPT !.active = FALSE]

\* What the failure path of start() and the end of close() share.
Released(s, status) ==
    [Emits(s, status) EXCEPT !.active = FALSE, !.key = FALSE]

Closing(s) == IF s.closed = "no" THEN [s EXCEPT !.closed = "closing"] ELSE s
Closed(s) == [Released(s, "disconnected") EXCEPT !.closed = "yes"]

\* assertIdentity by c up to its await, of the signer state s.
Asserts(c, s) == calls' = [calls EXCEPT ![c] = s.pubkey]
Returns(c) == calls' = [calls EXCEPT ![c] = None]

\* What the await of c's assertion may end with: the pubkey, or an error,
\* which an in-memory key never gives.
Answers(c) == {account} \cup (IF intent.mode = "remote" THEN {None} ELSE {})

\* The signer state after the answer a: another account than the state's ends
\* the capability's readiness for good.
Judged(c, a) ==
    IF a \in {None, calls[c]} THEN signer ELSE Emits(signer, "failed")

\* External: another account is chosen at the remote signer.
Switch ==
    /\ proc # "down" /\ intent.mode = "remote"
    /\ account' \in Pubkeys \ {account}
    /\ UNCHANGED <<proc, intent, bound, open, memory, signed>>

----------------------------------------------------------------------------
(* launchDaemon: the repositories are opened, the signer is started.       *)

\* The memory of a new process, or of none.
Memory(s, chain, task) ==
    /\ signer' = s /\ ready' = chain /\ activation' = task
    /\ drains' = FALSE /\ calls' = [c \in Callers |-> None]
    /\ scheduler' = "none" /\ build' = FALSE
    /\ coordinator' = "none" /\ loop' = "idle" /\ event' = None

\* A locked signer is awaited before the port is bound.
Launch ==
    /\ proc \in {"down", "finished"}
    /\ intent' \in Intents
    /\ account' = intent'.pubkey
    /\ proc' = IF intent'.mode = "locked" THEN "unlocking" ELSE "up"
    /\ open' = TRUE
    /\ Memory([Disconnected EXCEPT !.status = "connecting"], "source",
              "waiting")
    /\ UNCHANGED <<bound, signed>>

Crash ==
    /\ proc \notin {"down", "finished"}
    /\ proc' = "down" /\ open' = FALSE
    /\ Memory(Disconnected, "none", "none")
    /\ UNCHANGED <<intent, bound, account, signed>>

\* start(): the key is read or unlocked, or the remote signer connected.
SourceReady ==
    /\ ready = "source"
    /\ signer' = [signer EXCEPT !.active = TRUE, !.key = intent.mode # "remote"]
    /\ ready' = "pubkey"
    /\ UNCHANGED <<proc, intent, bound, open, account, activation, drains,
                   calls, workers, event, signed>>

\* An unreadable file, no connection, no or a wrong password.
SourceFails ==
    /\ ready = "source"
    /\ signer' = Released(signer, "failed")
    /\ ready' = "failed"
    /\ UNCHANGED <<proc, intent, bound, open, account, activation, drains,
                   calls, workers, event, signed>>

\* The public key ends start(); the ready chain asserts the identity.
PubkeyKnown ==
    /\ ready = "pubkey"
    /\ signer' = IF signer.closed = "yes" THEN signer
                 ELSE [signer EXCEPT !.status = "ready", !.pubkey = account]
    /\ IF Usable(signer')
       THEN Asserts("ready", signer') /\ ready' = "assert"
       ELSE UNCHANGED calls /\ ready' = "failed"
    /\ UNCHANGED <<proc, intent, bound, open, account, activation, drains,
                   workers, event, signed>>

PubkeyFails ==
    /\ ready = "pubkey" /\ intent.mode = "remote"
    /\ ready' = "releasing"
    /\ UNCHANGED <<proc, intent, bound, open, account, signer, activation,
                   drains, calls, workers, event, signed>>

\* active.close() of the failed start().
StartReleased ==
    /\ ready = "releasing"
    /\ signer' = Released(signer, "failed")
    /\ ready' = "failed"
    /\ UNCHANGED <<proc, intent, bound, open, account, activation, drains,
                   calls, workers, event, signed>>

\* bindIdentity: the first identity is durable, another one is refused.
Binds(pubkey) == pubkey # None /\ bound \in {None, pubkey}

\* The ready chain's assertion ends: bindIdentity, or close() of the signer.
ReadyAsserted ==
    /\ calls["ready"] # None
    /\ \E a \in Answers("ready") :
          \/ /\ a = calls["ready"] /\ Binds(a)
             /\ bound' = a /\ ready' = "ok"
             /\ UNCHANGED signer
          \/ /\ a # calls["ready"] \/ ~Binds(a)
             /\ signer' = Closing(Judged("ready", a))
             /\ ready' = "rejecting"
             /\ UNCHANGED bound
    /\ Returns("ready")
    /\ UNCHANGED <<proc, intent, open, account, activation, drains, workers,
                   event, signed>>

Rejected ==
    /\ ready = "rejecting"
    /\ signer' = Closed(signer)
    /\ ready' = "failed"
    /\ UNCHANGED <<proc, intent, bound, open, account, activation, drains,
                   calls, workers, event, signed>>

----------------------------------------------------------------------------
(* The activation task.                                                    *)

\* The task continues after signerReady.
ActivationBegins ==
    /\ activation = "waiting" /\ ready \in {"ok", "failed"}
    /\ \/ /\ ready = "ok" /\ Usable(signer)
          /\ Asserts("activate", signer)
          /\ activation' = "assert"
       \/ /\ ready = "failed" \/ ~Usable(signer)
          /\ activation' = "failed"
          /\ UNCHANGED calls
    /\ UNCHANGED <<proc, intent, bound, open, account, signer, ready, drains,
                   workers, event, signed>>

\* The first assertion: the scheduler is created, which takes up failed
\* batches, and eligibility is reconciled.
ActivationAsserted ==
    /\ activation = "assert" /\ calls["activate"] # None
    /\ \E a \in Answers("activate") :
          /\ signer' = Judged("activate", a)
          /\ \/ /\ a = calls["activate"]
                /\ activation' = "reconcile" /\ scheduler' = "open"
             \/ /\ a # calls["activate"]
                /\ activation' = "failed" /\ UNCHANGED scheduler
    /\ Returns("activate")
    /\ UNCHANGED <<proc, intent, bound, open, account, ready, drains, build,
                   coordinator, loop, event, signed>>

\* A mutant: a failed activation only closes the coordinator.
FailsLate ==
    /\ activation' = "cleanup" /\ coordinator' = "closed"
    /\ UNCHANGED <<scheduler, drains>>

\* The catch of activateWrites closes both workers, of which only the
\* scheduler can be running.
Fails ==
    /\ activation' = "cleanup" /\ coordinator' = "closed"
    /\ scheduler' = "closed"
    /\ UNCHANGED drains

Reconciled ==
    /\ activation = "reconcile"
    /\ \/ /\ Usable(signer)
          /\ Asserts("activate", signer)
          /\ activation' = "confirm"
          /\ UNCHANGED <<scheduler, coordinator, drains>>
       \/ /\ Fails    \* the lower layers fail, are aborted, or no signer
          /\ UNCHANGED calls
    /\ UNCHANGED <<proc, intent, bound, open, account, signer, ready, build,
                   loop, event, signed>>

\* The second assertion: everything starts, the drains are registered.
ActivationConfirmed ==
    /\ activation = "confirm" /\ calls["activate"] # None
    /\ \E a \in Answers("activate") :
          /\ signer' = Judged("activate", a)
          /\ \/ /\ a = calls["activate"]
                /\ activation' = "done" /\ coordinator' = "started"
                /\ drains' = TRUE
                /\ UNCHANGED scheduler
             \/ /\ a # calls["activate"]
                /\ Fails
    /\ Returns("activate")
    /\ UNCHANGED <<proc, intent, bound, open, account, ready, build, loop,
                   event, signed>>

CleanedUp ==
    /\ activation = "cleanup" /\ ~build
    /\ activation' = "failed"
    /\ UNCHANGED <<proc, intent, bound, open, account, signer, ready, drains,
                   calls, workers, event, signed>>

----------------------------------------------------------------------------
(* The workers.                                                            *)

BuildBegins ==
    /\ scheduler = "open" /\ ~build
    /\ build' = TRUE
    /\ UNCHANGED <<proc, intent, bound, open, account, signer, ready,
                   activation, drains, calls, scheduler, coordinator, loop,
                   event, signed>>

BuildEnds ==
    /\ build
    /\ build' = FALSE
    /\ UNCHANGED <<proc, intent, bound, open, account, signer, ready,
                   activation, drains, calls, scheduler, coordinator, loop,
                   event, signed>>

\* #run, and later #repair, begin with authorize: assertIdentity, without a
\* timeout or the loop's signal.
Tick ==
    /\ coordinator = "started" /\ loop \in {"idle", "working"}
    /\ Usable(signer)
    /\ Asserts("loop", signer)
    /\ loop' = "authorize"
    /\ UNCHANGED <<proc, intent, bound, open, account, signer, ready,
                   activation, drains, scheduler, build, coordinator, event,
                   signed>>

Authorized ==
    /\ calls["loop"] # None
    /\ \E a \in Answers("loop") :
          /\ signer' = Judged("loop", a)
          /\ loop' = IF a = calls["loop"] /\ coordinator = "started"
                     THEN "working" ELSE "idle"
    /\ Returns("loop")
    /\ UNCHANGED <<proc, intent, bound, open, account, ready, activation,
                   drains, scheduler, build, coordinator, event, signed>>

\* replica.prove, of the first replication or of a repair, asserts the identity
\* the same way; bound: one at a time.
Proves ==
    /\ loop = "working" /\ calls["prove"] = None /\ Usable(signer)
    /\ Asserts("prove", signer)
    /\ loop' = "proving"
    /\ UNCHANGED <<proc, intent, bound, open, account, signer, ready,
                   activation, drains, scheduler, build, coordinator, event,
                   signed>>

Proved ==
    /\ calls["prove"] # None
    /\ \E a \in Answers("prove") :
          /\ signer' = Judged("prove", a)
          /\ loop' = IF loop # "proving" THEN loop
                     ELSE IF a = calls["prove"] /\ coordinator = "started"
                     THEN "working" ELSE "idle"
    /\ Returns("prove")
    /\ UNCHANGED <<proc, intent, bound, open, account, ready, activation,
                   drains, scheduler, build, coordinator, event, signed>>

\* The run needs no signature, or an operation of it fails: another repair, on
\* which #repair's Promise.all rejects while the proof goes on by itself.
RunEnds ==
    /\ loop \in {"working", "proving"}
    /\ loop' = "idle"
    /\ UNCHANGED <<proc, intent, bound, open, account, signer, ready,
                   activation, drains, calls, scheduler, build, coordinator,
                   event, signed>>

\* signEvent within #bounded: its first assertion.  A call that #bounded gave
\* up goes on, awaited by nobody; bound: the next one begins after it.
SignBegins ==
    /\ loop = "working" /\ event = None /\ Usable(signer)
    /\ Asserts("sign", signer)
    /\ loop' = "signing"
    /\ event' = [asserted |-> None, author |-> None]
    /\ UNCHANGED <<proc, intent, bound, open, account, signer, ready,
                   activation, drains, scheduler, build, coordinator, signed>>

\* signEvent ends for whoever still awaits it.
SignEnds ==
    /\ event' = None
    /\ loop' = IF loop = "signing" THEN "idle" ELSE loop

\* The first assertion of signEvent ends; active.signEvent is called, on
\* nothing when close() came in between.
SignAsserted ==
    /\ calls["sign"] # None /\ event # None /\ event.asserted = None
    /\ \E a \in Answers("sign") :
          /\ signer' = Judged("sign", a)
          /\ \/ /\ a = calls["sign"] /\ signer.active
                /\ event' = [event EXCEPT !.asserted = a]
                /\ UNCHANGED loop
             \/ /\ a # calls["sign"] \/ ~signer.active
                /\ SignEnds
    /\ Returns("sign")
    /\ UNCHANGED <<proc, intent, bound, open, account, ready, activation,
                   drains, scheduler, build, coordinator, signed>>

\* The signer signs for the account it has now, and the identity is asserted
\* again; the signal of #bounded rejects what arrives after it.
SignAnswered ==
    /\ event # None /\ event.asserted # None /\ event.author = None
    /\ \/ /\ loop = "signing" /\ Usable(signer)
          /\ event' = [event EXCEPT !.author = account]
          /\ Asserts("sign", signer)
          /\ UNCHANGED loop
       \/ /\ intent.mode = "remote" \/ loop # "signing" \/ ~Usable(signer)
          /\ SignEnds
          /\ UNCHANGED calls
    /\ UNCHANGED <<proc, intent, bound, open, account, signer, ready,
                   activation, drains, scheduler, build, coordinator, signed>>

\* A mutant: the author of the event is not looked at.
GenuineAlways(e) == e.author # None

\* event.pubkey !== pubkey, the last check of signEvent.
Genuine(e) == e.author = e.asserted

SignReturns ==
    /\ calls["sign"] # None /\ event # None /\ event.author # None
    /\ \E a \in Answers("sign") :
          /\ signer' = Judged("sign", a)
          /\ signed' = IF a = calls["sign"] /\ Genuine(event)
                       THEN signed \cup {event.author} ELSE signed
    /\ SignEnds
    /\ Returns("sign")
    /\ UNCHANGED <<proc, intent, bound, open, account, ready, activation,
                   drains, scheduler, build, coordinator>>

\* #bounded: its timeout gives the call up, which goes on by itself.
SignTimesOut ==
    /\ loop = "signing"
    /\ loop' = "idle"
    /\ UNCHANGED <<proc, intent, bound, open, account, signer, ready,
                   activation, drains, calls, scheduler, build, coordinator,
                   event, signed>>

\* PUT: readiness, then authorize; onStaged asserts the same way.
PutArrives ==
    /\ proc = "up" /\ activation = "done" /\ calls["put"] = None
    /\ Usable(signer) /\ bound = signer.pubkey
    /\ Asserts("put", signer)
    /\ UNCHANGED <<proc, intent, bound, open, account, signer, ready,
                   activation, drains, workers, event, signed>>

PutAsserted ==
    /\ calls["put"] # None
    /\ \E a \in Answers("put") : signer' = Judged("put", a)
    /\ Returns("put")
    /\ UNCHANGED <<proc, intent, bound, open, account, ready, activation,
                   drains, workers, event, signed>>

----------------------------------------------------------------------------
(* Shutdown.                                                               *)

\* readyBeforeBind: the port is bound, or the resources are closed.
Unlocked ==
    /\ proc = "unlocking" /\ ready \in {"ok", "failed"}
    /\ proc' = IF ready = "ok" THEN "up" ELSE "tasks"
    /\ UNCHANGED <<intent, bound, open, account, memory, signed>>

\* SIGINT or SIGTERM; a second one joins the first.
Signal ==
    /\ proc = "up"
    /\ proc' = "listener"
    /\ UNCHANGED <<intent, bound, open, account, memory, signed>>

\* listener.shutdown() ends, or throws: dispose() in both cases.  A PUT whose
\* client has gone no longer holds the listener.
ListenerCloses ==
    /\ proc = "listener"
    /\ proc' = "tasks"
    /\ UNCHANGED <<intent, bound, open, account, memory, signed>>

\* Promise.allSettled(tasks), then every registered drain is called.  The
\* coordinator's close() aborts what #bounded and the uploader run; what waits
\* for an assertion, in authorize or in prove, goes on and is waited for.
DrainCalls ==
    IF drains
    THEN /\ scheduler' = "closed" /\ coordinator' = "closed"
         /\ loop' = IF loop \in {"working", "signing"} THEN "idle" ELSE loop
    ELSE UNCHANGED <<scheduler, coordinator, loop>>

\* A mutant: the drains do not wait for the tasks.
TasksIgnored ==
    /\ proc = "tasks"
    /\ DrainCalls
    /\ proc' = "drains"
    /\ UNCHANGED <<intent, bound, open, account, signer, ready, activation,
                   drains, calls, build, event, signed>>

TasksSettle ==
    /\ proc = "tasks" /\ activation \in {"done", "failed"}
    /\ DrainCalls
    /\ proc' = "drains"
    /\ UNCHANGED <<intent, bound, open, account, signer, ready, activation,
                   drains, calls, build, event, signed>>

\* The drains settle: the scheduler's chain and the coordinator's have ended.
\* finish() disposes of the selector and the stream and closes the signer.
DrainsSettle ==
    /\ proc = "drains"
    /\ drains => ~build /\ loop = "idle"
    /\ proc' = "closing"
    /\ signer' = Closing(signer)
    /\ UNCHANGED <<intent, bound, open, account, ready, activation, drains,
                   calls, workers, event, signed>>

\* signer.close() has ended: the databases and the Nostr service are closed.
Finish ==
    /\ proc = "closing"
    /\ signer' = Closed(signer)
    /\ open' = FALSE
    /\ proc' = "finished"
    /\ UNCHANGED <<intent, bound, account, ready, activation, drains, calls,
                   workers, event, signed>>

Next ==
    \/ Launch \/ Crash \/ Switch
    \/ SourceReady \/ SourceFails \/ PubkeyKnown \/ PubkeyFails
    \/ StartReleased \/ ReadyAsserted \/ Rejected
    \/ ActivationBegins \/ ActivationAsserted \/ Reconciled
    \/ ActivationConfirmed \/ CleanedUp
    \/ BuildBegins \/ BuildEnds
    \/ Tick \/ Authorized \/ Proves \/ Proved \/ RunEnds
    \/ SignBegins \/ SignAsserted \/ SignAnswered \/ SignReturns
    \/ SignTimesOut \/ PutArrives \/ PutAsserted
    \/ Unlocked \/ Signal \/ ListenerCloses \/ TasksSettle \/ DrainsSettle
    \/ Finish

Spec == Init /\ [][Next]_vars

\* A key in memory answers always; a remote signer that does not is awaited for
\* ever, since none of these calls has a timeout or a signal.
InMemory(A) == intent.mode # "remote" /\ A

Start == SourceReady \/ SourceFails \/ PubkeyKnown \/ PubkeyFails
         \/ ReadyAsserted

\* Promise continuations run, aborted builds and fetches with deadlines end; the
\* listener closes once the requests it waits for, a PUT's among them, have.
\* Nobody has to send a signal, and nothing is promised about signing.
FairSpec ==
    /\ Spec
    /\ WF_vars(InMemory(Start))
    /\ WF_vars(InMemory(ActivationAsserted \/ ActivationConfirmed))
    /\ WF_vars(InMemory(Authorized)) /\ WF_vars(InMemory(Proved))
    /\ WF_vars(InMemory(PutAsserted))
    /\ WF_vars(StartReleased \/ Rejected)
    /\ WF_vars(ActivationBegins \/ Reconciled \/ CleanedUp)
    /\ WF_vars(BuildEnds)
    /\ WF_vars(calls["put"] = None /\ ListenerCloses)
    /\ WF_vars(Unlocked \/ TasksSettle \/ DrainsSettle \/ Finish)

----------------------------------------------------------------------------
(* Properties.                                                             *)

\* Types of the process's state and of the signer's.
TypeOK ==
    /\ proc \in {"down", "unlocking", "up", "listener", "tasks", "drains",
                 "closing", "finished"}
    /\ intent \in Intents /\ bound \in Pubkeys \cup {None} /\ open \in BOOLEAN
    /\ signer \in Signer /\ account \in Pubkeys
    /\ ready \in {"none", "source", "pubkey", "releasing", "assert",
                  "rejecting", "ok", "failed"}
    /\ activation \in {"none", "waiting", "assert", "reconcile", "confirm",
                       "cleanup", "done", "failed"}
    /\ drains \in BOOLEAN /\ build \in BOOLEAN
    /\ calls \in [Callers -> Pubkeys \cup {None}]
    /\ scheduler \in {"none", "open", "closed"}
    /\ coordinator \in {"none", "started", "closed"}
    /\ loop \in {"idle", "authorize", "working", "proving", "signing"}
    /\ event \in [asserted : Pubkeys \cup {None}, author : Pubkeys \cup {None}]
                \cup {None}
    /\ signed \subseteq Pubkeys

\* shutdown drains users before closing the store: wherever the signal falls
\* into start, activation, a build or a run, the ready chain, the activation,
\* builds and runs have ended and none can begin once finish() closes the
\* databases and the signer.  Left out is what nobody awaits: a signEvent that
\* #bounded gave up, a repair that outlives #repair, a PUT's assertion.
WorkersDrained ==
    proc \in {"closing", "finished"} =>
        /\ ready \in {"ok", "failed"} /\ activation \in {"done", "failed"}
        /\ scheduler # "open" /\ ~build
        /\ coordinator # "started" /\ loop = "idle"

\* One writable identity for ever: whatever the configuration of later
\* launches and whatever account a remote signer switches to in the middle of
\* a call, signEvent returns and activation serves the bound identity only.
OneIdentity ==
    /\ \A author \in signed : author = bound
    /\ activation \in {"reconcile", "confirm", "done"} =>
          signer.pubkey = bound

\* A closed signer has no connection and no key, although start() does not
\* look at `closed` after its awaits.
KeyGoesWithTheSigner ==
    signer.closed = "yes" => ~signer.active /\ ~signer.key

\* The condition of the next property: a remote signer answers, or fails, every
\* call that shutdown waits for.
SignerAnswers ==
    /\ WF_vars(Start) /\ WF_vars(ActivationAsserted \/ ActivationConfirmed)
    /\ WF_vars(Authorized) /\ WF_vars(Proved) /\ WF_vars(PutAsserted)

\* If the signer answers, a shutdown ends, in the middle of start, activation, a
\* build or a run, with the drains registered or not yet.
ShutdownEnds ==
    SignerAnswers =>
        (proc \in {"listener", "tasks"} ~> proc \in {"finished", "down"})
=============================================================================
