---------------------------- MODULE Daemon_proofs ----------------------------
(***************************************************************************)
(* Theorems about the life of the daemon process, for every set of         *)
(* accounts and of configured signers: type correctness, the one writable  *)
(* identity, the key of a closed signer, and the order of shutdown.        *)
(***************************************************************************)
EXTENDS Daemon, TLAPS

-----------------------------------------------------------------------------
(* The inductive invariant. *)

\* signer.start() and the ready chain: an assertion of the chain is under way
\* only while it waits for it, and nothing closes the signer before the chain
\* has ended.
ReadyChain ==
    /\ calls["ready"] # None => ready = "assert"
    /\ ready = "assert" => calls["ready"] = signer.pubkey
    /\ signer.closed # "no" => ready \in {"rejecting", "ok", "failed"}

\* The activation task follows the ready chain, and its place says which
\* workers exist; from "drains" on shutdown has closed them.
ActivationTask ==
    /\ activation \notin {"none", "waiting"} => ready \in {"ok", "failed"}
    /\ activation \in {"none", "waiting", "assert"} =>
          /\ scheduler = "none" /\ coordinator = "none" /\ ~drains
    /\ activation \in {"reconcile", "confirm"} =>
          /\ ready = "ok" /\ coordinator = "none" /\ ~drains
    /\ activation \in {"cleanup", "failed"} =>
          /\ scheduler # "open" /\ coordinator # "started" /\ ~drains
    /\ activation = "failed" => ~build
    /\ activation = "done" => ready = "ok" /\ drains
    /\ activation # "done" => loop = "idle" /\ event = None
    /\ build => scheduler # "none"
    /\ calls["loop"] # None => loop = "authorize"

\* What shutdown has waited for by the time it closes things.
ShutdownOrder ==
    /\ proc \in {"drains", "closing", "finished"} =>
          /\ activation \in {"done", "failed"}
          /\ scheduler # "open" /\ coordinator # "started"
    /\ proc \in {"closing", "finished"} => ~build /\ loop = "idle"

\* Everybody who asks the signer asks for the bound identity, once the ready
\* chain has bound it.
OneBinding ==
    /\ signed \subseteq {bound}
    /\ ready = "ok" => bound # None /\ signer.pubkey = bound
    /\ \A c \in Callers \ {"ready"} : calls[c] # None =>
          ready = "ok" /\ calls[c] = bound
    /\ event # None => /\ ready = "ok"
                       /\ event.asserted \in {None, bound}
                       /\ event.author # None => event.asserted # None

Inv == /\ ReadyChain /\ ActivationTask /\ ShutdownOrder /\ OneBinding
       /\ KeyGoesWithTheSigner

-----------------------------------------------------------------------------
(* Type correctness. *)

LEMMA SignerOps ==
  ASSUME NEW s \in Signer,
         NEW status \in {"disconnected", "connecting", "ready", "failed"}
  PROVE  /\ Emits(s, status) \in Signer
         /\ Emits(s, status).pubkey = s.pubkey
         /\ Emits(s, status).closed = s.closed
         /\ Emits(s, status).active = s.active
         /\ Emits(s, status).key = s.key
         /\ Released(s, status) \in Signer
         /\ Released(s, status).pubkey = s.pubkey
         /\ Released(s, status).closed = s.closed
         /\ ~Released(s, status).active /\ ~Released(s, status).key
         /\ Closing(s) \in Signer
         /\ Closing(s).pubkey = s.pubkey
         /\ Closing(s).closed = "yes" <=> s.closed = "yes"
         /\ Closing(s).active = s.active
         /\ Closing(s).key = s.key
         /\ Closed(s) \in Signer
         /\ Closed(s).pubkey = s.pubkey
         /\ ~Closed(s).active /\ ~Closed(s).key
<1>1. /\ Emits(s, status) \in Signer
      /\ Emits(s, status).pubkey = s.pubkey
      /\ Emits(s, status).closed = s.closed
      /\ Emits(s, status).active = s.active
      /\ Emits(s, status).key = s.key
  BY DEF Emits, Signer
<1> DEFINE r == Released(s, status)
<1>2. /\ r \in Signer
      /\ r.pubkey = s.pubkey /\ r.closed = s.closed
      /\ ~r.active /\ ~r.key
  BY <1>1 DEF Released, Signer
<1>3. /\ Closing(s) \in Signer
      /\ Closing(s).pubkey = s.pubkey
      /\ Closing(s).closed = "yes" <=> s.closed = "yes"
      /\ Closing(s).active = s.active
      /\ Closing(s).key = s.key
  BY DEF Closing, Signer
<1>4. /\ Released(s, "disconnected") \in Signer
      /\ Released(s, "disconnected").pubkey = s.pubkey
      /\ ~Released(s, "disconnected").active
      /\ ~Released(s, "disconnected").key
  <2>1. /\ Emits(s, "disconnected") \in Signer
        /\ Emits(s, "disconnected").pubkey = s.pubkey
    BY DEF Emits, Signer
  <2> QED BY <2>1 DEF Released, Signer
<1>5. /\ Closed(s) \in Signer
      /\ Closed(s).pubkey = s.pubkey
      /\ ~Closed(s).active /\ ~Closed(s).key
  BY <1>4 DEF Closed, Signer
<1> HIDE DEF r
<1> QED BY <1>1, <1>2, <1>3, <1>5 DEF r

LEMMA FreshSigner ==
  /\ Disconnected \in Signer
  /\ Disconnected.pubkey = None /\ Disconnected.closed = "no"
  /\ ~Disconnected.active /\ ~Disconnected.key
  /\ [Disconnected EXCEPT !.status = "connecting"] \in Signer
  /\ [Disconnected EXCEPT !.status = "connecting"].pubkey = None
  /\ [Disconnected EXCEPT !.status = "connecting"].closed = "no"
  /\ ~[Disconnected EXCEPT !.status = "connecting"].active
  /\ ~[Disconnected EXCEPT !.status = "connecting"].key
<1>1. /\ Disconnected \in Signer
      /\ Disconnected.pubkey = None /\ Disconnected.closed = "no"
      /\ ~Disconnected.active /\ ~Disconnected.key
  BY DEF Disconnected, Signer
<1> QED BY <1>1 DEF Signer

LEMMA JudgedSigner ==
  ASSUME TypeOK, NEW c \in Callers, NEW a \in Answers(c)
  PROVE  /\ Judged(c, a) \in Signer
         /\ Judged(c, a).pubkey = signer.pubkey
         /\ Judged(c, a).closed = signer.closed
         /\ Judged(c, a).active = signer.active
         /\ Judged(c, a).key = signer.key
BY SignerOps DEF TypeOK, Judged

LEMMA IntentsType == Intents \subseteq Intent
BY DaemonAssumption

\* The process, the signer and the tasks of daemon.ts and capability.ts have
\* their types in every step.
THEOREM TypeCorrect == Spec => []TypeOK
<1>1. Init => TypeOK
  BY IntentsType, FreshSigner DEF Init, TypeOK, Intent, Callers
<1>2. TypeOK /\ [Next]_vars => TypeOK'
  <2> SUFFICES ASSUME TypeOK, [Next]_vars PROVE TypeOK'
    OBVIOUS
  <2>1. CASE Launch
    <3>1. open' \in BOOLEAN /\ drains' \in BOOLEAN /\ build' \in BOOLEAN
      BY <2>1, Zenon DEF Launch, Memory
    <3>2. intent' \in Intents /\ account' \in Pubkeys
      BY <2>1, IntentsType DEF Launch, Intent
    <3>3. /\ proc' \in {"unlocking", "up"} /\ signer' \in Signer
          /\ calls' \in [Callers -> Pubkeys \cup {None}]
      BY <2>1, FreshSigner DEF Launch, Memory
    <3> QED BY <2>1, <3>1, <3>2, <3>3 DEF Launch, Memory, TypeOK
  <2>2. CASE Crash
    BY <2>2, IntentsType, FreshSigner DEF TypeOK, Callers, Crash, Memory
  <2>3. CASE Switch
    BY <2>3, IntentsType DEF TypeOK, Signer, Callers, Switch, memory
  <2>4. CASE SourceReady
    <3>1. (intent.mode # "remote") \in BOOLEAN
      OBVIOUS
    <3>2. signer' \in Signer
      BY <2>4, <3>1 DEF SourceReady, TypeOK, Signer
    <3> QED BY <2>4, <3>2 DEF SourceReady, TypeOK, workers
  <2>5. CASE SourceFails
    BY <2>5, IntentsType, SignerOps DEF TypeOK, Callers, SourceFails, workers
  <2>6. CASE PubkeyKnown
    <3>1. signer' \in Signer
      BY <2>6 DEF PubkeyKnown, TypeOK, Signer
    <3>2. signer'.pubkey \in Pubkeys \cup {None}
      BY <3>1 DEF Signer
    <3>3. /\ calls' \in [Callers -> Pubkeys \cup {None}]
          /\ ready' \in {"assert", "failed"}
      BY <2>6, <3>2 DEF PubkeyKnown, TypeOK, Asserts, Callers
    <3> QED BY <2>6, <3>1, <3>3 DEF PubkeyKnown, TypeOK, workers
  <2>7. CASE PubkeyFails
    BY <2>7, IntentsType DEF TypeOK, Signer, Callers, PubkeyFails, workers
  <2>8. CASE StartReleased
    BY <2>8, IntentsType, SignerOps
       DEF TypeOK, Callers, StartReleased, workers
  <2>9. CASE ReadyAsserted
    BY <2>9, IntentsType, JudgedSigner, SignerOps
       DEF TypeOK, Callers, ReadyAsserted, Answers, Binds, Returns, workers
  <2>10. CASE Rejected
    BY <2>10, IntentsType, SignerOps DEF TypeOK, Callers, Rejected, workers
  <2>11. CASE ActivationBegins
    BY <2>11, IntentsType
       DEF TypeOK, Signer, Callers, ActivationBegins, Usable, Asserts, workers
  <2>12. CASE ActivationAsserted
    BY <2>12, IntentsType, JudgedSigner
       DEF TypeOK, Callers, ActivationAsserted, Answers, Returns
  <2>13. CASE Reconciled
    BY <2>13, IntentsType
       DEF TypeOK, Signer, Callers, Reconciled, Usable, Asserts, Fails
  <2>14. CASE ActivationConfirmed
    <3>1. drains' \in BOOLEAN
      BY <2>14, Zenon DEF ActivationConfirmed, Fails, TypeOK
    <3>2. /\ signer' \in Signer
          /\ activation' \in {"done", "cleanup"}
          /\ coordinator' \in {"started", "closed"}
          /\ scheduler' \in {"none", "open", "closed"}
      BY <2>14, JudgedSigner DEF ActivationConfirmed, Fails, TypeOK, Callers
    <3>3. calls' \in [Callers -> Pubkeys \cup {None}]
      BY <2>14 DEF ActivationConfirmed, Returns, TypeOK, Callers
    <3> QED BY <2>14, <3>1, <3>2, <3>3 DEF ActivationConfirmed, TypeOK
  <2>15. CASE CleanedUp
    BY <2>15, IntentsType DEF TypeOK, Signer, Callers, CleanedUp, workers
  <2>16. CASE BuildBegins
    BY <2>16, IntentsType DEF TypeOK, Signer, Callers, BuildBegins
  <2>17. CASE BuildEnds
    <3>1. build' \in BOOLEAN
      BY <2>17, Zenon DEF BuildEnds
    <3> QED BY <2>17, <3>1 DEF BuildEnds, TypeOK
  <2>18. CASE Tick
    BY <2>18, IntentsType DEF TypeOK, Signer, Callers, Tick, Usable, Asserts
  <2>19. CASE Authorized
    BY <2>19, IntentsType, JudgedSigner
       DEF TypeOK, Callers, Authorized, Answers, Returns
  <2>20. CASE RunEnds
    BY <2>20, IntentsType DEF TypeOK, Signer, Callers, RunEnds
  <2>21. CASE SignBegins
    BY <2>21, IntentsType
       DEF TypeOK, Signer, Callers, SignBegins, Usable, Asserts
  <2>22. CASE SignAsserted
    BY <2>22, IntentsType, JudgedSigner
       DEF TypeOK, Callers, SignAsserted, Answers, Returns, SignEnds
  <2>23. CASE SignAnswered
    BY <2>23, IntentsType
       DEF TypeOK, Signer, Callers, SignAnswered, Usable, Asserts, SignEnds
  <2>24. CASE SignReturns
    BY <2>24, IntentsType, JudgedSigner
       DEF TypeOK, Callers, SignReturns, Answers, Returns, SignEnds, Genuine
  <2>25. CASE SignTimesOut
    BY <2>25, IntentsType DEF TypeOK, Signer, Callers, SignTimesOut
  <2>26. CASE PutArrives
    BY <2>26, IntentsType
       DEF TypeOK, Signer, Callers, PutArrives, Usable, Asserts, workers
  <2>27. CASE PutAsserted
    BY <2>27, IntentsType, JudgedSigner
       DEF TypeOK, Callers, PutAsserted, Answers, Returns, workers
  <2>28. CASE Unlocked
    BY <2>28, IntentsType DEF TypeOK, Signer, Callers, Unlocked, memory
  <2>29. CASE Signal
    BY <2>29, IntentsType DEF TypeOK, Signer, Callers, Signal, memory
  <2>30. CASE ListenerCloses
    BY <2>30, IntentsType DEF TypeOK, Signer, Callers, ListenerCloses, memory
  <2>31. CASE TasksSettle
    BY <2>31, IntentsType DEF TypeOK, Signer, Callers, TasksSettle, DrainCalls
  <2>32. CASE DrainsSettle
    BY <2>32, IntentsType, SignerOps
       DEF TypeOK, Callers, DrainsSettle, workers
  <2>33. CASE Finish
    <3>1. open' \in BOOLEAN
      BY <2>33, Zenon DEF Finish
    <3>2. signer' \in Signer
      BY <2>33, SignerOps DEF Finish, TypeOK
    <3> QED BY <2>33, <3>1, <3>2 DEF Finish, TypeOK, workers
  <2>34. CASE Proves
    BY <2>34, IntentsType DEF TypeOK, Signer, Callers, Proves, Usable, Asserts
  <2>35. CASE Proved
    BY <2>35, IntentsType, JudgedSigner
       DEF TypeOK, Callers, Proved, Answers, Returns
  <2>36. CASE UNCHANGED vars
    BY <2>36, SMTT(30) DEF TypeOK, Signer, Callers, vars, memory
  <2> QED
    BY <2>1, <2>2, <2>3, <2>4, <2>5, <2>6, <2>7, <2>8, <2>9, <2>10, <2>11,
       <2>12, <2>13, <2>14, <2>15, <2>16, <2>17, <2>18, <2>19, <2>20, <2>21,
       <2>22, <2>23, <2>24, <2>25, <2>26, <2>27, <2>28, <2>29, <2>30, <2>31,
       <2>32, <2>33, <2>34, <2>35, <2>36
       DEF Next
<1> QED BY <1>1, <1>2, PTL DEF Spec

-----------------------------------------------------------------------------
(* Safety. *)

LEMMA InvInductive == TypeOK /\ TypeOK' /\ Inv /\ [Next]_vars => Inv'
<1> SUFFICES ASSUME TypeOK, TypeOK', Inv, [Next]_vars PROVE Inv'
  OBVIOUS
<1> USE DEF TypeOK, Callers, Inv, ReadyChain, ActivationTask, ShutdownOrder,
            OneBinding, KeyGoesWithTheSigner
<1>1. CASE Launch
  BY <1>1, FreshSigner DEF Launch, Memory
<1>2. CASE Crash
  BY <1>2, FreshSigner DEF Crash, Memory
<1>3. CASE Switch
  BY <1>3 DEF Switch, memory
<1>4. CASE SourceReady
  BY <1>4 DEF SourceReady, workers
<1>5. CASE SourceFails
  BY <1>5, SignerOps DEF SourceFails, workers
<1>6. CASE PubkeyKnown
  BY <1>6 DEF PubkeyKnown, Usable, Asserts, workers
<1>7. CASE PubkeyFails
  BY <1>7 DEF PubkeyFails, workers
<1>8. CASE StartReleased
  BY <1>8, SignerOps DEF StartReleased, workers
<1>9. CASE ReadyAsserted
  <2>1. PICK a \in Answers("ready") :
           \/ /\ a = calls["ready"] /\ Binds(a)
              /\ bound' = a /\ ready' = "ok"
              /\ UNCHANGED signer
           \/ /\ a # calls["ready"] \/ ~Binds(a)
              /\ signer' = Closing(Judged("ready", a))
              /\ ready' = "rejecting"
              /\ UNCHANGED bound
    BY <1>9 DEF ReadyAsserted
  <2>2. /\ ready = "assert" /\ calls["ready"] = signer.pubkey
        /\ calls' = [calls EXCEPT !["ready"] = None]
        /\ UNCHANGED <<proc, intent, open, account, activation, drains,
                       workers, event, signed>>
    BY <1>9 DEF ReadyAsserted, Returns
  <2>3. CASE ready' = "ok"
    <3>1. signed \subseteq {bound'} /\ bound' = signer.pubkey /\ bound' # None
      BY <1>9, <2>1, <2>2, <2>3, DaemonAssumption DEF Binds, ReadyAsserted
    <3>2. signer' = signer
      BY <2>1, <2>3
    <3> QED BY <2>2, <2>3, <3>1, <3>2 DEF workers
  <2>4. CASE ready' = "rejecting"
    <3>1. /\ signer'.closed = "yes" => signer.closed = "yes"
          /\ signer'.active = signer.active
          /\ signer'.key = signer.key
      BY <2>1, <2>4, JudgedSigner, SignerOps
    <3> QED BY <2>1, <2>2, <2>4, <3>1 DEF workers
  <2> QED BY <2>1, <2>3, <2>4
<1>10. CASE Rejected
  BY <1>10, SignerOps DEF Rejected, workers
<1>11. CASE ActivationBegins
  BY <1>11 DEF ActivationBegins, Usable, Asserts, workers
<1>12. CASE ActivationAsserted
  BY <1>12, JudgedSigner DEF ActivationAsserted, Answers, Returns
<1>13. CASE Reconciled
  BY <1>13 DEF Reconciled, Usable, Asserts, Fails
<1>14. CASE ActivationConfirmed
  BY <1>14, JudgedSigner DEF ActivationConfirmed, Answers, Returns, Fails
<1>15. CASE CleanedUp
  BY <1>15 DEF CleanedUp, workers
<1>16. CASE BuildBegins
  BY <1>16 DEF BuildBegins
<1>17. CASE BuildEnds
  BY <1>17 DEF BuildEnds
<1>18. CASE Tick
  BY <1>18 DEF Tick, Usable, Asserts
<1>19. CASE Authorized
  BY <1>19, JudgedSigner DEF Authorized, Answers, Returns
<1>20. CASE RunEnds
  BY <1>20 DEF RunEnds
<1>21. CASE SignBegins
  BY <1>21 DEF SignBegins, Usable, Asserts
<1>22. CASE SignAsserted
  BY <1>22, JudgedSigner DEF SignAsserted, Answers, Returns, SignEnds
<1>23. CASE SignAnswered
  BY <1>23 DEF SignAnswered, Usable, Asserts, SignEnds
<1>24. CASE SignReturns
  BY <1>24, JudgedSigner DEF SignReturns, Answers, Returns, SignEnds, Genuine
<1>25. CASE SignTimesOut
  BY <1>25 DEF SignTimesOut
<1>26. CASE PutArrives
  BY <1>26 DEF PutArrives, Usable, Asserts, workers
<1>27. CASE PutAsserted
  BY <1>27, JudgedSigner DEF PutAsserted, Answers, Returns, workers
<1>28. CASE Unlocked
  BY <1>28 DEF Unlocked, memory
<1>29. CASE Signal
  BY <1>29 DEF Signal, memory
<1>30. CASE ListenerCloses
  BY <1>30 DEF ListenerCloses, memory
<1>31. CASE TasksSettle
  BY <1>31 DEF TasksSettle, DrainCalls
<1>32. CASE DrainsSettle
  BY <1>32, SignerOps DEF DrainsSettle, workers
<1>33. CASE Finish
  BY <1>33, SignerOps DEF Finish, workers
<1>34. CASE Proves
  BY <1>34 DEF Proves, Usable, Asserts
<1>35. CASE Proved
  BY <1>35, JudgedSigner DEF Proved, Answers, Returns
<1>36. CASE UNCHANGED vars
  BY <1>36 DEF vars, memory
<1> QED
  BY <1>1, <1>2, <1>3, <1>4, <1>5, <1>6, <1>7, <1>8, <1>9, <1>10, <1>11,
     <1>12, <1>13, <1>14, <1>15, <1>16, <1>17, <1>18, <1>19, <1>20, <1>21,
     <1>22, <1>23, <1>24, <1>25, <1>26, <1>27, <1>28, <1>29, <1>30, <1>31,
     <1>32, <1>33, <1>34, <1>35, <1>36
     DEF Next

LEMMA Invariance == Spec => [](TypeOK /\ Inv)
<1>1. Init => Inv
  BY FreshSigner DEF Init, Inv, ReadyChain, ActivationTask, ShutdownOrder,
                     OneBinding, KeyGoesWithTheSigner, Callers
<1> QED BY <1>1, TypeCorrect, InvInductive, PTL DEF Spec

\* dispose() closes the databases and the signer only when the ready chain and
\* the activation have ended, no build or run is under way, and neither the
\* scheduler nor the coordinator can begin another.
THEOREM ShutdownDrains == Spec => []WorkersDrained
<1>1. Inv => WorkersDrained
  BY DEF Inv, ActivationTask, ShutdownOrder, WorkersDrained
<1> QED BY <1>1, Invariance, PTL

\* The identity bound first is the only one that signEvent ever signs for and
\* that activation serves, through crashes, relaunches with any configured
\* signer and account switches during a call.
THEOREM IdentityIsBound == Spec => []OneIdentity
<1>1. Inv => OneIdentity
  BY DEF Inv, OneBinding, ActivationTask, OneIdentity
<1> QED BY <1>1, Invariance, PTL

\* A signer that close() has ended keeps neither its connection nor its key,
\* although start() assigns both after awaits and does not look at closed.
THEOREM ClosedSignerIsEmpty == Spec => []KeyGoesWithTheSigner
<1>1. Inv => KeyGoesWithTheSigner
  BY DEF Inv
<1> QED BY <1>1, Invariance, PTL
=============================================================================
