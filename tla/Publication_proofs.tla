-------------------------- MODULE Publication_proofs --------------------------
(***************************************************************************)
(* Theorems about the publication loop, for every value of its constants:  *)
(* type correctness, the events of the sagas (one per candidate, kept      *)
(* until its admission, ever newer), the rows of endpoint work, the        *)
(* availability gate (an announced event is always available, and          *)
(* Publication implements PublicationGate), and the inventory of the       *)
(* active saga, which is that of its candidate and has an owner row.       *)
(***************************************************************************)
EXTENDS Publication, FiniteSetTheorems, TLAPS

USE DEF Generations, Batches, Targets

-----------------------------------------------------------------------------
(* Type correctness of the tables: one lemma per repository operation. *)

LEMMA NewSagaType ==
  ASSUME NEW c \in Candidate, NEW D \in SUBSET Servers
  PROVE  NewSaga(c, D) \in Saga
BY DEF NewSaga, Saga, Candidate

LEMMA WindowOpsType ==
  ASSUME TablesTypeOK
  PROVE  /\ (CommitOverlay /\ MarkPublicationDirty(generation + 1)) => TablesTypeOK'
         /\ ClaimPublicationBatch => TablesTypeOK'
<1>1. ASSUME CommitOverlay, MarkPublicationDirty(generation + 1)
      PROVE  TablesTypeOK'
  <2>1. generation' \in 0..MaxGeneration
    BY <1>1, TablesAssumption DEF TablesTypeOK, CommitOverlay
  <2>2. window' \in 0..MaxGeneration
    BY <1>1, <2>1, TablesAssumption
       DEF TablesTypeOK, CommitOverlay, MarkPublicationDirty
  <2> QED BY <1>1, <2>1, <2>2 DEF TablesTypeOK, MarkPublicationDirty, rowTables
<1>2. ASSUME ClaimPublicationBatch
      PROVE  TablesTypeOK'
  <2>1. lastBatch' \in 0..MaxBatch /\ lastBatch + 1 \in Batches
    BY <1>2, TablesAssumption DEF TablesTypeOK, ClaimPublicationBatch
  <2>2. window \in Generations /\ window' \in 0..MaxGeneration
    BY <1>2, TablesAssumption DEF TablesTypeOK, ClaimPublicationBatch
  <2>3. batches' \in [Batches -> Batch \cup {None}]
    BY <1>2, <2>1, <2>2 DEF TablesTypeOK, ClaimPublicationBatch, Batch
  <2> QED BY <1>2, <2>1, <2>2, <2>3
          DEF TablesTypeOK, ClaimPublicationBatch, rowTables
<1> QED BY <1>1, <1>2

LEMMA BuildOpsType ==
  ASSUME TablesTypeOK, NEW b \in Batches
  PROVE  /\ RecordPending(b) => TablesTypeOK'
         /\ MarkBatchFailed(b) => TablesTypeOK'
<1>1. ASSUME RecordPending(b)
      PROVE  TablesTypeOK'
  <2>1. batches[b] \in Batch
    BY <1>1 DEF RecordPending, Buildable, TablesTypeOK
  <2>2. Tree[batches[b].gen] \subseteq Hashes
    BY <2>1, TablesAssumption DEF Batch
  <2>3. owners' \in [{"batch", "saga"} -> [Batches -> SUBSET Hashes]]
    BY <1>1, <2>2, ZenonT(40) DEF RecordPending, TablesTypeOK
  <2>4. pending' \in Candidate \cup {None}
    BY <1>1, <2>1 DEF RecordPending, Candidate, Batch
  <2>5. batches' \in [Batches -> Batch \cup {None}]
    BY <1>1, <2>1 DEF RecordPending, Batch, TablesTypeOK
  <2> QED BY <1>1, <2>3, <2>4, <2>5 DEF RecordPending, TablesTypeOK, rowTables
<1>2. ASSUME MarkBatchFailed(b)
      PROVE  TablesTypeOK'
  <2>1. batches' \in [Batches -> Batch \cup {None}]
    BY <1>2 DEF MarkBatchFailed, Batch, TablesTypeOK
  <2> QED BY <1>2, <2>1 DEF MarkBatchFailed, TablesTypeOK, rowTables
<1> QED BY <1>1, <1>2

LEMMA CreditsType ==
  ASSUME TablesTypeOK, NEW c \in Credits
  PROVE  /\ c \in Servers \cup {None}
         /\ c # None => /\ saga \in Saga /\ saga # None
                        /\ saga.complete = None /\ saga.signed = None
                        /\ \E h \in history : /\ h.complete = c /\ c \in saga.dest
                                              /\ Tree[h.gen] = Tree[saga.gen]
         /\ saga \in Saga => Credited(c) \in Saga
<1>1. /\ c # None => /\ saga # None /\ saga.complete = None /\ saga.signed = None
                     /\ \E h \in history : /\ h.complete = c /\ c \in saga.dest
                                           /\ Tree[h.gen] = Tree[saga.gen]
  BY DEF Credits, Priors
<1>2. c \in Servers \cup {None}
  BY <1>1 DEF TablesTypeOK, Saga
<1>3. saga \in Saga => Credited(c) \in Saga
  BY <1>2 DEF Credited, Saga
<1> QED BY <1>1, <1>2, <1>3 DEF TablesTypeOK

LEMMA ClaimType ==
  ASSUME TablesTypeOK, NEW c \in Credits, NEW D \in SUBSET Servers
  PROVE  /\ ClaimKeep(c) => TablesTypeOK'
         /\ ClaimReplace(c, D) => TablesTypeOK'
<1>1. ASSUME ClaimKeep(c)
      PROVE  TablesTypeOK'
  <2>1. saga' \in Saga \cup {None}
    BY <1>1, CreditsType DEF ClaimKeep, TablesTypeOK, Credited
  <2>2. work' \in [Batches -> [Targets -> Statuses]]
    <3>1. CASE c = None
      BY <1>1, <3>1 DEF ClaimKeep, TablesTypeOK, CreditedWork
    <3>2. CASE c # None
      <4>1. saga.batch \in Batches
        BY <3>2, CreditsType DEF Saga
      <4>2. work[saga.batch] \in [Targets -> Statuses]
        BY <4>1 DEF TablesTypeOK
      <4> DEFINE f == [t \in Targets |->
                         IF t \in Relays \/ work[saga.batch][t] = "absent"
                         THEN work[saga.batch][t]
                         ELSE IF t = c THEN "complete" ELSE "exhausted"]
      <4>3. f \in [Targets -> Statuses]
        BY <4>2 DEF Statuses
      <4>4. work' = [work EXCEPT ![saga.batch] = f]
        BY <1>1, <3>2 DEF ClaimKeep, CreditedWork
      <4> QED BY <4>3, <4>4 DEF TablesTypeOK
    <3> QED BY <3>1, <3>2
  <2> QED BY <1>1, <2>1, <2>2 DEF ClaimKeep, TablesTypeOK, windowTables
<1>2. ASSUME ClaimReplace(c, D)
      PROVE  TablesTypeOK'
  <2>1. pending \in Candidate
    BY <1>2 DEF ClaimReplace, Supersedes, TablesTypeOK
  <2>2. saga' \in Saga
    BY <1>2, <2>1, NewSagaType DEF ClaimReplace
  <2>3. history' \subseteq Saga
    BY <1>2, CreditsType DEF ClaimReplace, Archive, TablesTypeOK
  <2>4. pending.batch \in Batches /\ Tree[pending.gen] \subseteq Hashes
    BY <2>1, TablesAssumption DEF Candidate
  <2>5. sagaBlobs' \in [Batches -> SUBSET Hashes]
    BY <1>2, <2>4 DEF ClaimReplace, TablesTypeOK
  <2>6. owners' \in [{"batch", "saga"} -> [Batches -> SUBSET Hashes]]
    <3>1. ASSUME NEW k \in {"batch", "saga"}
          PROVE  owners'[k] \in [Batches -> SUBSET Hashes]
      BY <1>2, <2>4, ZenonT(40) DEF ClaimReplace, TablesTypeOK
    <3> QED BY <1>2, <3>1 DEF ClaimReplace
  <2>7. work' \in [Batches -> [Targets -> Statuses]]
    BY <1>2 DEF ClaimReplace, TablesTypeOK, NoWork, Statuses
  <2>8. attempts' \in [Batches -> [Relays -> Nat]]
    BY <1>2 DEF ClaimReplace, TablesTypeOK
  <2> QED BY <1>2, <2>2, <2>3, <2>5, <2>6, <2>7, <2>8
          DEF ClaimReplace, TablesTypeOK, windowTables
<1> QED BY <1>1, <1>2
LEMMA RefreshType ==
  ASSUME TablesTypeOK, BeginPublicationRefresh(now)
  PROVE  TablesTypeOK'
<1> DEFINE o == saga.batch
<1>1. saga \in Saga /\ o \in Batches
  BY DEF BeginPublicationRefresh, RefreshDue, TablesTypeOK, Saga
<1>2. PICK n \in Batches :
        /\ IsNextBatchId(n)
        /\ history' = IF \E h \in history : h.batch = o THEN history
                      ELSE history \cup {saga}
        /\ saga' = [NewSaga([batch |-> n, gen |-> saga.gen], saga.dest)
                      EXCEPT !.complete = saga.complete]
        /\ sagaBlobs' = [sagaBlobs EXCEPT ![n] = sagaBlobs[o], ![o] = {}]
        /\ proofs' = [proofs EXCEPT ![n] = proofs[o], ![o] = {}]
        /\ work' = [work EXCEPT ![o] = NoWork, ![n] =
                      [t \in Targets |-> IF t \in Servers THEN work[o][t]
                                         ELSE "absent"]]
        /\ attempts' = [attempts EXCEPT ![o] = [r \in Relays |-> 0]]
        /\ owners' = [owners EXCEPT !["saga"][n] = @ \cup owners["saga"][o]]
        /\ UNCHANGED <<windowTables, pending>>
  BY DEF BeginPublicationRefresh
<1>3. saga' \in Saga
  BY <1>1, <1>2 DEF NewSaga, Saga
<1>4. history' \subseteq Saga
  BY <1>1, <1>2 DEF TablesTypeOK
<1>5. sagaBlobs' \in [Batches -> SUBSET Hashes]
  BY <1>1, <1>2 DEF TablesTypeOK
<1>6. proofs' \in [Batches -> SUBSET (Servers \X Hashes)]
  BY <1>1, <1>2 DEF TablesTypeOK
<1>7. work' \in [Batches -> [Targets -> Statuses]]
  <2> DEFINE f == [t \in Targets |-> IF t \in Servers THEN work[o][t] ELSE "absent"]
  <2>1. f \in [Targets -> Statuses] /\ NoWork \in [Targets -> Statuses]
    BY <1>1 DEF TablesTypeOK, Statuses, NoWork
  <2>2. work' = [work EXCEPT ![o] = NoWork, ![n] = f]
    BY <1>2
  <2> HIDE DEF f
  <2> QED BY <2>1, <2>2 DEF TablesTypeOK
<1>8. attempts' \in [Batches -> [Relays -> Nat]]
  BY <1>2 DEF TablesTypeOK
<1>9. owners' \in [{"batch", "saga"} -> [Batches -> SUBSET Hashes]]
  <2>1. /\ owners["saga"][n] \subseteq Hashes
        /\ owners["saga"][o] \subseteq Hashes
    BY <1>1 DEF TablesTypeOK
  <2> QED BY <1>2, <2>1 DEF TablesTypeOK
<1> QED BY <1>2, <1>3, <1>4, <1>5, <1>6, <1>7, <1>8, <1>9
        DEF TablesTypeOK, windowTables

LEMMA WorkOpsType ==
  ASSUME TablesTypeOK, saga \in Saga
  PROVE  /\ \A T \in SUBSET Targets : EnsureEndpointWork(T) => TablesTypeOK'
         /\ \A S \in SUBSET Servers : ExhaustReplicas(S) => TablesTypeOK'
         /\ \A R \in SUBSET Relays : ClaimDueWork(R) => TablesTypeOK'
<1>1. saga.batch \in Batches /\ work[saga.batch] \in [Targets -> Statuses]
  BY DEF Saga, TablesTypeOK
<1>2. ASSUME NEW f \in [Targets -> Statuses], SetWork(f)
      PROVE  work' \in [Batches -> [Targets -> Statuses]]
  BY <1>1, <1>2 DEF SetWork, TablesTypeOK
<1>3. ASSUME NEW T \in SUBSET Targets, EnsureEndpointWork(T)
      PROVE  TablesTypeOK'
  <2>1. Ensured(T) \in [Targets -> Statuses]
    BY <1>1 DEF Ensured, Statuses
  <2> QED BY <1>2, <1>3, <2>1 DEF EnsureEndpointWork, TablesTypeOK, windowTables
<1>4. ASSUME NEW S \in SUBSET Servers, ExhaustReplicas(S)
      PROVE  TablesTypeOK'
  <2>1. Exhausted(S) \in [Targets -> Statuses]
    BY <1>1 DEF Exhausted, Statuses
  <2> QED BY <1>2, <1>4, <2>1 DEF ExhaustReplicas, TablesTypeOK, windowTables
<1>5. ASSUME NEW R \in SUBSET Relays, ClaimDueWork(R)
      PROVE  TablesTypeOK'
  <2> DEFINE f == [t \in Targets |-> IF t \in R THEN "claimed"
                                    ELSE work[saga.batch][t]]
  <2>1. f \in [Targets -> Statuses]
    BY <1>1 DEF Statuses
  <2>2. SetWork(f)
    BY <1>5 DEF ClaimDueWork
  <2> HIDE DEF f
  <2> QED BY <1>2, <1>5, <2>1, <2>2 DEF ClaimDueWork, TablesTypeOK, windowTables
<1> QED BY <1>3, <1>4, <1>5

LEMMA RelayOutcomesType ==
  ASSUME TablesTypeOK, NEW b \in Batches, NEW R \in SUBSET Relays, NEW ok,
         RecordRelayOutcomes(b, R, ok)
  PROVE  TablesTypeOK'
<1>1. work[b] \in [Targets -> Statuses] /\ attempts[b] \in [Relays -> Nat]
  BY DEF TablesTypeOK
<1> DEFINE f == [t \in Targets |-> IF t \in R THEN RelayOutcome(b, t, t \in ok)
                                  ELSE work[b][t]]
           a == [r \in Relays |-> IF r \in R THEN attempts[b][r] + 1
                                 ELSE attempts[b][r]]
<1>2. f \in [Targets -> Statuses]
  BY <1>1 DEF RelayOutcome, Statuses
<1>3. a \in [Relays -> Nat]
  BY <1>1
<1>4. work' = [work EXCEPT ![b] = f] /\ attempts' = [attempts EXCEPT ![b] = a]
  BY DEF RecordRelayOutcomes
<1> HIDE DEF f, a
<1>5. /\ work' \in [Batches -> [Targets -> Statuses]]
      /\ attempts' \in [Batches -> [Relays -> Nat]]
  BY <1>2, <1>3, <1>4 DEF TablesTypeOK
<1> QED BY <1>5 DEF RecordRelayOutcomes, TablesTypeOK, windowTables

\* Pruning what is archived empties rows and changes no other.
LEMMA PruneType ==
  ASSUME TablesTypeOK, PruneAdmitted, saga' \in Saga \cup {None}
  PROVE  TablesTypeOK'
<1>1. /\ batches' \in [Batches -> Batch \cup {None}]
      /\ sagaBlobs' \in [Batches -> SUBSET Hashes]
      /\ proofs' \in [Batches -> SUBSET (Servers \X Hashes)]
  BY DEF PruneAdmitted, TablesTypeOK
<1>2. work' \in [Batches -> [Targets -> Statuses]]
  BY DEF PruneAdmitted, TablesTypeOK, NoWork, Statuses
<1>3. attempts' \in [Batches -> [Relays -> Nat]]
  BY DEF PruneAdmitted, TablesTypeOK
<1>4. owners' \in [{"batch", "saga"} -> [Batches -> SUBSET Hashes]]
  BY DEF PruneAdmitted, TablesTypeOK
<1> QED BY <1>1, <1>2, <1>3, <1>4 DEF PruneAdmitted, TablesTypeOK

LEMMA ProgressOpsType ==
  ASSUME TablesTypeOK, saga \in Saga
  PROVE  /\ \A s \in Servers, h \in Hashes : RecordBlobProof(s, h) => TablesTypeOK'
         /\ \A s \in Servers : RecordCompleteServer(s) => TablesTypeOK'
         /\ \A e \in Event : RecordSigned(e) => TablesTypeOK'
         /\ RecordRelayAcknowledgement => TablesTypeOK'
         /\ CommitPublication => TablesTypeOK'
         /\ MarkPublicationAdmitted => TablesTypeOK'
<1>1. saga.batch \in Batches /\ work[saga.batch] \in [Targets -> Statuses]
  BY DEF Saga, TablesTypeOK
<1>2. ASSUME NEW s \in Servers, NEW h \in Hashes, RecordBlobProof(s, h)
      PROVE  TablesTypeOK'
  <2>1. proofs' \in [Batches -> SUBSET (Servers \X Hashes)]
    BY <1>1, <1>2 DEF RecordBlobProof, TablesTypeOK
  <2> QED BY <1>2, <2>1 DEF RecordBlobProof, TablesTypeOK, windowTables
<1>3. ASSUME NEW s \in Servers, RecordCompleteServer(s)
      PROVE  TablesTypeOK'
  <2>1. saga' \in Saga
    BY <1>3 DEF RecordCompleteServer, Saga
  <2>2. work' \in [Batches -> [Targets -> Statuses]]
    <3> DEFINE f == [work[saga.batch] EXCEPT ![s] = IF s \in Open THEN "complete"
                                                    ELSE @]
    <3>1. f \in [Targets -> Statuses]
      BY <1>1 DEF Statuses
    <3>2. work' = [work EXCEPT ![saga.batch] = f]
      BY <1>3 DEF RecordCompleteServer, SetWork
    <3> HIDE DEF f
    <3> QED BY <3>1, <3>2 DEF TablesTypeOK
  <2> QED BY <1>3, <2>1, <2>2 DEF RecordCompleteServer, TablesTypeOK, windowTables
<1>4. ASSUME NEW e \in Event, RecordSigned(e)
      PROVE  TablesTypeOK'
  <2>1. saga' \in Saga
    BY <1>4 DEF RecordSigned, Saga
  <2> QED BY <1>4, <2>1
          DEF RecordSigned, TablesTypeOK, sagaOnly, windowTables, rowTables
<1>5. ASSUME RecordRelayAcknowledgement
      PROVE  TablesTypeOK'
  <2>1. saga' \in Saga
    BY <1>5 DEF RecordRelayAcknowledgement, Saga
  <2> QED BY <1>5, <2>1 DEF RecordRelayAcknowledgement, TablesTypeOK, sagaOnly,
                            windowTables, rowTables
<1>6. ASSUME CommitPublication
      PROVE  TablesTypeOK'
  <2>1. saga' \in Saga
    BY <1>6 DEF CommitPublication, Saga
  <2> QED BY <1>6, <2>1
          DEF CommitPublication, TablesTypeOK, sagaOnly, windowTables, rowTables
<1>7. ASSUME MarkPublicationAdmitted
      PROVE  TablesTypeOK'
  <2>1. saga' \in Saga
    BY <1>7 DEF MarkPublicationAdmitted, Saga
  <2> QED BY <1>7, <2>1, PruneType DEF MarkPublicationAdmitted
<1> QED BY <1>2, <1>3, <1>4, <1>5, <1>6, <1>7

-----------------------------------------------------------------------------
(* Type correctness of the loop. *)

\* The part of TypeOK that is not about the tables.
LoopTypeOK ==
  /\ up \in BOOLEAN
  /\ pc \in Holding \cup Waiting
  /\ template \in Event \cup {None}
  /\ acked \subseteq Relays
  /\ worker \in [Servers -> {"idle", "queued", "active", "late"}]
  /\ left \in [Servers -> SUBSET Hashes]
  /\ bad \subseteq Servers
  /\ cancelled \in BOOLEAN
  /\ round \subseteq Relays
  /\ stray \subseteq Batches \X Relays
  /\ queue \subseteq Batches
  /\ pruning \in BOOLEAN
  /\ stored \in Event \cup {None}
  /\ loaded \subseteq Event
  /\ current \in Event \cup {None}
  /\ now \in Nat
  /\ held \in [Servers -> SUBSET Hashes]
  /\ announced \subseteq Event
  /\ crashes \in Nat

\* What typing needs of the control points: a saga exists where one is used,
\* and the signer is asked for an event.
PointsTyped ==
  /\ pc \notin {"idle", "assert", "claim"} => saga # None
  /\ pc = "sign" => template # None
  /\ \A s \in Servers : worker[s] # "idle" => pc \in {"authorize", "replicate"}
  /\ pc \in {"publish", "ack", "commit", "accept"} => saga.signed # None

TypeInv == TablesTypeOK /\ LoopTypeOK /\ PointsTyped

LEMMA TypeInit == Init => TypeInv
<1> SUFFICES ASSUME Init PROVE TypeInv
  OBVIOUS
<1>1. TablesTypeOK
  BY TablesAssumption DEF Init, TablesInit, TablesTypeOK, NoWork, Statuses
<1>2. LoopTypeOK
  BY DEF Init, LoopTypeOK, Holding, Waiting, NoWorkers, NothingLeft
<1>3. PointsTyped
  BY DEF Init, PointsTyped, NoWorkers
<1> QED BY <1>1, <1>2, <1>3 DEF TypeInv

LEMMA SchedulerType ==
  ASSUME TypeInv, Scheduler
  PROVE  TypeInv'
<1> USE DEF TypeInv, LoopTypeOK, PointsTyped, selector, world, run, uploads, repairs
<1>1. ASSUME Dirty PROVE TypeInv'
  <2>1. TablesTypeOK' /\ UNCHANGED saga
    BY <1>1, WindowOpsType DEF Dirty, MarkPublicationDirty
  <2> QED BY <1>1, <2>1 DEF Dirty
<1>2. ASSUME Fire PROVE TypeInv'
  <2>1. TablesTypeOK' /\ UNCHANGED saga
    BY <1>2, WindowOpsType DEF Fire, ClaimPublicationBatch
  <2>2. queue' \subseteq Batches
    BY <1>2, TablesAssumption DEF Fire, ClaimPublicationBatch, TablesTypeOK
  <2> QED BY <1>2, <2>1, <2>2 DEF Fire
<1>3. ASSUME NEW b \in Batches, Build(b) PROVE TypeInv'
  <2>1. TablesTypeOK' /\ UNCHANGED saga
    BY <1>3, BuildOpsType DEF Build, RecordPending
  <2> QED BY <1>3, <2>1, ZenonT(40) DEF Build
<1>4. ASSUME NEW b \in Batches, BuildFails(b) PROVE TypeInv'
  <2>1. TablesTypeOK' /\ UNCHANGED saga
    BY <1>4, BuildOpsType DEF BuildFails, MarkBatchFailed
  <2> QED BY <1>4, <2>1, ZenonT(40) DEF BuildFails
<1> QED BY <1>1, <1>2, <1>3, <1>4 DEF Scheduler

\* Wherever the coordinator works on a saga there is one.
LEMMA SagaThere ==
  ASSUME TypeInv, pc \notin {"idle", "assert", "claim"}
  PROVE  saga \in Saga /\ saga # None
BY DEF TypeInv, PointsTyped, TablesTypeOK

LEMMA ClaimingType ==
  ASSUME TypeInv
  PROVE  /\ Tick \/ AssertionFails => TypeInv'
         /\ Asserted => TypeInv'
         /\ \A D \in DestinationLists : Claim(D) => TypeInv'
         /\ Ensure => TypeInv'
<1> USE DEF TypeInv, LoopTypeOK, PointsTyped, selector, world, run, uploads, repairs,
            Running, Holding, Waiting
<1>0. ASSUME Tick \/ AssertionFails PROVE TypeInv'
  <2>1. TablesTypeOK' /\ pc' \in {"idle", "assert"}
    BY <1>0 DEF Tick, AssertionFails, tables, TablesTypeOK
  <2>2. \A s \in Servers : worker'[s] = "idle"
    BY <1>0 DEF Tick, AssertionFails
  <2>3. LoopTypeOK'
    BY <1>0, <2>1 DEF Tick, AssertionFails
  <2>4. PointsTyped'
    BY <2>1, <2>2
  <2> QED BY <2>1, <2>3, <2>4
<1>1. ASSUME Asserted PROVE TypeInv'
  <2>1. TablesTypeOK'
    BY <1>1, RefreshType DEF Asserted, tables, TablesTypeOK
  <2> QED BY <1>1, <2>1 DEF Asserted
<1>2. ASSUME NEW D \in DestinationLists, Claim(D) PROVE TypeInv'
  <2>1. D \in SUBSET Servers
    BY PublicationAssumption
  <2>2. PICK c \in Credits :
          \/ ClaimReplace(c, D) /\ pc' = "ensure"
          \/ ClaimKeep(c) /\ pc' = "idle"
          \/ ClaimKeep(c) /\ pc' = IF saga = None THEN "idle" ELSE "ensure"
    BY <1>2 DEF Claim
  <2>3. TablesTypeOK'
    BY <2>1, <2>2, ClaimType
  <2>4. pc' \in {"idle", "ensure"} /\ (pc' = "ensure" => saga' # None)
    <3>1. ClaimReplace(c, D) => saga' # None
      <4>1. ClaimReplace(c, D) => saga' = NewSaga(pending, D) /\ pending \in Candidate
        BY DEF ClaimReplace, Supersedes, TablesTypeOK
      <4> QED BY <2>1, <4>1, NewSagaType, NoneAssumption
    <3>2. ClaimKeep(c) /\ saga # None => saga' # None
      <4>1. saga # None => saga \in Saga
        BY DEF TablesTypeOK
      <4>2. saga # None => Credited(c) \in Saga
        BY <4>1, CreditsType
      <4> QED BY <4>2, NoneAssumption DEF ClaimKeep
    <3> QED BY <2>2, <3>1, <3>2
  <2> QED BY <1>2, <2>3, <2>4 DEF Claim
<1>3. ASSUME Ensure PROVE TypeInv'
  <2>1. saga \in Saga /\ saga # None
    BY <1>3, SagaThere DEF Ensure
  <2>2. saga.dest \subseteq Targets /\ sagaBlobs[saga.batch] \subseteq Hashes
    BY <2>1 DEF Saga, TablesTypeOK
  <2>3. TablesTypeOK' /\ UNCHANGED saga
    BY <1>3, <2>1, <2>2, WorkOpsType DEF Ensure, EnsureEndpointWork
  <2>4. /\ worker' \in [Servers -> {"idle", "queued", "active", "late"}]
        /\ left' \in [Servers -> SUBSET Hashes]
        /\ pc' \in {"stage", "authorize", "idle"}
        /\ \A s \in Servers : worker'[s] # "idle" => pc' = "authorize"
    BY <1>3, <2>2 DEF Ensure
  <2> QED BY <1>3, <2>1, <2>3, <2>4 DEF Ensure
<1> QED BY <1>0, <1>1, <1>2, <1>3

LEMMA ReplicatingType ==
  ASSUME TypeInv, Replicating
  PROVE  TypeInv'
<1> USE DEF TypeInv, LoopTypeOK, PointsTyped, selector, world, uploads, repairs,
            Running, Holding, Waiting
<1>0. saga \in Saga /\ saga # None
  <2>1. pc \in {"authorize", "replicate"}
    BY DEF Replicating, Authorized, AuthorizationFails, EndReplication,
           FinishServer, AbortServer, ProveBlob
  <2> QED BY <2>1, SagaThere
<1>1. ASSUME NEW S \in SUBSET Servers, ExhaustReplicas(S)
      PROVE  TablesTypeOK' /\ UNCHANGED saga
  BY <1>0, <1>1, WorkOpsType DEF ExhaustReplicas
<1>2. ASSUME Authorized PROVE TypeInv'
  <2>1. TablesTypeOK' /\ UNCHANGED saga
    BY <1>2 DEF Authorized, tables, TablesTypeOK
  <2>2. worker' \in [Servers -> {"idle", "queued", "active", "late"}]
    BY <1>2 DEF Authorized
  <2> QED BY <1>2, <2>1, <2>2 DEF Authorized
<1>3. ASSUME AuthorizationFails PROVE TypeInv'
  <2>1. TablesTypeOK' /\ UNCHANGED saga
    BY <1>3, <1>1 DEF AuthorizationFails, Eligible
  <2> QED BY <1>3, <2>1
          DEF AuthorizationFails, EndAttempt, NoWorkers, NothingLeft
<1>4. ASSUME EndReplication PROVE TypeInv'
  <2>1. TablesTypeOK' /\ UNCHANGED saga
    BY <1>4 DEF EndReplication, tables, TablesTypeOK
  <2> QED BY <1>0, <1>4, <2>1
          DEF EndReplication, EndAttempt, NoWorkers, NothingLeft
<1>5. ASSUME NEW s \in Servers, NEW h \in Hashes, NEW ok \in BOOLEAN,
             ProveBlob(s, h, ok)
      PROVE  TypeInv'
  <2>1. TablesTypeOK' /\ UNCHANGED saga
    <3>1. CASE ok
      BY <1>0, <1>5, <3>1, ProgressOpsType DEF ProveBlob, RecordBlobProof
    <3>2. CASE ~ok
      BY <1>5, <3>2 DEF ProveBlob, tables, TablesTypeOK
    <3> QED BY <3>1, <3>2
  <2>2. /\ worker' \in [Servers -> {"idle", "queued", "active", "late"}]
        /\ left' \in [Servers -> SUBSET Hashes]
        /\ held' \in [Servers -> SUBSET Hashes]
        /\ bad' \subseteq Servers
    BY <1>5 DEF ProveBlob
  <2> QED BY <1>5, <2>1, <2>2 DEF ProveBlob
<1>6. ASSUME NEW s \in Servers, NEW may, TakeNext(s, may)
      PROVE  worker' \in [Servers -> {"idle", "queued", "active", "late"}]
  BY <1>6 DEF TakeNext, Queued
<1>7. ASSUME NEW s \in Servers, FailServer(s)
      PROVE  /\ TablesTypeOK' /\ UNCHANGED saga
             /\ worker' \in [Servers -> {"idle", "queued", "active", "late"}]
  <2>1. Doomed(s) \subseteq Servers
    BY DEF Doomed, Queued
  <2>2. TablesTypeOK' /\ UNCHANGED saga
    BY <1>1, <1>7, <2>1 DEF FailServer
  <2>3. worker' \in [Servers -> {"idle", "queued", "active", "late"}]
    BY <1>6, <1>7 DEF FailServer
  <2> QED BY <2>2, <2>3
<1>8. ASSUME NEW s \in Servers, FinishServer(s) PROVE TypeInv'
  <2>1. /\ TablesTypeOK' /\ saga' # None
        /\ worker' \in [Servers -> {"idle", "queued", "active", "late"}]
    <3>1. CASE RecordCompleteServer(s) /\ TakeNext(s, FALSE)
      <4>1. saga' # None
        BY <1>0, <3>1, NoneAssumption DEF RecordCompleteServer, Saga
      <4> QED BY <1>0, <1>6, <3>1, <4>1, ProgressOpsType
    <3>2. CASE FailServer(s)
      BY <1>0, <1>7, <3>2
    <3> QED BY <1>8, <3>1, <3>2 DEF FinishServer
  <2> QED BY <1>8, <2>1 DEF FinishServer
<1>9. ASSUME NEW s \in Servers, AbortServer(s) PROVE TypeInv'
  <2>1. /\ TablesTypeOK' /\ UNCHANGED saga
        /\ worker' \in [Servers -> {"idle", "queued", "active", "late"}]
    BY <1>7, <1>9 DEF AbortServer
  <2> QED BY <1>9, <2>1 DEF AbortServer
<1> QED BY <1>2, <1>3, <1>4, <1>5, <1>8, <1>9 DEF Replicating

LEMMA AnnouncingType ==
  ASSUME TypeInv, Announcing
  PROVE  TypeInv'
<1> USE DEF TypeInv, LoopTypeOK, PointsTyped, selector, world, run, uploads, repairs,
            Running, Holding, Waiting
<1>0. saga \in Saga /\ saga # None
  <2>1. pc \notin {"idle", "assert", "claim"}
    BY DEF Announcing, Stage, Signed, SigningFails, PublishFails, Published,
           Acknowledge, Commit, Admit, Mark, Repair, RepairThrows, Repaired
  <2> QED BY <2>1, SagaThere
<1>1. ASSUME Stage PROVE TypeInv'
  <2>1. CASE saga.signed = None
    <3>1. PICK t \in {now} \cup {h.signed.created + 1 : h \in SignedHistory} :
            template' = [batch |-> saga.batch, gen |-> saga.gen,
                         dest |-> saga.dest, created |-> t, exp |-> now + Lifetime]
      BY <1>1, <2>1 DEF Stage
    <3>2. t \in Nat
      BY DEF SignedHistory, TablesTypeOK, Saga, Event
    <3>3. template' \in Event
      BY <1>0, <3>1, <3>2, PublicationAssumption DEF Saga, Event
    <3>4. TablesTypeOK' /\ UNCHANGED saga
      BY <1>1, <2>1 DEF Stage, tables, TablesTypeOK
    <3> QED BY <1>1, <2>1, <3>3, <3>4, NoneAssumption DEF Stage
  <2>2. CASE saga.signed # None
    <3>1. TablesTypeOK' /\ UNCHANGED saga
      BY <1>0, <1>1, <2>2, WorkOpsType DEF Stage, EnsureEndpointWork
    <3>2. saga.signed \in Event
      BY <1>0, <2>2 DEF Saga
    <3>3. announced' \subseteq Event /\ pc' \in {"commit", "publish"}
      BY <1>1, <2>2, <3>2 DEF Stage
    <3> QED BY <1>1, <2>2, <3>1, <3>3 DEF Stage
  <2> QED BY <2>1, <2>2
<1>2. ASSUME Signed PROVE TypeInv'
  <2>1. template \in Event
    BY <1>2 DEF Signed
  <2>2. TablesTypeOK'
    BY <1>0, <1>2, <2>1, ProgressOpsType DEF Signed
  <2>3. saga' # None
    BY <1>0, <1>2, <2>1, NoneAssumption DEF Signed, RecordSigned, Saga
  <2> QED BY <1>2, <2>2, <2>3 DEF Signed
<1>3. ASSUME SigningFails \/ PublishFails PROVE TypeInv'
  <2>1. TablesTypeOK' /\ UNCHANGED saga
    BY <1>3 DEF SigningFails, PublishFails, tables, TablesTypeOK
  <2> QED BY <1>3, <2>1 DEF SigningFails, PublishFails
<1>4. ASSUME NEW ok \in SUBSET Relays, Published(ok) PROVE TypeInv'
  <2>1. saga.batch \in Batches
    BY <1>0 DEF Saga
  <2>2. TablesTypeOK' /\ UNCHANGED saga
    <3>1. RecordRelayOutcomes(saga.batch, Relays \cap Open, ok)
      BY <1>4 DEF Published
    <3>2. TablesTypeOK'
      BY <2>1, <3>1, RelayOutcomesType, (Relays \cap Open) \in SUBSET Relays
    <3> QED BY <3>1, <3>2 DEF RecordRelayOutcomes
  <2> QED BY <1>4, <2>2 DEF Published
<1>5. ASSUME Acknowledge \/ Commit PROVE TypeInv'
  <2>1. TablesTypeOK'
    BY <1>0, <1>5, ProgressOpsType DEF Acknowledge, Commit
  <2>2. /\ [saga EXCEPT !.ack = TRUE] \in Saga
        /\ [saga EXCEPT !.committed = TRUE] \in Saga
        /\ [saga EXCEPT !.ack = TRUE].signed = saga.signed
        /\ [saga EXCEPT !.committed = TRUE].signed = saga.signed
    BY <1>0 DEF Saga
  <2>3. saga' # None /\ saga'.signed = saga.signed
    BY <1>5, <2>2, NoneAssumption
       DEF Acknowledge, Commit, RecordRelayAcknowledgement, CommitPublication
  <2> QED BY <1>5, <2>1, <2>3 DEF Acknowledge, Commit
<1>6. ASSUME Mark PROVE TypeInv'
  <2>1. TablesTypeOK'
    BY <1>0, <1>6, ProgressOpsType DEF Mark
  <2>2. [saga EXCEPT !.admitted = TRUE] \in Saga
    BY <1>0 DEF Saga
  <2>3. saga' # None
    BY <1>6, <2>2, NoneAssumption DEF Mark, MarkPublicationAdmitted
  <2> QED BY <1>6, <2>1, <2>3 DEF Mark
<1>7. ASSUME Admit PROVE TypeInv'
  <2>1. TablesTypeOK' /\ UNCHANGED saga
    BY <1>7 DEF Admit, tables, TablesTypeOK
  <2>0. saga.signed \in Event
    BY <1>0, <1>7 DEF Admit, Saga
  <2>2. stored' \in Event \cup {None} /\ loaded' \subseteq Event
    BY <1>7, <2>0 DEF Admit, Accept
  <2>3. current' \in Event \cup {None}
    BY <1>7, <2>2 DEF Admit, Accept, Newest, Selectable
  <2>4. pc' \in {"repair", "mark", "idle"}
    BY <1>7 DEF Admit
  <2> QED BY <1>7, <2>1, <2>2, <2>3, <2>4 DEF Admit
<1>8. ASSUME Repair PROVE TypeInv'
  <2>1. TablesTypeOK' /\ UNCHANGED saga
    BY <1>0, <1>8, WorkOpsType DEF Repair, DueRelays, ClaimDueWork
  <2> QED BY <1>8, <2>1 DEF Repair, DueRelays
<1>9. ASSUME NEW r \in Relays, RepairThrows(r) PROVE TypeInv'
  <2>1. TablesTypeOK' /\ UNCHANGED saga
    BY <1>9 DEF RepairThrows, tables, TablesTypeOK
  <2>2. stray' \subseteq Batches \X Relays
    <3>1. saga.batch \in Batches
      BY <1>0 DEF Saga
    <3>2. \A q \in round : <<saga.batch, q>> \in Batches \X Relays
      BY <3>1
    <3> QED BY <1>9, <3>2 DEF RepairThrows
  <2> QED BY <1>9, <2>1, <2>2 DEF RepairThrows
<1>10. ASSUME NEW r \in Relays, NEW ok \in BOOLEAN, Repaired(r, ok) PROVE TypeInv'
  <2>1. saga.batch \in Batches
    BY <1>0 DEF Saga
  <2>2. TablesTypeOK'
    BY <1>10, <2>1, RelayOutcomesType, {r} \in SUBSET Relays DEF Repaired
  <2>3. UNCHANGED saga
    BY <1>10 DEF Repaired, RecordRelayOutcomes
  <2> QED BY <1>10, <2>2, <2>3 DEF Repaired
<1> QED BY <1>1, <1>2, <1>3, <1>4, <1>5, <1>6, <1>7, <1>8, <1>9, <1>10
        DEF Announcing

LEMMA EnvironmentType ==
  ASSUME TypeInv, Environment
  PROVE  TypeInv'
<1> USE DEF TypeInv, LoopTypeOK, PointsTyped, selector, world, run, uploads, repairs,
            Running, Yielded, Holding, Waiting
<1>1. ASSUME NEW b \in Batches, NEW r \in Relays, StrayEnds(b, r) PROVE TypeInv'
  <2>1. TablesTypeOK' /\ UNCHANGED saga
    <3>1. CASE \E ok \in SUBSET {r} : RecordRelayOutcomes(b, {r}, ok)
      <4>1. TablesTypeOK'
        BY <3>1, RelayOutcomesType, {r} \in SUBSET Relays
      <4> QED BY <3>1, <4>1 DEF RecordRelayOutcomes
    <3>2. CASE UNCHANGED tables
      BY <3>2 DEF tables, TablesTypeOK
    <3> QED BY <1>1, <3>1, <3>2 DEF StrayEnds
  <2> QED BY <1>1, <2>1 DEF StrayEnds
<1>2. ASSUME NEW e \in announced, Echo(e) PROVE TypeInv'
  <2>1. TablesTypeOK' /\ UNCHANGED saga
    BY <1>2 DEF Echo, tables, TablesTypeOK
  <2>2. stored' \in Event \cup {None} /\ loaded' \subseteq Event
    BY <1>2 DEF Echo, Accept
  <2>3. current' \in Event \cup {None}
    BY <1>2, <2>2 DEF Echo, Accept, Newest, Selectable
  <2> QED BY <1>2, <2>1, <2>2, <2>3 DEF Echo
<1>3. ASSUME ExpireSelection PROVE TypeInv'
  <2>1. TablesTypeOK' /\ UNCHANGED saga
    BY <1>3 DEF ExpireSelection, tables, TablesTypeOK
  <2>2. current' \in Event \cup {None}
    BY <1>3 DEF ExpireSelection, Newest, Selectable
  <2> QED BY <1>3, <2>1, <2>2 DEF ExpireSelection
<1>4. ASSUME Stop, TablesTypeOK' PROVE TypeInv'
  <2>0. /\ worker' \in [Servers -> {"idle", "queued", "active", "late"}]
        /\ left' \in [Servers -> SUBSET Hashes]
        /\ crashes' \in Nat
    BY <1>4 DEF Stop, NoWorkers, NothingLeft
  <2>1. LoopTypeOK'
    BY <1>4, <2>0 DEF Stop
  <2>2. PointsTyped'
    BY <1>4 DEF Stop, NoWorkers
  <2> QED BY <1>4, <2>1, <2>2
<1>5. ASSUME Crash PROVE TypeInv'
  <2>1. TablesTypeOK'
    BY <1>5 DEF Crash, tables, TablesTypeOK
  <2> QED BY <1>4, <1>5, <2>1 DEF Crash
<1>6. ASSUME NEW w \in [Batches -> [Targets -> Statuses]]
      PROVE  Restored(w) \in [Batches -> [Targets -> Statuses]]
  BY DEF Restored, Statuses
<1>7. ASSUME NEW B, batches' = [b \in Batches |->
                 IF b \in B /\ Buildable(b)
                 THEN [gen |-> batches[b].gen, status |-> "failed"] ELSE batches[b]]
      PROVE  batches' \in [Batches -> Batch \cup {None}]
  BY <1>7 DEF TablesTypeOK, Buildable, Batch
<1>8. ASSUME Close PROVE TypeInv'
  <2>1. work' \in [Batches -> [Targets -> Statuses]]
    <3>1. CASE Eligible = {}
      BY <1>6, <1>8, <3>1 DEF Close, TablesTypeOK
    <3>2. CASE Eligible # {}
      <4>1. saga \in Saga
        BY <3>2, SagaThere DEF Eligible
      <4>2. saga.batch \in Batches /\ work[saga.batch] \in [Targets -> Statuses]
        BY <4>1 DEF Saga, TablesTypeOK
      <4>3. Exhausted(Eligible) \in [Targets -> Statuses]
        BY <4>2 DEF Exhausted, Statuses
      <4>4. [work EXCEPT ![saga.batch] = Exhausted(Eligible)]
              \in [Batches -> [Targets -> Statuses]]
        BY <4>3 DEF TablesTypeOK
      <4> QED BY <1>6, <1>8, <3>2, <4>4 DEF Close
    <3> QED BY <3>1, <3>2
  <2>2. batches' \in [Batches -> Batch \cup {None}]
    BY <1>7, <1>8 DEF Close
  <2>3. TablesTypeOK'
    BY <1>8, <2>1, <2>2 DEF Close, TablesTypeOK
  <2> QED BY <1>4, <1>8, <2>3 DEF Close
<1>9. ASSUME Restart PROVE TypeInv'
  <2>1. work' \in [Batches -> [Targets -> Statuses]]
    BY <1>6, <1>9 DEF Restart, TablesTypeOK
  <2>2. batches' \in [Batches -> Batch \cup {None}]
    BY <1>9 DEF Restart, TablesTypeOK, Buildable, Batch
  <2>3. TablesTypeOK' /\ UNCHANGED saga
    BY <1>9, <2>1, <2>2 DEF Restart, TablesTypeOK
  <2>4. loaded' \subseteq Event
    BY <1>9 DEF Restart, Selectable
  <2>5. current' \in Event \cup {None}
    BY <1>9, <2>4 DEF Restart, Newest
  <2> QED BY <1>9, <2>3, <2>4, <2>5 DEF Restart
<1>10. ASSUME TimePasses PROVE TypeInv'
  <2>1. TablesTypeOK' /\ UNCHANGED saga
    BY <1>10 DEF TimePasses, tables, TablesTypeOK
  <2> QED BY <1>10, <2>1 DEF TimePasses
<1>11. ASSUME ReleaseLease PROVE TypeInv'
  <2>1. TablesTypeOK' /\ UNCHANGED saga
    BY <1>11, PruneType DEF ReleaseLease, TablesTypeOK
  <2> QED BY <1>11, <2>1 DEF ReleaseLease
<1> QED BY <1>1, <1>2, <1>3, <1>5, <1>8, <1>9, <1>10, <1>11 DEF Environment

LEMMA TypeStep ==
  ASSUME TypeInv, [Next]_vars
  PROVE  TypeInv'
<1>1. CASE Scheduler
  BY <1>1, SchedulerType
<1>2. CASE Coordinator
  BY <1>2, ClaimingType, ReplicatingType, AnnouncingType DEF Coordinator
<1>3. CASE Environment
  BY <1>3, EnvironmentType
<1>4. CASE UNCHANGED vars
  <2>1. TablesTypeOK'
    BY <1>4 DEF vars, TypeInv, TablesTypeOK, tables
  <2>2. LoopTypeOK'
    BY <1>4 DEF vars, TypeInv, LoopTypeOK, run, uploads, repairs, selector, world
  <2>3. PointsTyped'
    BY <1>4 DEF vars, TypeInv, PointsTyped, tables, run, uploads
  <2> QED BY <2>1, <2>2, <2>3 DEF TypeInv
<1> QED BY <1>1, <1>2, <1>3, <1>4 DEF Next

\* Every table and every variable of the loop keeps its type: no operation of
\* the repository writes a row that another one cannot read.
THEOREM TypeCorrect == Spec => []TypeOK
<1>1. Init => TypeInv
  BY TypeInit
<1>2. TypeInv /\ [Next]_vars => TypeInv'
  BY TypeStep
<1>3. TypeInv => TypeOK
  BY DEF TypeInv, LoopTypeOK, TypeOK
<1> QED BY <1>1, <1>2, <1>3, PTL DEF Spec

-----------------------------------------------------------------------------
(* What a step does to the events in the tables. *)

\* The candidate and the event of the active saga stay, and so do the history
\* and what was announced.
KeepsSaga ==
  /\ UNCHANGED <<history, announced>>
  /\ saga = None <=> saga' = None
  /\ saga # None => /\ saga'.batch = saga.batch /\ saga'.gen = saga.gen
                    /\ saga'.signed = saga.signed
                    /\ saga.complete # None => saga'.complete # None
  /\ pc' = "sign" => pc = "sign" /\ UNCHANGED template

\* The two ways in which another saga becomes the active one.
Refreshes ==
  /\ pc = "assert" /\ pc' = "claim"
  /\ BeginPublicationRefresh(now)
  /\ UNCHANGED announced

Replaces(c, D) == pc' = "ensure" /\ ClaimReplace(c, D) /\ UNCHANGED announced

LEMMA KeepsUnchanged ==
  ASSUME UNCHANGED <<saga, history, announced>>,
         pc' = "sign" => pc = "sign" /\ UNCHANGED template
  PROVE  KeepsSaga
BY DEF KeepsSaga

LEMMA SchedulerKeeps == Scheduler => KeepsSaga
<1> SUFFICES ASSUME Scheduler PROVE KeepsSaga
  OBVIOUS
<1>1. UNCHANGED <<saga, history, announced, pc, template>>
  BY DEF Scheduler, Dirty, Fire, Build, BuildFails, MarkPublicationDirty,
         ClaimPublicationBatch, RecordPending, MarkBatchFailed, run, world
<1> QED BY <1>1, KeepsUnchanged

LEMMA CreditKeeps ==
  ASSUME TypeInv, NEW c \in Credits
  PROVE  /\ saga = None <=> Credited(c) = None
         /\ saga # None => /\ Credited(c) \in Saga
                           /\ Credited(c).batch = saga.batch /\ Credited(c).gen = saga.gen
                           /\ Credited(c).signed = saga.signed
                           /\ saga.complete # None => Credited(c).complete # None
<1>1. CASE c = None
  BY <1>1 DEF Credited, TypeInv, TablesTypeOK
<1>2. CASE c # None
  <2>1. saga \in Saga /\ saga # None /\ Credited(c) = [saga EXCEPT !.complete = c]
    BY <1>2, CreditsType DEF Credited, TypeInv
  <2>2. Credited(c) \in Saga
    BY <2>1, CreditsType DEF TypeInv
  <2> QED BY <1>2, <2>1, <2>2, NoneAssumption DEF Saga
<1> QED BY <1>1, <1>2

LEMMA ClaimingKeeps ==
  ASSUME TypeInv
  PROVE  /\ Tick \/ AssertionFails => KeepsSaga
         /\ Asserted => KeepsSaga \/ Refreshes
         /\ \A D \in DestinationLists :
              Claim(D) => KeepsSaga \/ \E c \in Credits : Replaces(c, D)
         /\ Ensure => KeepsSaga
<1>0. ASSUME Tick \/ AssertionFails PROVE KeepsSaga
  BY <1>0, KeepsUnchanged DEF Tick, AssertionFails, tables, world
<1>1. ASSUME Asserted PROVE KeepsSaga \/ Refreshes
  <2>1. CASE RefreshDue(now)
    BY <1>1, <2>1 DEF Asserted, Running, Refreshes, world
  <2>2. CASE ~RefreshDue(now)
    BY <1>1, <2>2, KeepsUnchanged DEF Asserted, tables, world
  <2> QED BY <2>1, <2>2
<1>2. ASSUME NEW D \in DestinationLists, Claim(D)
      PROVE  KeepsSaga \/ \E c \in Credits : Replaces(c, D)
  <2>1. PICK c \in Credits : (ClaimReplace(c, D) /\ pc' = "ensure")
                             \/ (ClaimKeep(c) /\ pc' # "sign")
    BY <1>2 DEF Claim
  <2>2. UNCHANGED announced
    BY <1>2 DEF Claim, world
  <2>3. CASE ClaimReplace(c, D) /\ pc' = "ensure"
    BY <2>2, <2>3 DEF Replaces
  <2>4. CASE ClaimKeep(c) /\ pc' # "sign"
    <3>1. saga' = Credited(c) /\ UNCHANGED history /\ pc' # "sign"
      BY <2>4 DEF ClaimKeep
    <3> QED BY <2>2, <3>1, CreditKeeps DEF KeepsSaga
  <2> QED BY <2>1, <2>3, <2>4
<1>3. ASSUME Ensure PROVE KeepsSaga
  BY <1>3, KeepsUnchanged DEF Ensure, EnsureEndpointWork, world
<1> QED BY <1>0, <1>1, <1>2, <1>3

LEMMA ReplicatingKeeps ==
  ASSUME TypeInv, Replicating
  PROVE  KeepsSaga
<1>0. saga \in Saga /\ saga # None
  <2>1. pc \in {"authorize", "replicate"}
    BY DEF Replicating, Authorized, AuthorizationFails, EndReplication,
           FinishServer, AbortServer, ProveBlob, Running
  <2> QED BY <2>1, SagaThere
<1>1. UNCHANGED <<history, announced>> /\ pc' # "sign"
  <2>1. ASSUME NEW s \in Servers, FinishServer(s)
        PROVE  UNCHANGED <<history, announced>> /\ pc' # "sign"
    BY <2>1 DEF FinishServer, FailServer, ExhaustReplicas, RecordCompleteServer,
                Running, world
  <2>2. ASSUME NEW s \in Servers, AbortServer(s)
        PROVE  UNCHANGED <<history, announced>> /\ pc' # "sign"
    BY <2>2 DEF AbortServer, FailServer, ExhaustReplicas, Running, world
  <2>3. ASSUME NEW s \in Servers, NEW h \in Hashes, NEW ok \in BOOLEAN,
               ProveBlob(s, h, ok)
        PROVE  UNCHANGED <<history, announced>> /\ pc' # "sign"
    BY <2>3 DEF ProveBlob, RecordBlobProof, Running, tables
  <2>4. ASSUME Authorized \/ AuthorizationFails \/ EndReplication
        PROVE  UNCHANGED <<history, announced>> /\ pc' # "sign"
    BY <2>4 DEF Authorized, AuthorizationFails, EndReplication, ExhaustReplicas,
                tables, world
  <2> QED BY <2>1, <2>2, <2>3, <2>4 DEF Replicating
<1>2. saga' = saga \/ \E s \in Servers : RecordCompleteServer(s)
  BY DEF Replicating, Authorized, AuthorizationFails, EndReplication, FinishServer,
         AbortServer, FailServer, ExhaustReplicas, ProveBlob, RecordBlobProof, tables
<1>3. CASE saga' = saga
  BY <1>1, <1>3 DEF KeepsSaga
<1>4. ASSUME NEW s \in Servers, RecordCompleteServer(s) PROVE KeepsSaga
  <2>1. saga' = IF saga.complete = None THEN [saga EXCEPT !.complete = s] ELSE saga
    BY <1>4 DEF RecordCompleteServer
  <2>2. [saga EXCEPT !.complete = s] \in Saga
    BY <1>0 DEF Saga
  <2>3. saga' # None
    BY <1>0, <2>1, <2>2, NoneAssumption
  <2>4. saga'.batch = saga.batch /\ saga'.gen = saga.gen /\ saga'.signed = saga.signed
    BY <1>0, <2>1 DEF Saga
  <2>5. saga.complete # None => saga'.complete # None
    BY <2>1
  <2> QED BY <1>0, <1>1, <2>3, <2>4, <2>5 DEF KeepsSaga
<1> QED BY <1>2, <1>3, <1>4

\* A column of the active saga other than its candidate and its event.
LEMMA ColumnKeeps ==
  ASSUME TypeInv, saga \in Saga, saga # None,
         UNCHANGED <<history, announced>>, pc' # "sign",
         \/ saga' = [saga EXCEPT !.ack = TRUE]
         \/ saga' = [saga EXCEPT !.committed = TRUE]
         \/ saga' = [saga EXCEPT !.admitted = TRUE]
  PROVE  KeepsSaga
<1>1. saga' \in Saga
  BY DEF Saga
<1>2. saga' # None
  BY <1>1, NoneAssumption
<1>3. /\ saga'.batch = saga.batch /\ saga'.gen = saga.gen
      /\ saga'.signed = saga.signed /\ saga'.complete = saga.complete
  BY DEF Saga
<1> QED BY <1>2, <1>3 DEF KeepsSaga

LEMMA AnnouncingKeeps ==
  ASSUME TypeInv, Announcing
  PROVE  KeepsSaga \/ Stage \/ Signed
<1>0. saga \in Saga /\ saga # None
  <2>1. pc \notin {"idle", "assert", "claim"}
    BY DEF Announcing, Stage, Signed, SigningFails, PublishFails, Published,
           Acknowledge, Commit, Admit, Mark, Repair, RepairThrows, Repaired, Running
  <2> QED BY <2>1, SagaThere
<1>1. ASSUME SigningFails \/ PublishFails \/ Admit PROVE KeepsSaga
  BY <1>1, KeepsUnchanged DEF SigningFails, PublishFails, Admit, tables, world
<1>2. ASSUME NEW ok \in SUBSET Relays, Published(ok) PROVE KeepsSaga
  BY <1>2, KeepsUnchanged DEF Published, RecordRelayOutcomes, world
<1>3. ASSUME Acknowledge \/ Commit \/ Mark PROVE KeepsSaga
  BY <1>0, <1>3, ColumnKeeps
     DEF Acknowledge, RecordRelayAcknowledgement, Commit, CommitPublication, sagaOnly,
         Mark, MarkPublicationAdmitted, PruneAdmitted, world
<1>4. ASSUME Repair PROVE KeepsSaga
  BY <1>4, KeepsUnchanged DEF Repair, ClaimDueWork, world
<1>5. ASSUME NEW r \in Relays, RepairThrows(r) \/ \E ok \in BOOLEAN : Repaired(r, ok)
      PROVE  KeepsSaga
  BY <1>5, KeepsUnchanged DEF RepairThrows, Repaired, RecordRelayOutcomes, tables, world
<1> QED BY <1>1, <1>2, <1>3, <1>4, <1>5 DEF Announcing

LEMMA EnvironmentKeeps == Environment => KeepsSaga
<1> SUFFICES ASSUME Environment PROVE KeepsSaga
  OBVIOUS
<1>1. UNCHANGED <<saga, history, announced>>
  BY DEF Environment, StrayEnds, RecordRelayOutcomes, Echo, ReleaseLease, PruneAdmitted,
         ExpireSelection, Crash, Close, Stop, Restart, TimePasses, tables, world
<1>2. pc' = "sign" => pc = "sign" /\ UNCHANGED template
  BY DEF Environment, StrayEnds, Echo, ReleaseLease,
         ExpireSelection, Crash, Close, Stop, Restart, TimePasses, run
<1> QED BY <1>1, <1>2, KeepsUnchanged

\* Only a refresh, a claim, the request for a signature, the announcement and the
\* record of the signature are of interest.
LEMMA SagaSteps ==
  ASSUME TypeInv, [Next]_vars
  PROVE  \/ KeepsSaga \/ Refreshes
         \/ \E D \in DestinationLists, c \in Credits : Replaces(c, D)
         \/ Stage \/ Signed
<1>1. CASE UNCHANGED vars
  BY <1>1, KeepsUnchanged DEF vars, tables, run, world
<1>2. CASE Coordinator
  BY <1>2, ClaimingKeeps, ReplicatingKeeps, AnnouncingKeeps DEF Coordinator
<1> QED BY <1>1, <1>2, SchedulerKeeps, EnvironmentKeeps DEF Next

-----------------------------------------------------------------------------
(* The events of a candidate are unique, and created_at grows. *)

LEMMA EventFacts ==
  ASSUME TypeInv
  PROVE  /\ \A e \in announced : e \in Event
         /\ \A row \in history : row \in Saga
         /\ saga # None => saga \in Saga
         /\ \A row \in SignedHistory :
              row \in history /\ row.signed # None /\ row.signed \in Event
         /\ None \notin announced
<1>1. \A row \in history : row \in Saga
  BY DEF TypeInv, TablesTypeOK
<1>2. \A row \in SignedHistory :
        row \in history /\ row.signed # None /\ row.signed \in Event
  BY <1>1 DEF SignedHistory, Saga
<1> QED BY <1>1, <1>2, NoneAssumption DEF TypeInv, TablesTypeOK, LoopTypeOK

LEMMA EventInit == Init => EventInvariant
<1> SUFFICES ASSUME Init PROVE EventInvariant
  OBVIOUS
<1> QED BY DEF Init, TablesInit, EventInvariant, HistoryIsOlder, EventsMatch,
               AnnouncedIsKnown, CreatedAdvances, SignedHistory, OneEventPerCandidate

LEMMA EventKeep ==
  ASSUME TypeInv, TypeInv', EventInvariant, KeepsSaga
  PROVE  EventInvariant'
<1> USE DEF KeepsSaga
<1>1. HistoryIsOlder'
  BY DEF EventInvariant, HistoryIsOlder
<1>2. EventsMatch'
  <2>1. \A row \in history' : OfItsCandidate(row)
    BY DEF EventInvariant, EventsMatch
  <2>2. saga' # None => OfItsCandidate(saga')
    BY DEF EventInvariant, EventsMatch, OfItsCandidate
  <2>3. pc' = "sign" => /\ saga' # None /\ saga'.signed = None
                        /\ template'.batch = saga'.batch /\ template'.gen = saga'.gen
    BY DEF EventInvariant, EventsMatch
  <2> QED BY <2>1, <2>2, <2>3 DEF EventsMatch, OfItsCandidate
<1>3. AnnouncedIsKnown'
  BY DEF EventInvariant, AnnouncedIsKnown
<1>4. CreatedAdvances'
  BY DEF EventInvariant, CreatedAdvances, NewestSigned, SignedHistory
<1>5. OneEventPerCandidate'
  BY DEF EventInvariant, OneEventPerCandidate
<1> QED BY <1>1, <1>2, <1>3, <1>4, <1>5 DEF EventInvariant

\* A saga without an event takes the place of the active one, which is
\* archived; the new one is ahead of it and of every archived saga.
LEMMA EventSucceed ==
  ASSUME TypeInv, TypeInv', EventInvariant, NEW old,
         saga # None => /\ old \in Saga /\ old.batch = saga.batch /\ old.gen = saga.gen
                        /\ old.signed = saga.signed,
         history' \subseteq history \cup {row \in {old} : saga # None},
         saga # None => \E row \in history' : row.batch = saga.batch,
         \A row \in history : \E k \in history' : k.batch = row.batch,
         saga' # None, saga'.signed = None, pc' # "sign", UNCHANGED announced,
         saga # None => \/ saga.gen < saga'.gen
                        \/ saga.gen = saga'.gen /\ saga.batch < saga'.batch,
         saga # None /\ saga'.gen = saga.gen =>
            \A row \in history : row.batch < saga'.batch
  PROVE  EventInvariant'
<1>0. /\ saga # None => saga.batch \in Nat /\ saga.gen \in Nat
      /\ saga'.batch \in Nat /\ saga'.gen \in Nat
      /\ \A row \in history : row.batch \in Nat /\ row.gen \in Nat
      /\ \A e \in announced : e.batch \in Nat /\ e.gen \in Nat /\ e # None
  <2>1. 1..MaxBatch \subseteq Nat /\ 1..MaxGeneration \subseteq Nat
    BY TablesAssumption
  <2>2. \A row \in Saga : row.batch \in Nat /\ row.gen \in Nat
    BY <2>1 DEF Saga
  <2>3. \A e \in Event : e.batch \in Nat /\ e.gen \in Nat /\ e # None
    BY <2>1, NoneAssumption DEF Event
  <2>4. saga' \in Saga
    BY DEF TypeInv, TablesTypeOK
  <2> QED BY <2>2, <2>3, <2>4, EventFacts
<1>1. HistoryIsOlder'
  <2>1. ASSUME NEW row \in history'
        PROVE  row.gen <= saga'.gen /\ (row.gen = saga'.gen => row.batch < saga'.batch)
    <3>1. saga # None
      BY DEF EventInvariant, HistoryIsOlder
    <3>2. CASE row = old
      BY <1>0, <3>1, <3>2
    <3>3. CASE row \in history
      <4>1. row.gen <= saga.gen
        BY <3>3 DEF EventInvariant, HistoryIsOlder
      <4> QED BY <1>0, <3>1, <3>3, <4>1
    <3> QED BY <3>2, <3>3
  <2> QED BY <2>1 DEF HistoryIsOlder
<1>2. EventsMatch'
  <2>1. \A row \in history' : OfItsCandidate(row)
    BY DEF EventInvariant, EventsMatch, OfItsCandidate
  <2> QED BY <2>1 DEF EventsMatch, OfItsCandidate
<1>3. AnnouncedIsKnown'
  <2>1. ASSUME NEW e \in announced
        PROVE  /\ e.gen <= saga'.gen /\ (e.gen = saga'.gen => e.batch < saga'.batch)
               /\ \E row \in history' : row.batch = e.batch
    <3>1. /\ saga # None /\ e.gen <= saga.gen
          /\ e.batch = saga.batch \/ \E row \in history : row.batch = e.batch
      BY DEF EventInvariant, AnnouncedIsKnown
    <3>2. \E row \in history' : row.batch = e.batch
      BY <3>1
    <3>3. e.gen <= saga'.gen /\ (e.gen = saga'.gen => saga.gen = saga'.gen)
      BY <1>0, <3>1
    <3>4. e.gen = saga'.gen => e.batch < saga'.batch
      BY <1>0, <3>1, <3>3
    <3> QED BY <3>2, <3>3, <3>4
  <2> QED BY <2>1 DEF AnnouncedIsKnown
<1>4. CreatedAdvances'
  <2>1. ASSUME NEW row \in history', NEW other \in history', row # other,
               row.signed # None, other.signed # None
        PROVE  \/ row.signed.created < other.signed.created /\ row.gen <= other.gen
               \/ other.signed.created < row.signed.created /\ other.gen <= row.gen
    <3>1. ASSUME NEW k \in history, k.signed # None, saga # None, old.signed # None
          PROVE  k.signed.created < old.signed.created /\ k.gen <= old.gen
      <4>1. k \in SignedHistory
        BY <3>1 DEF SignedHistory
      <4> QED BY <3>1, <4>1 DEF EventInvariant, CreatedAdvances, NewestSigned,
                                HistoryIsOlder
    <3>2. CASE row \in history /\ other \in history
      BY <2>1, <3>2 DEF EventInvariant, CreatedAdvances, SignedHistory
    <3> QED BY <2>1, <3>1, <3>2
  <2> QED BY <2>1 DEF CreatedAdvances, SignedHistory
<1>5. OneEventPerCandidate'
  BY DEF EventInvariant, OneEventPerCandidate
<1> QED BY <1>1, <1>2, <1>3, <1>4, <1>5 DEF EventInvariant

\* The refresh takes an id above every other and the candidate of the old saga.
LEMMA RefreshFacts ==
  ASSUME TypeInv, Refreshes
  PROVE  \E n \in Batches :
           /\ saga \in Saga /\ saga # None /\ saga.batch < n
           /\ \A row \in history : row.batch < n
           /\ saga.admitted /\ saga.signed # None
           /\ saga' # None /\ saga'.batch = n /\ saga'.gen = saga.gen
           /\ saga'.signed = None /\ saga'.complete = saga.complete
           /\ history' = IF \E row \in history : row.batch = saga.batch THEN history
                         ELSE history \cup {saga}
           /\ sagaBlobs' = [sagaBlobs EXCEPT ![n] = sagaBlobs[saga.batch],
                                             ![saga.batch] = {}]
           /\ owners' = [owners EXCEPT !["saga"][n] = @ \cup owners["saga"][saga.batch]]
           /\ work' = [work EXCEPT ![saga.batch] = NoWork, ![n] =
                         [t \in Targets |-> IF t \in Servers THEN work[saga.batch][t]
                                            ELSE "absent"]]
           /\ UNCHANGED pending
<1>1. PICK n \in Batches :
        /\ IsNextBatchId(n)
        /\ history' = IF \E h \in history : h.batch = saga.batch THEN history
                      ELSE history \cup {saga}
        /\ saga' = [NewSaga([batch |-> n, gen |-> saga.gen], saga.dest)
                      EXCEPT !.complete = saga.complete]
        /\ sagaBlobs' = [sagaBlobs EXCEPT ![n] = sagaBlobs[saga.batch],
                                          ![saga.batch] = {}]
        /\ owners' = [owners EXCEPT !["saga"][n] = @ \cup owners["saga"][saga.batch]]
        /\ work' = [work EXCEPT ![saga.batch] = NoWork, ![n] =
                      [t \in Targets |-> IF t \in Servers THEN work[saga.batch][t]
                                         ELSE "absent"]]
        /\ UNCHANGED pending
  BY DEF Refreshes, BeginPublicationRefresh
<1>2. saga # None /\ saga \in Saga /\ saga.admitted /\ saga.signed # None
  BY DEF Refreshes, BeginPublicationRefresh, RefreshDue, TypeInv, TablesTypeOK
<1>3. /\ saga'.batch = n /\ saga'.gen = saga.gen /\ saga'.signed = None
      /\ saga'.complete = saga.complete
  BY <1>1 DEF NewSaga
<1>4. saga' \in Saga
  BY <1>1, <1>2 DEF NewSaga, Saga
<1>5. \A row \in history \cup {saga} : row.batch < n
  BY <1>1 DEF IsNextBatchId
<1> QED BY <1>1, <1>2, <1>3, <1>4, <1>5, NoneAssumption

LEMMA EventRefresh ==
  ASSUME TypeInv, TypeInv', EventInvariant, Refreshes
  PROVE  EventInvariant'
<1>1. PICK n \in Batches :
        /\ saga \in Saga /\ saga # None /\ saga.batch < n
        /\ \A row \in history : row.batch < n
        /\ saga' # None /\ saga'.batch = n /\ saga'.gen = saga.gen
        /\ saga'.signed = None
        /\ history' = IF \E row \in history : row.batch = saga.batch THEN history
                      ELSE history \cup {saga}
  BY RefreshFacts
<1>2. /\ history' \subseteq history \cup {row \in {saga} : saga # None}
      /\ \E row \in history' : row.batch = saga.batch
      /\ \A row \in history : \E k \in history' : k.batch = row.batch
  BY <1>1
<1>3. pc' # "sign" /\ UNCHANGED announced
  BY DEF Refreshes
<1> QED BY <1>1, <1>2, <1>3, EventSucceed, ZenonT(60)

LEMMA ReplaceFacts ==
  ASSUME TypeInv, NEW c \in Credits, NEW D \in DestinationLists, Replaces(c, D)
  PROVE  /\ pending \in Candidate /\ pending # None
         /\ saga' # None /\ saga'.batch = pending.batch /\ saga'.gen = pending.gen
         /\ saga'.signed = None /\ saga'.complete = None
         /\ saga # None => /\ saga.gen < pending.gen
                           /\ saga.admitted \/ saga.signed = None
         /\ history' = IF saga = None THEN history ELSE Archive(Credited(c))
<1>1. pending \in Candidate /\ pending # None
  BY DEF Replaces, ClaimReplace, Supersedes, TypeInv, TablesTypeOK
<1>2. saga' = NewSaga(pending, D)
  BY DEF Replaces, ClaimReplace
<1>3. saga' # None
  BY <1>1, <1>2, NewSagaType, NoneAssumption, PublicationAssumption
<1>4. /\ saga'.batch = pending.batch /\ saga'.gen = pending.gen
      /\ saga'.signed = None /\ saga'.complete = None
  BY <1>2 DEF NewSaga
<1>5. saga # None => /\ saga.gen < pending.gen
                     /\ saga.admitted \/ saga.signed = None
  <2>1. saga # None => saga.gen \in Nat
    BY TablesAssumption DEF TypeInv, TablesTypeOK, Saga
  <2>2. pending.gen \in Nat
    BY <1>1, TablesAssumption DEF Candidate
  <2> QED BY <2>1, <2>2 DEF Replaces, ClaimReplace, Supersedes
<1>6. history' = IF saga = None THEN history ELSE Archive(Credited(c))
  BY DEF Replaces, ClaimReplace
<1> QED BY <1>1, <1>3, <1>4, <1>5, <1>6

LEMMA EventReplace ==
  ASSUME TypeInv, TypeInv', EventInvariant,
         NEW c \in Credits, NEW D \in DestinationLists, Replaces(c, D)
  PROVE  EventInvariant'
<1>1. /\ saga' # None /\ saga'.gen = pending.gen /\ saga'.signed = None
      /\ saga # None => saga.gen < pending.gen
      /\ history' = IF saga = None THEN history ELSE Archive(Credited(c))
  BY ReplaceFacts
<1>2. /\ history' \subseteq history \cup {row \in {Credited(c)} : saga # None}
      /\ saga # None => \E row \in history' : row.batch = saga.batch
      /\ \A row \in history : \E k \in history' : k.batch = row.batch
  BY <1>1, CreditKeeps DEF Archive
<1>3. pc' # "sign" /\ UNCHANGED announced
  BY DEF Replaces
<1>4. saga # None => saga.gen \in Nat
  BY TablesAssumption DEF TypeInv, TablesTypeOK, Saga
<1>5. saga # None => saga'.gen # saga.gen
  BY <1>1, <1>4
<1> QED BY <1>1, <1>2, <1>3, <1>5, CreditKeeps, EventSucceed

\* #run asks the signer for an event that is newer than every archived one, and
\* announces the event it has.
LEMMA EventStage ==
  ASSUME TypeInv, TypeInv', EventInvariant, Stage
  PROVE  EventInvariant'
<1>0. saga \in Saga /\ saga # None /\ pc = "stage"
  BY SagaThere DEF Stage, Running
<1>1. UNCHANGED <<saga, history>>
  BY DEF Stage, tables, EnsureEndpointWork
<1>2. HistoryIsOlder'
  BY <1>1 DEF EventInvariant, HistoryIsOlder
<1>3. CASE saga.signed = None
  <2>1. PICK t : /\ CreatedAt(t)
                 /\ template' = [batch |-> saga.batch, gen |-> saga.gen,
                                 dest |-> saga.dest, created |-> t,
                                 exp |-> now + Lifetime]
    BY <1>3 DEF Stage
  <2>2. UNCHANGED announced
    BY <1>3 DEF Stage
  <2>3. EventsMatch'
    BY <1>0, <1>1, <1>3, <2>1 DEF EventInvariant, EventsMatch, OfItsCandidate
  <2>4. AnnouncedIsKnown' /\ OneEventPerCandidate'
    BY <1>1, <2>2 DEF EventInvariant, AnnouncedIsKnown, OneEventPerCandidate
  <2>5. NewestSigned(template)'
    <3>1. t \in Nat
      BY <1>3, <2>1 DEF TypeInv, PointsTyped, LoopTypeOK, Event, Stage
    <3>2. \A row \in SignedHistory : row.signed.created \in Nat
      BY EventFacts DEF Event
    <3>3. \A row \in SignedHistory : row.signed.created < t
      BY <2>1, <3>1, <3>2 DEF CreatedAt
    <3> QED BY <1>1, <2>1, <3>3 DEF NewestSigned, SignedHistory
  <2>6. CreatedAdvances'
    BY <1>1, <1>3, <2>5 DEF EventInvariant, CreatedAdvances, NewestSigned, SignedHistory
  <2> QED BY <1>2, <2>3, <2>4, <2>6 DEF EventInvariant
<1>4. CASE saga.signed # None
  <2>1. /\ announced \subseteq announced'
        /\ announced' \subseteq announced \cup {saga.signed}
    BY <1>4 DEF Stage
  <2>2. pc' # "sign"
    BY <1>4 DEF Stage
  <2>3. EventsMatch'
    BY <1>1, <2>2 DEF EventInvariant, EventsMatch, OfItsCandidate
  <2>4. saga.signed.batch = saga.batch /\ saga.signed.gen = saga.gen
    BY <1>0, <1>4 DEF EventInvariant, EventsMatch, OfItsCandidate
  <2>5. saga.gen \in Nat /\ saga.batch \in Nat
    BY <1>0, TablesAssumption DEF Saga
  <2>6. AnnouncedIsKnown'
    <3>1. \A e \in announced' :
            /\ e.gen <= saga.gen
            /\ e.gen = saga.gen => e = saga.signed \/ e.batch < saga.batch
            /\ e.batch = saga.batch \/ \E row \in history : row.batch = e.batch
      BY <2>1, <2>4, <2>5 DEF EventInvariant, AnnouncedIsKnown
    <3> QED BY <1>0, <1>1, <3>1 DEF AnnouncedIsKnown
  <2>7. OneEventPerCandidate'
    <3>1. ASSUME NEW e \in announced, e.batch = saga.batch, e.gen = saga.gen
          PROVE  e = saga.signed
      <4>1. e = saga.signed \/ e.batch < saga.batch
        BY <3>1 DEF EventInvariant, AnnouncedIsKnown
      <4> QED BY <2>5, <3>1, <4>1
    <3> QED BY <2>1, <2>4, <3>1 DEF EventInvariant, OneEventPerCandidate
  <2>8. CreatedAdvances'
    BY <1>1, <2>2 DEF EventInvariant, CreatedAdvances, NewestSigned, SignedHistory
  <2> QED BY <1>2, <2>3, <2>6, <2>7, <2>8 DEF EventInvariant
<1> QED BY <1>3, <1>4

\* recordSigned writes the event that was asked for.
LEMMA SignedFacts ==
  ASSUME TypeInv, EventInvariant, Signed
  PROVE  /\ saga \in Saga /\ saga # None /\ saga.signed = None
         /\ saga' # None /\ saga'.batch = saga.batch /\ saga'.gen = saga.gen
         /\ saga'.signed = template /\ saga.complete # None
         /\ template \in Event /\ template # None
         /\ template.batch = saga.batch /\ template.gen = saga.gen
         /\ pc = "sign" /\ pc' = "stage" /\ UNCHANGED <<history, announced>>
<1>1. /\ pc = "sign" /\ pc' = "stage" /\ UNCHANGED <<history, announced>>
      /\ saga.complete # None
      /\ saga' = IF saga.signed = None THEN [saga EXCEPT !.signed = template] ELSE saga
  BY DEF Signed, RecordSigned, Running, sagaOnly, world
<1>2. saga \in Saga /\ saga # None
  BY <1>1, SagaThere
<1>3. /\ saga.signed = None /\ template.batch = saga.batch /\ template.gen = saga.gen
  BY <1>1 DEF EventInvariant, EventsMatch
<1>4. template \in Event /\ template # None
  BY <1>1, NoneAssumption DEF TypeInv, PointsTyped, LoopTypeOK
<1>5. saga' \in Saga
  BY <1>1, <1>2, <1>3, <1>4 DEF Saga
<1>6. /\ saga'.batch = saga.batch /\ saga'.gen = saga.gen /\ saga'.signed = template
  BY <1>1, <1>2, <1>3 DEF Saga
<1> QED BY <1>1, <1>2, <1>3, <1>4, <1>5, <1>6, NoneAssumption

LEMMA EventSigned ==
  ASSUME TypeInv, EventInvariant, Signed
  PROVE  EventInvariant'
<1>0. /\ saga \in Saga /\ saga # None /\ saga.signed = None
      /\ saga' # None /\ saga'.batch = saga.batch /\ saga'.gen = saga.gen
      /\ saga'.signed = template /\ template # None
      /\ template.batch = saga.batch /\ template.gen = saga.gen
      /\ pc = "sign" /\ pc' = "stage" /\ UNCHANGED <<history, announced>>
  BY SignedFacts
<1>1. HistoryIsOlder'
  BY <1>0 DEF EventInvariant, HistoryIsOlder
<1>2. EventsMatch'
  BY <1>0 DEF EventInvariant, EventsMatch, OfItsCandidate
<1>3. AnnouncedIsKnown'
  <2>1. \A e \in announced : e # None
    BY EventFacts
  <2> QED BY <1>0, <2>1 DEF EventInvariant, AnnouncedIsKnown
<1>4. CreatedAdvances'
  BY <1>0 DEF EventInvariant, CreatedAdvances, NewestSigned, SignedHistory
<1>5. OneEventPerCandidate'
  BY <1>0 DEF EventInvariant, OneEventPerCandidate
<1> QED BY <1>1, <1>2, <1>3, <1>4, <1>5 DEF EventInvariant

LEMMA EventStep ==
  ASSUME TypeInv, EventInvariant, [Next]_vars
  PROVE  EventInvariant'
<1>1. TypeInv'
  BY TypeStep
<1> QED BY <1>1, SagaSteps, EventKeep, EventRefresh, EventReplace, EventStage, EventSigned

\* What the step of a saga that stays keeps of the exceptions.
LEMMA KnownStays ==
  ASSUME TypeInv, EventInvariant, [Next]_vars, ~Refreshes,
         \A D \in DestinationLists, c \in Credits : ~Replaces(c, D)
  PROVE  /\ UNCHANGED history /\ (saga = None <=> saga' = None)
         /\ saga # None => saga'.batch = saga.batch /\ saga'.gen = saga.gen
         /\ (saga'.complete = None \/ announced' \subseteq Remembered') /\ saga # None =>
              saga.complete = None \/ announced \subseteq Remembered
<1>1. CASE KeepsSaga
  <2>1. saga # None => Remembered' = Remembered
    BY <1>1 DEF KeepsSaga, Remembered
  <2> QED BY <1>1, <2>1 DEF KeepsSaga
<1>2. CASE Stage
  <2>1. UNCHANGED <<saga, history>> /\ announced \subseteq announced'
    BY <1>2 DEF Stage, tables, EnsureEndpointWork
  <2> QED BY <2>1 DEF Remembered
<1>3. CASE Signed
  <2>1. /\ saga # None /\ saga.signed = None /\ saga' # None
        /\ saga'.batch = saga.batch /\ saga'.gen = saga.gen
        /\ saga'.signed = template /\ UNCHANGED <<history, announced>>
        /\ template # None /\ template.batch = saga.batch /\ template.gen = saga.gen
        /\ saga \in Saga
    BY <1>3, SignedFacts
  <2>2. template \notin announced
    <3>1. saga.batch \in Nat
      BY <2>1, TablesAssumption DEF Saga
    <3> QED BY <2>1, <3>1 DEF EventInvariant, AnnouncedIsKnown
  <2>3. Remembered' \subseteq Remembered \cup {template}
    BY <2>1 DEF Remembered
  <2>4. announced' \subseteq Remembered' => announced \subseteq Remembered
    BY <2>1, <2>2, <2>3
  <2>5. (saga'.complete = None) => saga.complete = None
    BY <1>3, <2>1 DEF Signed, RecordSigned, Saga
  <2> QED BY <2>1, <2>4, <2>5
<1> QED BY <1>1, <1>2, <1>3, SagaSteps

LEMMA EventAlways == Spec => [](TypeInv /\ EventInvariant)
<1>1. Init => TypeInv /\ EventInvariant
  BY TypeInit, EventInit
<1>2. TypeInv /\ EventInvariant /\ [Next]_vars => TypeInv' /\ EventInvariant'
  BY TypeStep, EventStep
<1> QED BY <1>1, <1>2, PTL DEF Spec

\* Whatever interrupts #run between the signature and the acknowledgement, it
\* never announces two events for one candidate.
THEOREM OneEvent == Spec => []OneEventPerCandidate
<1>1. EventInvariant => OneEventPerCandidate
  BY DEF EventInvariant
<1> QED BY <1>1, EventAlways, PTL

\* The events that are still in the saga tables are totally ordered by
\* created_at, and a newer one is never of an older generation.
THEOREM CreatedAtAdvances == Spec => []GenerationsAdvance
<1>1. TypeInv /\ EventInvariant => GenerationsAdvance
  <2> SUFFICES ASSUME TypeInv, EventInvariant,
                      NEW e \in announced, e \in Remembered,
                      NEW f \in announced, f \in Remembered, e # f
               PROVE  \/ e.created < f.created /\ e.gen <= f.gen
                      \/ f.created < e.created /\ f.gen <= e.gen
    BY DEF GenerationsAdvance
  <2>1. e # None /\ f # None
    BY EventFacts
  \* An event in the tables is the active saga's or an archived one's.
  <2>2. ASSUME NEW g \in Remembered, g # None
        PROVE  \/ saga # None /\ g = saga.signed /\ g.gen = saga.gen
               \/ \E row \in SignedHistory : g = row.signed /\ g.gen = row.gen
    <3>1. PICK row \in history \cup ({saga} \ {None}) : g = row.signed
      BY DEF Remembered
    <3>2. g.gen = row.gen
      BY <2>2, <3>1 DEF EventInvariant, EventsMatch, OfItsCandidate
    <3> QED BY <2>2, <3>1, <3>2 DEF SignedHistory
  <2>3. ASSUME NEW row \in SignedHistory, saga # None, saga.signed # None
        PROVE  row.signed.created < saga.signed.created /\ row.gen <= saga.gen
    BY <2>3 DEF EventInvariant, CreatedAdvances, NewestSigned, HistoryIsOlder,
                SignedHistory
  <2>4. CASE saga # None /\ e = saga.signed /\ e.gen = saga.gen
    BY <2>1, <2>2, <2>3, <2>4
  <2>5. CASE saga # None /\ f = saga.signed /\ f.gen = saga.gen
    BY <2>1, <2>2, <2>3, <2>5
  <2>6. ASSUME NEW row \in SignedHistory, e = row.signed, e.gen = row.gen,
               NEW other \in SignedHistory, f = other.signed, f.gen = other.gen
        PROVE  \/ e.created < f.created /\ e.gen <= f.gen
               \/ f.created < e.created /\ f.gen <= e.gen
    BY <2>6 DEF EventInvariant, CreatedAdvances
  <2> QED BY <2>1, <2>2, <2>4, <2>5, <2>6
<1> QED BY <1>1, EventAlways, PTL

\* Until its admission, a signed saga stays the active one with its event,
\* whatever candidate comes up and whatever is cancelled, refreshed or restarted.
THEOREM SignedSagaStays == Spec => SignedIsKept
<1>1. ASSUME TypeInv, EventInvariant, [Next]_vars,
             saga # None, saga.signed # None, ~saga.admitted
      PROVE  saga' # None /\ saga'.batch = saga.batch /\ saga'.signed = saga.signed
  <2>1. ~Signed
    BY <1>1, SignedFacts
  <2>2. CASE KeepsSaga
    BY <1>1, <2>2 DEF KeepsSaga
  <2>3. ~Refreshes
    BY <1>1, RefreshFacts
  <2>4. ASSUME NEW D \in DestinationLists, NEW c \in Credits, Replaces(c, D) PROVE FALSE
    BY <1>1, <2>4, ReplaceFacts
  <2>5. CASE Stage
    BY <1>1, <2>5 DEF Stage, tables, EnsureEndpointWork
  <2> QED BY <1>1, <2>1, <2>2, <2>3, <2>4, <2>5, SagaSteps
<1>2. TypeInv /\ EventInvariant /\ [Next]_vars =>
        [(saga # None /\ saga.signed # None /\ ~saga.admitted) =>
           saga' # None /\ saga'.batch = saga.batch /\ saga'.signed = saga.signed]_vars
  BY <1>1
<1> QED BY <1>2, EventAlways, PTL DEF Spec, SignedIsKept

-----------------------------------------------------------------------------
(* Endpoint work belongs to the active saga. *)

\* Batches other than the active saga's get no work.
Idle(b) == saga = None \/ b # saga.batch

IdleStays == \A b \in Batches : Idle(b) /\ work[b] = NoWork => work'[b] = NoWork

LEMMA OrphanFrame ==
  ASSUME NoOrphanWork, IdleStays,
         saga = None <=> saga' = None, saga # None => saga'.batch = saga.batch
  PROVE  NoOrphanWork'
BY DEF NoOrphanWork, IdleStays, Idle, NoWork

LEMMA SetWorkIdle ==
  ASSUME TypeInv, saga # None, NEW f, SetWork(f)
  PROVE  IdleStays
BY DEF SetWork, IdleStays, Idle, TypeInv, TablesTypeOK

LEMMA RestoredIdle ==
  ASSUME NEW w, NEW b \in Batches, w[b] = NoWork
  PROVE  Restored(w)[b] = NoWork
BY DEF Restored, NoWork

LEMMA SchedulerIdle == Scheduler => IdleStays
BY DEF Scheduler, Dirty, Fire, Build, BuildFails, MarkPublicationDirty,
       ClaimPublicationBatch, RecordPending, MarkBatchFailed, rowTables, IdleStays

LEMMA CoordinatorIdle ==
  ASSUME TypeInv, Coordinator
  PROVE  \/ IdleStays \/ Refreshes
         \/ \E D \in DestinationLists, c \in Credits : Replaces(c, D)
<1>1. ASSUME UNCHANGED work PROVE IdleStays
  BY <1>1 DEF IdleStays
<1>0. ASSUME Tick \/ AssertionFails PROVE IdleStays
  BY <1>0, <1>1 DEF Tick, AssertionFails, tables
<1>2. ASSUME Asserted PROVE IdleStays \/ Refreshes
  BY <1>1, <1>2 DEF Asserted, Running, Refreshes, tables, world
<1>3. ASSUME NEW D \in DestinationLists, Claim(D)
      PROVE  IdleStays \/ \E c \in Credits : Replaces(c, D)
  <2>1. PICK c \in Credits : (ClaimReplace(c, D) /\ pc' = "ensure") \/ ClaimKeep(c)
    BY <1>3 DEF Claim
  <2>2. CASE ClaimKeep(c)
    <3>1. work' = CreditedWork(c)
      BY <2>2 DEF ClaimKeep
    <3>2. CASE c = None
      BY <1>1, <3>1, <3>2 DEF CreditedWork
    <3>3. CASE c # None
      <4>1. saga # None
        BY <3>3, CreditsType DEF TypeInv
      <4> QED BY <3>1, <3>3, <4>1 DEF CreditedWork, IdleStays, Idle, TypeInv, TablesTypeOK
    <3> QED BY <3>2, <3>3
  <2> QED BY <1>3, <2>1, <2>2 DEF Claim, Replaces, world
<1>4. ASSUME pc \notin {"idle", "assert", "claim"}, NEW f, SetWork(f) PROVE IdleStays
  BY <1>4, SagaThere, SetWorkIdle
<1>5. ASSUME Ensure PROVE IdleStays
  BY <1>4, <1>5 DEF Ensure, EnsureEndpointWork, Running
<1>6. ASSUME Replicating PROVE IdleStays
  <2>1. pc \notin {"idle", "assert", "claim"}
    BY <1>6 DEF Replicating, Authorized, AuthorizationFails, EndReplication,
           FinishServer, AbortServer, ProveBlob, Running
  <2>2. UNCHANGED work \/ \E f : SetWork(f)
    BY <1>6 DEF Replicating, Authorized, AuthorizationFails, EndReplication, FinishServer,
       AbortServer, FailServer, ExhaustReplicas, RecordCompleteServer, ProveBlob,
       RecordBlobProof, tables
  <2> QED BY <1>1, <1>4, <2>1, <2>2
<1>7. ASSUME pc \notin {"idle", "assert", "claim"}, NEW R, NEW ok,
             RecordRelayOutcomes(saga.batch, R, ok)
      PROVE  IdleStays
  <2>1. saga # None
    BY <1>7, SagaThere
  <2> QED BY <1>7, <2>1 DEF RecordRelayOutcomes, IdleStays, Idle, TypeInv, TablesTypeOK
<1>8. ASSUME PruneAdmitted PROVE IdleStays
  BY <1>8 DEF PruneAdmitted, IdleStays
<1>9. ASSUME Announcing PROVE IdleStays
  <2>1. ASSUME Stage PROVE IdleStays
    BY <1>1, <1>4, <2>1 DEF Stage, EnsureEndpointWork, Running, tables
  <2>2. ASSUME Signed \/ SigningFails \/ PublishFails \/ Admit PROVE IdleStays
    BY <1>1, <2>2 DEF Signed, RecordSigned, sagaOnly, rowTables, SigningFails,
                      PublishFails, Admit, tables
  <2>3. ASSUME NEW ok \in SUBSET Relays, Published(ok) PROVE IdleStays
    BY <1>7, <2>3 DEF Published, Running
  <2>4. ASSUME Acknowledge \/ Commit PROVE IdleStays
    BY <1>1, <2>4 DEF Acknowledge, RecordRelayAcknowledgement, Commit, CommitPublication,
                sagaOnly, rowTables
  <2>5. ASSUME Mark PROVE IdleStays
    BY <1>8, <2>5 DEF Mark, MarkPublicationAdmitted
  <2>6. ASSUME Repair PROVE IdleStays
    BY <1>4, <2>6 DEF Repair, ClaimDueWork, Running
  <2>7. ASSUME NEW r \in Relays, RepairThrows(r) PROVE IdleStays
    BY <1>1, <2>7 DEF RepairThrows, tables
  <2>8. ASSUME NEW r \in Relays, NEW ok \in BOOLEAN, Repaired(r, ok) PROVE IdleStays
    BY <1>7, <2>8 DEF Repaired, Running
  <2> QED BY <1>9, <2>1, <2>2, <2>3, <2>4, <2>5, <2>6, <2>7, <2>8 DEF Announcing
<1> QED BY <1>0, <1>2, <1>3, <1>5, <1>6, <1>9 DEF Coordinator

LEMMA EnvironmentIdle ==
  ASSUME TypeInv, NoOrphanWork, Environment
  PROVE  IdleStays
<1>1. ASSUME UNCHANGED work PROVE IdleStays
  BY <1>1 DEF IdleStays
\* A stray repair whose claim is gone records nothing.
<1>2. ASSUME NEW b \in Batches, NEW r \in Relays, StrayEnds(b, r) PROVE IdleStays
  <2>1. CASE work[b][r] = "claimed"
    <3>1. work[b] # NoWork
      BY <2>1 DEF NoWork
    <3>2. \A a \in Batches : a # b => work'[a] = work[a]
      BY <1>2 DEF StrayEnds, RecordRelayOutcomes, tables, TypeInv, TablesTypeOK
    <3> QED BY <3>1, <3>2 DEF IdleStays
  <2>2. CASE work[b][r] # "claimed"
    BY <1>1, <1>2, <2>2 DEF StrayEnds, tables
  <2> QED BY <2>1, <2>2
<1>3. ASSUME ExpireSelection \/ Crash \/ TimePasses
      PROVE  IdleStays
  BY <1>1, <1>3 DEF ExpireSelection, Crash, TimePasses, tables
<1>4. ASSUME ReleaseLease PROVE IdleStays
  BY <1>4 DEF ReleaseLease, PruneAdmitted, IdleStays
<1>5. ASSUME Restart PROVE IdleStays
  BY <1>5, RestoredIdle DEF Restart, IdleStays
<1>6. ASSUME Close PROVE IdleStays
  <2>1. CASE Eligible = {}
    BY <1>6, <2>1, RestoredIdle DEF Close, IdleStays
  <2>2. CASE Eligible # {}
    <3>1. saga # None
      BY <2>2, SagaThere DEF Eligible, TypeInv, PointsTyped
    <3>2. ASSUME NEW b \in Batches, Idle(b), work[b] = NoWork
          PROVE  work'[b] = NoWork
      <4>1. [work EXCEPT ![saga.batch] = Exhausted(Eligible)][b] = NoWork
        BY <3>1, <3>2 DEF Idle, TypeInv, TablesTypeOK
      <4> QED BY <1>6, <2>2, <4>1, RestoredIdle DEF Close
    <3> QED BY <3>2 DEF IdleStays
  <2> QED BY <2>1, <2>2
<1>7. ASSUME NEW e \in announced, Echo(e) PROVE IdleStays
  BY <1>1, <1>7 DEF Echo, tables
<1> QED BY <1>2, <1>3, <1>4, <1>5, <1>6, <1>7 DEF Environment

LEMMA OrphanStep ==
  ASSUME TypeInv, EventInvariant, NoOrphanWork, [Next]_vars
  PROVE  NoOrphanWork'
<1>1. CASE Refreshes
  <2>1. PICK n \in Batches :
          /\ saga \in Saga /\ saga # None /\ saga' # None /\ saga'.batch = n
          /\ work' = [work EXCEPT ![saga.batch] = NoWork, ![n] =
                        [t \in Targets |-> IF t \in Servers THEN work[saga.batch][t]
                                           ELSE "absent"]]
    BY <1>1, RefreshFacts
  <2>2. \A b \in Batches : b # n => work'[b] = NoWork
    BY <2>1 DEF NoOrphanWork, TypeInv, TablesTypeOK
  <2> QED BY <2>1, <2>2 DEF NoOrphanWork, NoWork
<1>2. ASSUME NEW D \in DestinationLists, NEW c \in Credits, Replaces(c, D)
      PROVE  NoOrphanWork'
  <2>1. work' = [o \in Batches |-> IF o \in (IF saga = None THEN {} ELSE {saga.batch})
                                   THEN NoWork ELSE work[o]]
    BY <1>2 DEF Replaces, ClaimReplace
  <2>2. \A b \in Batches : work'[b] = NoWork
    BY <2>1 DEF NoOrphanWork
  <2> QED BY <2>2 DEF NoOrphanWork, NoWork
<1>3. CASE ~Refreshes /\ \A D \in DestinationLists, c \in Credits : ~Replaces(c, D)
  <2>1. (saga = None <=> saga' = None) /\ (saga # None => saga'.batch = saga.batch)
    BY <1>3, KnownStays
  <2>2. IdleStays
    <3>1. CASE UNCHANGED vars
      BY <3>1 DEF vars, tables, IdleStays
    <3> QED BY <1>3, <3>1, SchedulerIdle, CoordinatorIdle, EnvironmentIdle DEF Next
  <2> QED BY <2>1, <2>2, OrphanFrame
<1> QED BY <1>1, <1>2, <1>3

\* No row of endpoint work outlives the turn of its saga: claims, refreshes and
\* pruning take it along, and a stray repair does not bring one back.
THEOREM WorkIsOwned == Spec => []NoOrphanWork
<1>1. Init => NoOrphanWork
  BY DEF Init, TablesInit, NoOrphanWork
<1>2. TypeInv /\ EventInvariant /\ NoOrphanWork /\ [Next]_vars => NoOrphanWork'
  BY OrphanStep
<1> QED BY <1>1, <1>2, EventAlways, PTL DEF Spec

-----------------------------------------------------------------------------
(* What a step must leave alone for the parts of the invariant to survive. *)

sagaState == <<saga, history, sagaBlobs, proofs, held, announced>>

LEMMA FrameSaga ==
  ASSUME GateInvariant, UNCHANGED sagaState
  PROVE  /\ ProofsAreTrue' /\ InventoryCovers' /\ CompleteIsSound'
         /\ StagesInOrder' /\ AnnouncedIsAvailable'
<1> USE DEF GateInvariant, sagaState
<1>1. ProofsAreTrue'
  BY DEF ProofsAreTrue
<1>2. InventoryCovers'
  BY DEF InventoryCovers
<1>3. CompleteIsSound'
  BY DEF CompleteIsSound, Sound
<1>4. StagesInOrder'
  BY DEF StagesInOrder
<1>5. AnnouncedIsAvailable'
  BY DEF AnnouncedIsAvailable
<1> QED BY <1>1, <1>2, <1>3, <1>4, <1>5

LEMMA FrameSelection ==
  ASSUME GateInvariant, UNCHANGED selector, announced \subseteq announced'
  PROVE  SelectionIsAnnounced'
BY DEF GateInvariant, SelectionIsAnnounced, selector

\* Rows of replicas may change status but not appear, and workers only stop.
LEMMA FrameWork ==
  ASSUME GateInvariant, UNCHANGED saga,
         \A b \in Batches, s \in Servers :
           work'[b][s] # "absent" => work[b][s] # "absent",
         \A s \in Servers :
           worker'[s] # "idle" =>
             worker[s] # "idle" /\ pc' \in {"authorize", "replicate"}
  PROVE  ReplicaWorkIsOwn'
BY DEF GateInvariant, ReplicaWorkIsOwn

LEMMA RestoredRows ==
  ASSUME NEW w, NEW b \in Batches, NEW s \in Servers, Restored(w)[b][s] # "absent"
  PROVE  w[b][s] # "absent"
BY DEF Restored

LEMMA RelayRowsOnly ==
  ASSUME TypeInv, NEW b \in Batches, NEW R \in SUBSET Relays, NEW ok,
         RecordRelayOutcomes(b, R, ok)
  PROVE  /\ UNCHANGED <<saga, history, sagaBlobs, proofs>>
         /\ \A c \in Batches, s \in Servers :
              work'[c][s] # "absent" => work[c][s] # "absent"
<1>1. \A c \in Batches, s \in Servers : s \notin R /\ work'[c][s] = work[c][s]
  BY TablesAssumption DEF RecordRelayOutcomes, TypeInv, TablesTypeOK
<1> QED BY <1>1 DEF RecordRelayOutcomes, windowTables

LEMMA ExhaustRows ==
  ASSUME TypeInv, saga \in Saga, NEW S \in SUBSET Servers, ExhaustReplicas(S)
  PROVE  /\ UNCHANGED <<saga, history, sagaBlobs, proofs>>
         /\ \A c \in Batches, s \in Servers :
              work'[c][s] # "absent" => work[c][s] # "absent"
<1>1. saga.batch \in Batches
  BY DEF Saga
<1>2. \A c \in Batches, s \in Servers :
        work'[c][s] # "absent" => work[c][s] # "absent"
  BY <1>1 DEF ExhaustReplicas, SetWork, Exhausted, Open, TypeInv, TablesTypeOK
<1> QED BY <1>2 DEF ExhaustReplicas, windowTables

-----------------------------------------------------------------------------
(* GateInvariant is inductive. *)

LEMMA GateInit == Init => GateInvariant
<1> SUFFICES ASSUME Init PROVE GateInvariant
  OBVIOUS
<1> USE DEF Init, TablesInit
<1>1. ProofsAreTrue /\ InventoryCovers /\ CompleteIsSound /\ StagesInOrder
  BY DEF ProofsAreTrue, InventoryCovers, CompleteIsSound, StagesInOrder
<1>2. PointsAgree /\ SelectionIsAnnounced /\ AnnouncedIsAvailable
  BY DEF PointsAgree, SelectionIsAnnounced, AnnouncedIsAvailable
<1>3. ReplicaWorkIsOwn
  BY DEF ReplicaWorkIsOwn, NoWork, NoWorkers
<1> QED BY <1>1, <1>2, <1>3 DEF GateInvariant

LEMMA GateScheduler ==
  ASSUME TypeInv, GateInvariant, Scheduler
  PROVE  GateInvariant'
<1>1. /\ UNCHANGED sagaState /\ UNCHANGED selector
      /\ UNCHANGED <<pc, work, worker, template>>
  BY DEF Scheduler, Dirty, Fire, Build, BuildFails, MarkPublicationDirty,
         ClaimPublicationBatch, RecordPending, MarkBatchFailed, sagaState, rowTables,
         run, uploads, selector, world
<1>2. PointsAgree'
  BY <1>1 DEF GateInvariant, PointsAgree, sagaState
<1>3. ReplicaWorkIsOwn'
  BY <1>1 DEF GateInvariant, ReplicaWorkIsOwn, sagaState
<1>4. SelectionIsAnnounced'
  BY <1>1, FrameSelection DEF sagaState
<1> QED BY <1>1, <1>2, <1>3, <1>4, FrameSaga DEF GateInvariant
LEMMA GateRefresh ==
  ASSUME TypeInv, GateInvariant, pc = "assert", BeginPublicationRefresh(now),
         pc' = "claim", UNCHANGED <<run, selector, world>>
  PROVE  GateInvariant'
<1> DEFINE o == saga.batch
<1>1. /\ saga \in Saga /\ o \in Batches /\ saga # None
      /\ saga.complete # None
  BY NoneAssumption DEF BeginPublicationRefresh, RefreshDue, TypeInv, TablesTypeOK, Saga,
         GateInvariant, StagesInOrder
<1>2. PICK n \in Batches :
        /\ IsNextBatchId(n)
        /\ history' = IF \E h \in history : h.batch = o THEN history
                      ELSE history \cup {saga}
        /\ saga' = [NewSaga([batch |-> n, gen |-> saga.gen], saga.dest)
                      EXCEPT !.complete = saga.complete]
        /\ sagaBlobs' = [sagaBlobs EXCEPT ![n] = sagaBlobs[o], ![o] = {}]
        /\ proofs' = [proofs EXCEPT ![n] = proofs[o], ![o] = {}]
        /\ work' = [work EXCEPT ![o] = NoWork, ![n] =
                      [t \in Targets |-> IF t \in Servers THEN work[o][t]
                                         ELSE "absent"]]
  BY DEF BeginPublicationRefresh
<1>3. /\ saga'.batch = n /\ saga'.gen = saga.gen /\ saga'.dest = saga.dest
      /\ saga'.complete = saga.complete /\ saga'.signed = None
      /\ ~saga'.ack /\ ~saga'.committed /\ ~saga'.admitted
  BY <1>2 DEF NewSaga
<1>4. held' = held /\ announced' = announced /\ n # o
  BY <1>1, <1>2 DEF world, IsNextBatchId
<1>5. ProofsAreTrue'
  BY <1>1, <1>2, <1>4 DEF GateInvariant, ProofsAreTrue, TypeInv, TablesTypeOK
<1>6. InventoryCovers'
  BY <1>1, <1>3 DEF InventoryCovers
<1>7. CompleteIsSound'
  BY <1>1, <1>2, <1>3, <1>4 DEF GateInvariant, CompleteIsSound, Sound
<1>8. StagesInOrder'
  BY <1>3 DEF StagesInOrder
<1>9. PointsAgree'
  BY DEF PointsAgree
<1>10. ReplicaWorkIsOwn'
  <2>1. \A s \in Servers : worker'[s] = "idle"
    BY DEF GateInvariant, ReplicaWorkIsOwn, run, uploads
  <2>2. saga' # None
    BY <1>1, <1>2, NoneAssumption DEF NewSaga, Saga
  <2>3. ASSUME NEW b \in Batches, NEW s \in Servers, work'[b][s] # "absent"
        PROVE  b = n /\ s \in saga.dest
    <3>1. b # o
      BY <1>1, <1>2, <1>4, <2>3 DEF TypeInv, TablesTypeOK, NoWork
    <3>2. CASE b = n
      <4>1. work'[b][s] = work[o][s]
        BY <1>1, <1>2, <1>4, <3>2 DEF TypeInv, TablesTypeOK
      <4> QED BY <1>1, <2>3, <3>2, <4>1 DEF GateInvariant, ReplicaWorkIsOwn
    <3>3. CASE b # n
      <4>1. work'[b][s] = work[b][s]
        BY <1>1, <1>2, <3>1, <3>3 DEF TypeInv, TablesTypeOK
      <4> QED BY <1>1, <2>3, <3>1, <4>1 DEF GateInvariant, ReplicaWorkIsOwn
    <3> QED BY <3>2, <3>3
  <2> QED BY <1>3, <2>1, <2>2, <2>3 DEF ReplicaWorkIsOwn
<1>11. SelectionIsAnnounced'
  BY <1>4, FrameSelection
<1>12. AnnouncedIsAvailable'
  BY <1>4 DEF GateInvariant, AnnouncedIsAvailable
<1> QED BY <1>5, <1>6, <1>7, <1>8, <1>9, <1>10, <1>11, <1>12 DEF GateInvariant

\* The credit of an earlier replica is sound: the two trees are equal.
LEMMA CreditIsSound ==
  ASSUME TypeInv, GateInvariant, NEW c \in Credits, saga # None
  PROVE  /\ Sound(Credited(c))
         /\ Credited(c) # None /\ Credited(c) \in Saga
         /\ Credited(c).batch = saga.batch /\ Credited(c).gen = saga.gen
         /\ Credited(c).dest = saga.dest /\ Credited(c).signed = saga.signed
         /\ Credited(c).ack = saga.ack /\ Credited(c).committed = saga.committed
         /\ Credited(c).admitted = saga.admitted
         /\ Credited(c).complete = None => saga.complete = None
         /\ saga.complete # None => Credited(c).complete # None
<1>1. saga \in Saga
  BY DEF TypeInv, TablesTypeOK
<1>2. CASE c = None
  BY <1>1, <1>2 DEF Credited, GateInvariant, CompleteIsSound
<1>3. CASE c # None
  <2>1. Credited(c) = [saga EXCEPT !.complete = c]
    BY <1>3 DEF Credited
  <2>2. /\ Credited(c).batch = saga.batch /\ Credited(c).gen = saga.gen
        /\ Credited(c).dest = saga.dest /\ Credited(c).signed = saga.signed
        /\ Credited(c).ack = saga.ack /\ Credited(c).committed = saga.committed
        /\ Credited(c).admitted = saga.admitted /\ Credited(c).complete = c
    BY <1>1, <2>1 DEF Saga
  <2>3. Credited(c) \in Saga /\ saga.complete = None
    BY <1>1, <1>3, CreditsType DEF TypeInv
  <2>4. PICK h \in history : /\ h.complete = c /\ c \in saga.dest
                            /\ Tree[h.gen] = Tree[saga.gen]
    BY <1>3, CreditsType DEF TypeInv
  <2>5. Tree[saga.gen] \subseteq held[c]
    BY <1>3, <2>4 DEF GateInvariant, CompleteIsSound, Sound
  <2> QED BY <1>3, <2>2, <2>3, <2>4, <2>5, NoneAssumption DEF Sound
<1> QED BY <1>2, <1>3

LEMMA GateClaimKeep ==
  ASSUME TypeInv, GateInvariant, NEW c \in Credits, ClaimKeep(c),
         pc = "claim", pc' \in {"idle", "ensure"}, pc' = "ensure" => saga # None,
         UNCHANGED <<run, selector, world>>
  PROVE  GateInvariant'
<1>1. /\ held' = held /\ announced' = announced /\ UNCHANGED <<history, sagaBlobs, proofs>>
      /\ saga' = Credited(c) /\ work' = CreditedWork(c) /\ worker' = worker
  BY DEF ClaimKeep, world, run, uploads
<1>2. saga = None => c = None /\ saga' = None
  BY <1>1 DEF Credits, Priors, Credited
<1>3. ProofsAreTrue' /\ AnnouncedIsAvailable'
  BY <1>1 DEF GateInvariant, ProofsAreTrue, AnnouncedIsAvailable
<1>4. InventoryCovers'
  BY <1>1, <1>2, CreditIsSound DEF GateInvariant, InventoryCovers
<1>5. CompleteIsSound'
  <2>1. saga' # None => Sound(saga')
    BY <1>1, <1>2, CreditIsSound
  <2>2. \A row \in history : Sound(row)
    BY DEF GateInvariant, CompleteIsSound
  <2> QED BY <1>1, <2>1, <2>2 DEF CompleteIsSound, Sound
<1>6. StagesInOrder'
  BY <1>1, <1>2, CreditIsSound DEF GateInvariant, StagesInOrder
<1>7. PointsAgree'
  BY <1>1, CreditIsSound DEF PointsAgree
<1>8. ReplicaWorkIsOwn'
  <2>1. \A s \in Servers : worker'[s] = "idle"
    BY <1>1 DEF GateInvariant, ReplicaWorkIsOwn
  <2>2. ASSUME NEW b \in Batches, NEW s \in Servers, work'[b][s] # "absent"
        PROVE  work[b][s] # "absent"
    <3>1. c # None => saga.batch \in Batches
      BY CreditsType DEF TypeInv, Saga
    <3> QED BY <1>1, <2>2, <3>1 DEF CreditedWork, TypeInv, TablesTypeOK
  <2>3. ASSUME NEW b \in Batches, NEW s \in Servers, work'[b][s] # "absent"
        PROVE  saga' # None /\ b = saga'.batch /\ s \in saga'.dest
    <3>1. saga # None /\ b = saga.batch /\ s \in saga.dest
      BY <2>2, <2>3 DEF GateInvariant, ReplicaWorkIsOwn
    <3> QED BY <1>1, <3>1, CreditIsSound
  <2> QED BY <2>1, <2>3 DEF ReplicaWorkIsOwn
<1>9. SelectionIsAnnounced'
  BY <1>1, FrameSelection
<1> QED BY <1>3, <1>4, <1>5, <1>6, <1>7, <1>8, <1>9 DEF GateInvariant

LEMMA GateClaimReplace ==
  ASSUME TypeInv, GateInvariant, NEW c \in Credits, NEW D \in SUBSET Servers,
         ClaimReplace(c, D), pc = "claim", pc' = "ensure",
         UNCHANGED <<run, selector, world>>
  PROVE  GateInvariant'
<1> DEFINE b == pending.batch
<1>1. pending \in Candidate /\ b \in Batches /\ Tree[pending.gen] \subseteq Hashes
  BY TablesAssumption DEF ClaimReplace, Supersedes, TypeInv, TablesTypeOK, Candidate
<1>2. /\ held' = held /\ announced' = announced /\ proofs' = proofs
      /\ worker' = worker
      /\ saga' = NewSaga(pending, D)
      /\ history' = IF saga = None THEN history ELSE Archive(Credited(c))
      /\ sagaBlobs' = [sagaBlobs EXCEPT ![b] = @ \cup Tree[pending.gen]]
      /\ work' = [o \in Batches |-> IF o \in (IF saga = None THEN {} ELSE {saga.batch})
                                   THEN NoWork ELSE work[o]]
  BY DEF ClaimReplace, world, run, uploads
<1>3. /\ saga'.batch = b /\ saga'.gen = pending.gen /\ saga'.dest = D
      /\ saga'.complete = None /\ saga'.signed = None
      /\ ~saga'.ack /\ ~saga'.committed /\ ~saga'.admitted
  BY <1>2 DEF NewSaga
<1>4. saga' # None
  BY <1>1, <1>2, NewSagaType, NoneAssumption
<1>5. ProofsAreTrue'
  BY <1>1, <1>2 DEF GateInvariant, ProofsAreTrue, TypeInv, TablesTypeOK
<1>6. InventoryCovers'
  BY <1>1, <1>2, <1>3 DEF InventoryCovers, TypeInv, TablesTypeOK
<1>7. CompleteIsSound'
  <2>1. \A row \in history' : Sound(row)
    BY <1>2, CreditIsSound DEF GateInvariant, CompleteIsSound, Archive
  <2> QED BY <1>2, <1>3, <2>1 DEF CompleteIsSound, Sound
<1>8. StagesInOrder' /\ PointsAgree'
  BY <1>3, <1>4 DEF StagesInOrder, PointsAgree
<1>9. ReplicaWorkIsOwn'
  <2>1. \A s \in Servers : worker'[s] = "idle"
    BY <1>2 DEF GateInvariant, ReplicaWorkIsOwn
  <2>2. \A o \in Batches, s \in Servers : work'[o][s] = "absent"
    BY <1>2 DEF GateInvariant, ReplicaWorkIsOwn, NoWork
  <2> QED BY <2>1, <2>2 DEF ReplicaWorkIsOwn
<1>10. SelectionIsAnnounced' /\ AnnouncedIsAvailable'
  BY <1>2, FrameSelection DEF GateInvariant, AnnouncedIsAvailable
<1> QED BY <1>5, <1>6, <1>7, <1>8, <1>9, <1>10 DEF GateInvariant

LEMMA GateClaiming ==
  ASSUME TypeInv, GateInvariant
  PROVE  /\ Tick \/ AssertionFails => GateInvariant'
         /\ Asserted => GateInvariant'
         /\ \A D \in DestinationLists : Claim(D) => GateInvariant'
         /\ Ensure => GateInvariant'
<1>0. ASSUME Tick \/ AssertionFails PROVE GateInvariant'
  <2>1. /\ UNCHANGED sagaState /\ UNCHANGED selector /\ UNCHANGED <<work, worker>>
        /\ pc \in {"idle", "assert", "repair"} /\ pc' \in {"idle", "assert"}
    BY <1>0 DEF Tick, AssertionFails, tables, sagaState, run, uploads, world, Running
  <2>2. PointsAgree'
    BY <2>1 DEF PointsAgree
  <2>3. ReplicaWorkIsOwn'
    BY <2>1 DEF GateInvariant, ReplicaWorkIsOwn, sagaState
  <2>4. SelectionIsAnnounced'
    BY <2>1, FrameSelection DEF sagaState
  <2> QED BY <2>1, <2>2, <2>3, <2>4, FrameSaga DEF GateInvariant
<1>1. ASSUME Asserted PROVE GateInvariant'
  <2>1. CASE RefreshDue(now)
    BY <1>1, <2>1, GateRefresh DEF Asserted, Running
  <2>2. CASE ~RefreshDue(now)
    <3>1. /\ UNCHANGED sagaState /\ UNCHANGED selector /\ UNCHANGED <<work, worker>>
          /\ pc = "assert" /\ pc' = "claim"
      BY <1>1, <2>2 DEF Asserted, tables, sagaState, run, uploads, world, Running
    <3>2. PointsAgree'
      BY <3>1 DEF PointsAgree
    <3>3. ReplicaWorkIsOwn'
      BY <3>1 DEF GateInvariant, ReplicaWorkIsOwn, sagaState
    <3>4. SelectionIsAnnounced'
      BY <3>1, FrameSelection DEF sagaState
    <3> QED BY <3>1, <3>2, <3>3, <3>4, FrameSaga DEF GateInvariant
  <2> QED BY <2>1, <2>2
<1>2. ASSUME NEW D \in DestinationLists, Claim(D) PROVE GateInvariant'
  <2>1. D \in SUBSET Servers
    BY PublicationAssumption
  <2>2. PICK c \in Credits :
          \/ ClaimReplace(c, D) /\ pc' = "ensure"
          \/ ClaimKeep(c) /\ pc' = "idle"
          \/ ClaimKeep(c) /\ pc' = IF saga = None THEN "idle" ELSE "ensure"
    BY <1>2 DEF Claim
  <2>3. pc = "claim" /\ UNCHANGED <<run, selector, world>>
    BY <1>2 DEF Claim, Running
  <2>4. CASE ClaimReplace(c, D) /\ pc' = "ensure"
    BY <2>1, <2>3, <2>4, GateClaimReplace
  <2>5. CASE ClaimKeep(c) /\ pc' \in {"idle", "ensure"} /\ (pc' = "ensure" => saga # None)
    BY <2>3, <2>5, GateClaimKeep
  <2> QED BY <2>2, <2>4, <2>5
<1>3. ASSUME Ensure PROVE GateInvariant'
  <2>1. saga \in Saga /\ saga # None /\ saga.batch \in Batches
        /\ saga.dest \subseteq Servers
    BY <1>3, SagaThere DEF Ensure, Running, Saga
  <2>2. UNCHANGED sagaState /\ UNCHANGED selector
    BY <1>3 DEF Ensure, EnsureEndpointWork, sagaState, world
  <2>3. PointsAgree'
    BY <1>3, <2>1, <2>2 DEF Ensure, PointsAgree, sagaState
  <2>4. ASSUME NEW b \in Batches, NEW s \in Servers, work'[b][s] # "absent"
        PROVE  b = saga.batch /\ s \in saga.dest
    BY <1>3, <2>1, <2>4
       DEF Ensure, EnsureEndpointWork, SetWork, Ensured, GateInvariant,
           ReplicaWorkIsOwn, TypeInv, TablesTypeOK
  <2>5. ASSUME NEW s \in Servers, worker'[s] # "idle"
        PROVE  pc' = "authorize" /\ s \in saga.dest
    <3>1. pc' = "authorize" /\ Ensured(saga.dest)[s] = "pending"
      BY <1>3, <2>5 DEF Ensure
    <3>2. work'[saga.batch][s] = "pending"
      BY <1>3, <2>1, <3>1
         DEF Ensure, EnsureEndpointWork, SetWork, TypeInv, TablesTypeOK
    <3> QED BY <2>1, <2>4, <3>1, <3>2
  <2>6. ReplicaWorkIsOwn'
    BY <2>1, <2>2, <2>4, <2>5 DEF ReplicaWorkIsOwn, sagaState
  <2>7. SelectionIsAnnounced'
    BY <2>2, FrameSelection DEF sagaState
  <2> QED BY <2>2, <2>3, <2>6, <2>7, FrameSaga DEF GateInvariant
<1> QED BY <1>0, <1>1, <1>2, <1>3

\* A server with as many proofs as the inventory has rows stores the tree.
LEMMA CompleteStoresTree ==
  ASSUME TypeInv, GateInvariant, saga # None, saga.complete = None,
         NEW s \in Servers, ServerComplete(s)
  PROVE  Tree[saga.gen] \subseteq held[s]
<1> DEFINE B == sagaBlobs[saga.batch]
           P == {h \in Hashes : <<s, h>> \in proofs[saga.batch]}
<1>1. saga.batch \in Batches /\ B \subseteq Hashes
  BY DEF TypeInv, TablesTypeOK, Saga
<1>2. P \subseteq B /\ P \subseteq held[s]
  BY <1>1 DEF GateInvariant, ProofsAreTrue
<1>3. IsFiniteSet(B)
  BY <1>1, TablesAssumption, FS_Subset
<1>4. Cardinality(B) = Cardinality(P)
  BY DEF ServerComplete
<1>5. P = B
  BY <1>2, <1>3, <1>4, FS_Subset
<1>6. Tree[saga.gen] \subseteq B
  BY DEF GateInvariant, InventoryCovers, ServerComplete
<1> QED BY <1>2, <1>5, <1>6

LEMMA GateProve ==
  ASSUME TypeInv, GateInvariant, NEW s \in Servers, NEW h \in Hashes,
         NEW ok \in BOOLEAN, ProveBlob(s, h, ok)
  PROVE  GateInvariant'
<1>1. saga \in Saga /\ saga # None /\ saga.batch \in Batches
  BY SagaThere DEF ProveBlob, Running, Saga
<1>2. /\ UNCHANGED <<saga, history, sagaBlobs, work, pc, announced, template>>
      /\ UNCHANGED selector
  BY DEF ProveBlob, RecordBlobProof, tables
<1>3. \A t \in Servers : held[t] \subseteq held'[t]
  BY DEF ProveBlob, TypeInv, LoopTypeOK
<1>4. ProofsAreTrue'
  <2>1. CASE ok
    <3>1. /\ proofs' = [proofs EXCEPT ![saga.batch] = @ \cup {<<s, h>>}]
          /\ h \in sagaBlobs[saga.batch] /\ h \in held'[s]
      BY <2>1 DEF ProveBlob, RecordBlobProof, TypeInv, LoopTypeOK
    <3>2. ASSUME NEW b \in Batches, NEW t \in Servers, NEW k \in Hashes,
                 <<t, k>> \in proofs'[b]
          PROVE  k \in held'[t] /\ k \in sagaBlobs[b]
      <4>1. <<t, k>> \in proofs[b] \/ (b = saga.batch /\ t = s /\ k = h)
        BY <1>1, <3>1, <3>2 DEF TypeInv, TablesTypeOK
      <4> QED BY <1>3, <3>1, <4>1 DEF GateInvariant, ProofsAreTrue
    <3> QED BY <1>2, <3>2 DEF ProofsAreTrue
  <2>2. CASE ~ok
    BY <1>2, <2>2 DEF ProveBlob, tables, GateInvariant, ProofsAreTrue
  <2> QED BY <2>1, <2>2
<1>5. InventoryCovers' /\ StagesInOrder' /\ PointsAgree'
  BY <1>2 DEF GateInvariant, InventoryCovers, StagesInOrder, PointsAgree
<1>6. CompleteIsSound'
  <2>1. ASSUME NEW row \in Saga, Sound(row)
        PROVE  row.complete # None => /\ row.complete \in row.dest
                                      /\ Tree[row.gen] \subseteq held'[row.complete]
    BY <1>3, <2>1 DEF Sound, Saga
  <2>2. Sound(saga) /\ \A row \in history : row \in Saga /\ Sound(row)
    BY <1>1 DEF GateInvariant, CompleteIsSound, TypeInv, TablesTypeOK
  <2> QED BY <1>1, <1>2, <2>1, <2>2 DEF CompleteIsSound, Sound
<1>7. AnnouncedIsAvailable'
  <2>1. \A e \in announced : e.dest \subseteq Servers
    BY DEF TypeInv, LoopTypeOK, Event
  <2> QED BY <1>2, <1>3, <2>1 DEF GateInvariant, AnnouncedIsAvailable
<1>8. ReplicaWorkIsOwn'
  BY <1>2 DEF ProveBlob, GateInvariant, ReplicaWorkIsOwn, TypeInv, LoopTypeOK
<1>9. SelectionIsAnnounced'
  BY <1>2, FrameSelection
<1> QED BY <1>4, <1>5, <1>6, <1>7, <1>8, <1>9 DEF GateInvariant

\* Workers move on within the servers of the attempt.
LEMMA WorkersMove ==
  ASSUME TypeInv, NEW s \in Servers,
         (\E may \in BOOLEAN : TakeNext(s, may)) \/ FailServer(s)
  PROVE  \A t \in Servers : worker'[t] # "idle" => worker[t] # "idle"
BY DEF TakeNext, FailServer, Queued, TypeInv, LoopTypeOK

\* A server with a complete inventory becomes the complete server.
LEMMA GateComplete ==
  ASSUME TypeInv, GateInvariant, NEW s \in Servers, saga \in Saga, saga # None,
         pc = "replicate", worker[s] # "idle", ServerComplete(s),
         RecordCompleteServer(s), TakeNext(s, FALSE), UNCHANGED <<pc, selector, world>>
  PROVE  GateInvariant'
<1>1. /\ UNCHANGED <<history, sagaBlobs, proofs, held, announced>> /\ UNCHANGED selector
      /\ saga' = IF saga.complete = None THEN [saga EXCEPT !.complete = s] ELSE saga
      /\ work' = [work EXCEPT ![saga.batch] =
                    [work[saga.batch] EXCEPT ![s] = IF s \in Open THEN "complete" ELSE @]]
  BY DEF RecordCompleteServer, SetWork, world
<1>2. s \in saga.dest /\ saga.batch \in Batches
  BY DEF GateInvariant, ReplicaWorkIsOwn, Saga
<1>3. [saga EXCEPT !.complete = s] \in Saga
  BY DEF Saga
<1>4. saga' # None
  BY <1>1, <1>3, NoneAssumption
<1>5. /\ saga'.batch = saga.batch /\ saga'.gen = saga.gen /\ saga'.dest = saga.dest
      /\ saga'.signed = saga.signed /\ saga'.ack = saga.ack
      /\ saga'.committed = saga.committed /\ saga'.admitted = saga.admitted
      /\ saga'.complete = IF saga.complete = None THEN s ELSE saga.complete
  BY <1>1 DEF Saga
<1>6. saga'.complete # None
  BY <1>5, NoneAssumption
<1>7. ProofsAreTrue' /\ InventoryCovers' /\ AnnouncedIsAvailable'
  BY <1>1, <1>6 DEF GateInvariant, ProofsAreTrue, InventoryCovers, AnnouncedIsAvailable
<1>8. CompleteIsSound'
  <2>1. CASE saga.complete = None
    <3>1. Tree[saga.gen] \subseteq held[s]
      BY <2>1, CompleteStoresTree
    <3>2. Sound(saga)'
      BY <1>1, <1>2, <1>5, <2>1, <3>1 DEF Sound
    <3> QED BY <1>1, <3>2 DEF GateInvariant, CompleteIsSound, Sound
  <2>2. CASE saga.complete # None
    BY <1>1, <2>2 DEF GateInvariant, CompleteIsSound, Sound
  <2> QED BY <2>1, <2>2
<1>9. StagesInOrder'
  BY <1>1, <1>5, <1>6 DEF GateInvariant, StagesInOrder
<1>10. PointsAgree'
  BY <1>4 DEF PointsAgree
<1>11. ReplicaWorkIsOwn'
  <2>1. \A t \in Servers : worker'[t] # "idle" => worker[t] # "idle"
    BY WorkersMove
  <2>2. ASSUME NEW b \in Batches, NEW t \in Servers, work'[b][t] # "absent"
        PROVE  work[b][t] # "absent"
    BY <1>1, <1>2, <2>2 DEF Open, TypeInv, TablesTypeOK
  <2> QED BY <1>4, <1>5, <2>1, <2>2 DEF GateInvariant, ReplicaWorkIsOwn
<1>12. SelectionIsAnnounced'
  BY <1>1, FrameSelection
<1> QED BY <1>7, <1>8, <1>9, <1>10, <1>11, <1>12 DEF GateInvariant

LEMMA GateReplicating ==
  ASSUME TypeInv, GateInvariant, Replicating
  PROVE  GateInvariant'
<1>0. /\ pc \in {"authorize", "replicate"}
      /\ saga \in Saga /\ saga # None /\ saga.batch \in Batches
  <2>1. pc \in {"authorize", "replicate"}
    BY DEF Replicating, Authorized, AuthorizationFails, EndReplication,
           FinishServer, AbortServer, ProveBlob, Running
  <2> QED BY <2>1, SagaThere DEF Saga
\* A step that touches nothing but replica rows, workers and the control point.
<1>1. ASSUME UNCHANGED sagaState, UNCHANGED selector,
             pc' \in {"idle", "authorize", "replicate"} \/
               (pc' = "stage" /\ saga.complete # None),
             \A b \in Batches, s \in Servers :
               work'[b][s] # "absent" => work[b][s] # "absent",
             \A s \in Servers : worker'[s] # "idle" =>
               worker[s] # "idle" /\ pc' \in {"authorize", "replicate"}
      PROVE  GateInvariant'
  <2>1. PointsAgree'
    BY <1>0, <1>1 DEF PointsAgree, sagaState
  <2>2. ReplicaWorkIsOwn'
    BY <1>1, FrameWork DEF sagaState
  <2>3. SelectionIsAnnounced'
    BY <1>1, FrameSelection DEF sagaState
  <2> QED BY <1>1, <2>1, <2>2, <2>3, FrameSaga DEF GateInvariant
<1>2. ASSUME Authorized PROVE GateInvariant'
  BY <1>1, <1>2 DEF Authorized, tables, sagaState, world, Queued
<1>3. ASSUME AuthorizationFails PROVE GateInvariant'
  <2>1. /\ UNCHANGED <<saga, history, sagaBlobs, proofs>>
        /\ \A b \in Batches, s \in Servers :
             work'[b][s] # "absent" => work[b][s] # "absent"
    BY <1>0, <1>3, ExhaustRows DEF AuthorizationFails, Eligible
  <2> QED BY <1>1, <1>3, <2>1
          DEF AuthorizationFails, EndAttempt, NoWorkers, sagaState, world
<1>4. ASSUME EndReplication PROVE GateInvariant'
  BY <1>1, <1>4 DEF EndReplication, EndAttempt, NoWorkers, Completed, tables,
                    sagaState, world
<1>5. ASSUME NEW s \in Servers, FailServer(s), UNCHANGED <<pc, selector, world>>,
             pc = "replicate"
      PROVE  GateInvariant'
  <2>1. /\ UNCHANGED <<saga, history, sagaBlobs, proofs>>
        /\ \A b \in Batches, t \in Servers :
             work'[b][t] # "absent" => work[b][t] # "absent"
    BY <1>0, <1>5, ExhaustRows, Doomed(s) \subseteq Servers
       DEF FailServer, Doomed, Queued
  <2>2. \A t \in Servers : worker'[t] # "idle" => worker[t] # "idle"
    BY <1>5, WorkersMove
  <2> QED BY <1>1, <1>5, <2>1, <2>2 DEF sagaState, world
<1>6. ASSUME NEW s \in Servers, AbortServer(s) PROVE GateInvariant'
  BY <1>5, <1>6 DEF AbortServer, Running
<1>7. ASSUME NEW s \in Servers, FinishServer(s) PROVE GateInvariant'
  <2>1. CASE FailServer(s)
    BY <1>5, <1>7, <2>1 DEF FinishServer, Running
  <2>2. CASE ServerComplete(s) /\ RecordCompleteServer(s) /\ TakeNext(s, FALSE)
    BY <1>0, <1>7, <2>2, GateComplete DEF FinishServer, Running, Busy
  <2> QED BY <1>7, <2>1, <2>2 DEF FinishServer
<1>8. ASSUME NEW s \in Servers, NEW h \in Hashes, NEW ok \in BOOLEAN,
             ProveBlob(s, h, ok)
      PROVE  GateInvariant'
  BY <1>8, GateProve
<1> QED BY <1>2, <1>3, <1>4, <1>6, <1>7, <1>8 DEF Replicating

-----------------------------------------------------------------------------
(* Signing, announcing, committing, repairing *)

\* A step between the uploads that leaves the saga alone.
LEMMA GateFrame ==
  ASSUME TypeInv, GateInvariant, UNCHANGED sagaState, UNCHANGED worker,
         pc \notin {"authorize", "replicate"},
         \A b \in Batches, s \in Servers :
           work'[b][s] # "absent" => work[b][s] # "absent",
         PointsAgree', SelectionIsAnnounced'
  PROVE  GateInvariant'
<1>1. \A s \in Servers : worker[s] = "idle"
  BY DEF GateInvariant, ReplicaWorkIsOwn
<1>2. ReplicaWorkIsOwn'
  BY <1>1, FrameWork DEF sagaState
<1> QED BY <1>2, FrameSaga DEF GateInvariant

\* A step between the uploads that advances the saga by one column.
LEMMA GateAdvance ==
  ASSUME TypeInv, GateInvariant, saga \in Saga, saga # None, saga' # None,
         pc \notin {"authorize", "replicate"},
         saga'.batch = saga.batch, saga'.gen = saga.gen, saga'.dest = saga.dest,
         saga'.complete = saga.complete,
         UNCHANGED <<history, sagaBlobs, proofs, work, held, announced, worker>>,
         UNCHANGED selector, StagesInOrder', PointsAgree'
  PROVE  GateInvariant'
<1>1. \A s \in Servers : worker'[s] = "idle"
  BY DEF GateInvariant, ReplicaWorkIsOwn
<1>2. ReplicaWorkIsOwn'
  BY <1>1 DEF GateInvariant, ReplicaWorkIsOwn
<1>3. ProofsAreTrue' /\ InventoryCovers' /\ AnnouncedIsAvailable'
  BY DEF GateInvariant, ProofsAreTrue, InventoryCovers, AnnouncedIsAvailable
<1>4. CompleteIsSound'
  BY DEF GateInvariant, CompleteIsSound, Sound
<1>5. SelectionIsAnnounced'
  BY FrameSelection
<1> QED BY <1>2, <1>3, <1>4, <1>5 DEF GateInvariant

\* ensureEndpointWork for the relays makes no replica row.
LEMMA EnsureRelayRows ==
  ASSUME TypeInv, saga \in Saga, EnsureEndpointWork(Relays)
  PROVE  /\ UNCHANGED <<saga, history, sagaBlobs, proofs>>
         /\ \A b \in Batches, s \in Servers : work'[b][s] = work[b][s]
<1>1. saga.batch \in Batches
  BY DEF Saga
<1>2. \A s \in Servers : s \notin Relays
  BY TablesAssumption
<1>3. \A b \in Batches, s \in Servers : work'[b][s] = work[b][s]
  BY <1>1, <1>2 DEF EnsureEndpointWork, SetWork, Ensured, TypeInv, TablesTypeOK
<1> QED BY <1>3 DEF EnsureEndpointWork

\* The signed event of a saga is available.
LEMMA SignedIsAvailable ==
  ASSUME GateInvariant, saga # None, saga.signed # None
  PROVE  Tree[saga.signed.gen] \subseteq held[saga.complete] /\ saga.complete \in saga.signed.dest
BY DEF GateInvariant, StagesInOrder, CompleteIsSound, Sound

LEMMA GateStage ==
  ASSUME TypeInv, TypeInv', GateInvariant, Stage
  PROVE  GateInvariant'
<1>0. saga \in Saga /\ saga # None /\ pc = "stage" /\ saga.complete # None
  BY SagaThere DEF Stage, Running, GateInvariant, PointsAgree
<1>1. UNCHANGED <<worker, held>> /\ UNCHANGED selector
  BY DEF Stage, uploads
<1>2. CASE saga.signed = None
  <2>1. PICK t : template' = [batch |-> saga.batch, gen |-> saga.gen,
                              dest |-> saga.dest, created |-> t,
                              exp |-> now + Lifetime]
    BY <1>2 DEF Stage
  <2>2. UNCHANGED tables /\ UNCHANGED announced /\ pc' = "sign"
    BY <1>2 DEF Stage
  <2>3. template' # None
    BY <2>2 DEF TypeInv, PointsTyped
  <2>4. PointsAgree'
    BY <1>0, <2>1, <2>2, <2>3 DEF PointsAgree, tables
  <2>5. SelectionIsAnnounced'
    BY <1>1, <2>2, FrameSelection
  <2> QED BY <1>0, <1>1, <2>2, <2>4, <2>5, GateFrame DEF sagaState, tables
<1>3. CASE saga.signed # None
  <2>1. EnsureEndpointWork(Relays)
    BY <1>3 DEF Stage
  <2>2. /\ UNCHANGED <<saga, history, sagaBlobs, proofs>>
        /\ \A b \in Batches, s \in Servers : work'[b][s] = work[b][s]
    BY <1>0, <2>1, EnsureRelayRows
  <2>3. CASE saga.ack
    <3>1. pc' = "commit" /\ UNCHANGED announced
      BY <1>3, <2>3 DEF Stage
    <3>2. PointsAgree'
      BY <1>0, <2>2, <2>3, <3>1 DEF PointsAgree
    <3>3. SelectionIsAnnounced'
      BY <1>1, <3>1, FrameSelection
    <3> QED BY <1>0, <1>1, <2>2, <3>1, <3>2, <3>3, GateFrame DEF sagaState
  <2>4. CASE ~saga.ack
    <3>1. pc' = "publish" /\ announced' = announced \cup {saga.signed}
      BY <1>3, <2>4 DEF Stage
    <3>2. PointsAgree'
      BY <1>0, <1>3, <2>2, <3>1 DEF PointsAgree
    <3>3. AnnouncedIsAvailable'
      BY <1>0, <1>1, <1>3, <3>1, SignedIsAvailable
         DEF GateInvariant, AnnouncedIsAvailable
    <3>4. ProofsAreTrue' /\ InventoryCovers' /\ CompleteIsSound'
      BY <1>1, <2>2 DEF GateInvariant, ProofsAreTrue, InventoryCovers,
                        CompleteIsSound, Sound
    <3>5. StagesInOrder'
      BY <2>2, <3>1 DEF GateInvariant, StagesInOrder
    <3>6. ReplicaWorkIsOwn'
      BY <1>0, <1>1, <2>2 DEF GateInvariant, ReplicaWorkIsOwn
    <3>7. SelectionIsAnnounced'
      BY <1>1, <3>1, FrameSelection
    <3> QED BY <3>2, <3>3, <3>4, <3>5, <3>6, <3>7 DEF GateInvariant
  <2> QED BY <2>3, <2>4
<1> QED BY <1>2, <1>3

\* The selector learns announced events only.
LEMMA NewestIsMember ==
  ASSUME NEW E, NEW c \in Newest(E)
  PROVE  c \in E \cup {None}
BY DEF Newest

LEMMA AcceptAnnounced ==
  ASSUME GateInvariant, NEW e \in announced, Accept(e), UNCHANGED announced
  PROVE  SelectionIsAnnounced'
<1>1. CASE Acceptable(e)
  <2>1. stored' = e /\ loaded' \subseteq announced
    BY <1>1 DEF Accept, GateInvariant, SelectionIsAnnounced
  <2>2. current' \in Selectable(loaded') \cup {None}
    BY <1>1, NewestIsMember DEF Accept
  <2> QED BY <2>1, <2>2 DEF Selectable, SelectionIsAnnounced
<1>2. CASE ~Acceptable(e)
  BY <1>2, FrameSelection DEF Accept
<1> QED BY <1>1, <1>2

LEMMA GateSigning ==
  ASSUME TypeInv, GateInvariant
  PROVE  /\ Signed => GateInvariant'
         /\ Acknowledge => GateInvariant'
         /\ Commit => GateInvariant'
<1>1. ASSUME Signed PROVE GateInvariant'
  <2>1. /\ saga \in Saga /\ saga # None /\ pc = "sign" /\ saga.complete # None
        /\ template # None /\ template \in Event
        /\ template.gen = saga.gen /\ template.dest = saga.dest
    BY <1>1, SagaThere DEF Signed, Running, GateInvariant, PointsAgree, TypeInv,
                           LoopTypeOK
  <2>2. /\ UNCHANGED <<history, sagaBlobs, proofs, work, held, announced, worker>>
        /\ UNCHANGED selector
        /\ saga' = IF saga.signed = None THEN [saga EXCEPT !.signed = template]
                   ELSE saga
        /\ pc' = "stage"
    BY <1>1 DEF Signed, RecordSigned, sagaOnly, rowTables, uploads, world
  <2>3. /\ saga'.batch = saga.batch /\ saga'.gen = saga.gen /\ saga'.dest = saga.dest
        /\ saga'.complete = saga.complete /\ saga'.ack = saga.ack
        /\ saga'.committed = saga.committed /\ saga'.admitted = saga.admitted
        /\ saga'.signed = IF saga.signed = None THEN template ELSE saga.signed
    BY <2>1, <2>2 DEF Saga
  <2>4. [saga EXCEPT !.signed = template] \in Saga
    BY <2>1 DEF Saga
  <2>5. saga' # None
    BY <2>1, <2>2, <2>4, NoneAssumption
  <2>6. StagesInOrder'
    BY <2>1, <2>2, <2>3 DEF GateInvariant, StagesInOrder
  <2>7. PointsAgree'
    BY <2>1, <2>2, <2>3, <2>5 DEF PointsAgree
  <2> QED BY <2>1, <2>2, <2>3, <2>5, <2>6, <2>7, GateAdvance
<1>2. ASSUME Acknowledge PROVE GateInvariant'
  <2>1. /\ saga \in Saga /\ saga # None /\ pc = "ack"
        /\ saga.signed # None /\ saga.signed \in announced
    BY <1>2, SagaThere DEF Acknowledge, Running, GateInvariant, PointsAgree
  <2>2. /\ UNCHANGED <<history, sagaBlobs, proofs, work, held, announced, worker>>
        /\ UNCHANGED selector
        /\ saga' = [saga EXCEPT !.ack = TRUE] /\ pc' = "commit"
    BY <1>2 DEF Acknowledge, RecordRelayAcknowledgement, sagaOnly, rowTables, uploads,
                world
  <2>3. /\ saga'.batch = saga.batch /\ saga'.gen = saga.gen /\ saga'.dest = saga.dest
        /\ saga'.complete = saga.complete /\ saga'.signed = saga.signed /\ saga'.ack
        /\ saga'.committed = saga.committed /\ saga'.admitted = saga.admitted
    BY <2>1, <2>2 DEF Saga
  <2>4. [saga EXCEPT !.ack = TRUE] \in Saga
    BY <2>1 DEF Saga
  <2>5. saga' # None
    BY <2>2, <2>4, NoneAssumption
  <2>6. StagesInOrder'
    BY <2>1, <2>2, <2>3 DEF GateInvariant, StagesInOrder
  <2>7. PointsAgree'
    BY <2>2, <2>3, <2>5 DEF PointsAgree
  <2> QED BY <2>1, <2>2, <2>3, <2>5, <2>6, <2>7, GateAdvance
<1>3. ASSUME Commit PROVE GateInvariant'
  <2>1. saga \in Saga /\ saga # None /\ pc = "commit" /\ saga.ack
    BY <1>3, SagaThere DEF Commit, Running, GateInvariant, PointsAgree
  <2>2. /\ UNCHANGED <<history, sagaBlobs, proofs, work, held, announced, worker>>
        /\ UNCHANGED selector
        /\ saga' = [saga EXCEPT !.committed = TRUE] /\ pc' = "accept"
    BY <1>3 DEF Commit, CommitPublication, sagaOnly, rowTables, run, uploads, world
  <2>3. /\ saga'.batch = saga.batch /\ saga'.gen = saga.gen /\ saga'.dest = saga.dest
        /\ saga'.complete = saga.complete /\ saga'.signed = saga.signed
        /\ saga'.ack = saga.ack /\ saga'.committed /\ saga'.admitted = saga.admitted
    BY <2>1, <2>2 DEF Saga
  <2>4. [saga EXCEPT !.committed = TRUE] \in Saga
    BY <2>1 DEF Saga
  <2>5. saga' # None
    BY <2>2, <2>4, NoneAssumption
  <2>6. StagesInOrder'
    BY <2>1, <2>2, <2>3 DEF GateInvariant, StagesInOrder
  <2>7. PointsAgree'
    BY <2>1, <2>2, <2>3, <2>5 DEF PointsAgree
  <2> QED BY <2>1, <2>2, <2>3, <2>5, <2>6, <2>7, GateAdvance
<1> QED BY <1>1, <1>2, <1>3

\* Pruning drops inventory, proofs and work of a batch together.
LEMMA PrunedRows ==
  ASSUME GateInvariant, PruneAdmitted, UNCHANGED held
  PROVE  /\ UNCHANGED history /\ ProofsAreTrue'
         /\ \A b \in Batches : sagaBlobs'[b] \in {sagaBlobs[b], {}}
         /\ \A b \in Batches, s \in Servers :
              work'[b][s] # "absent" => work[b][s] # "absent"
<1>1. ProofsAreTrue'
  BY DEF PruneAdmitted, GateInvariant, ProofsAreTrue
<1> QED BY <1>1 DEF PruneAdmitted, NoWork

\* The saga of an admission has a complete server: it needs no inventory.
LEMMA GateMark ==
  ASSUME TypeInv, GateInvariant, Mark
  PROVE  GateInvariant'
<1>1. saga \in Saga /\ saga # None /\ pc = "mark" /\ saga.ack /\ saga.committed
  BY SagaThere DEF Mark, MarkPublicationAdmitted, Running, GateInvariant, PointsAgree
<1>2. saga.complete # None
  BY <1>1 DEF GateInvariant, StagesInOrder
<1>0. PruneAdmitted /\ UNCHANGED held
  BY DEF Mark, MarkPublicationAdmitted, world
<1>3. /\ UNCHANGED <<history, held, announced, worker>> /\ UNCHANGED selector
      /\ saga' = [saga EXCEPT !.admitted = TRUE] /\ pc' = "repair"
  BY <1>0, PrunedRows DEF Mark, MarkPublicationAdmitted, run, uploads, world
<1>4. /\ saga'.batch = saga.batch /\ saga'.gen = saga.gen /\ saga'.dest = saga.dest
      /\ saga'.complete = saga.complete /\ saga'.signed = saga.signed
      /\ saga'.ack = saga.ack /\ saga'.committed = saga.committed
  BY <1>1, <1>3 DEF Saga
<1>5. [saga EXCEPT !.admitted = TRUE] \in Saga
  BY <1>1 DEF Saga
<1>6. saga' # None
  BY <1>3, <1>5, NoneAssumption
<1>7. ProofsAreTrue'
  BY <1>0, PrunedRows
<1>8. InventoryCovers' /\ AnnouncedIsAvailable'
  BY <1>2, <1>3, <1>4 DEF GateInvariant, InventoryCovers, AnnouncedIsAvailable
<1>9. CompleteIsSound'
  BY <1>1, <1>3, <1>4 DEF GateInvariant, CompleteIsSound, Sound
<1>10. StagesInOrder'
  BY <1>1, <1>3, <1>4 DEF GateInvariant, StagesInOrder
<1>11. PointsAgree'
  BY <1>1, <1>3, <1>4, <1>6 DEF PointsAgree
<1>12. ReplicaWorkIsOwn'
  <2>1. \A s \in Servers : worker'[s] = "idle"
    BY <1>1, <1>3 DEF GateInvariant, ReplicaWorkIsOwn
  <2>2. \A b \in Batches, s \in Servers :
          work'[b][s] # "absent" => work[b][s] # "absent"
    BY <1>0, PrunedRows
  <2> QED BY <1>4, <1>6, <2>1, <2>2 DEF GateInvariant, ReplicaWorkIsOwn
<1>13. SelectionIsAnnounced'
  BY <1>3, FrameSelection
<1> QED BY <1>7, <1>8, <1>9, <1>10, <1>11, <1>12, <1>13 DEF GateInvariant

LEMMA GateAnnouncing ==
  ASSUME TypeInv, TypeInv', GateInvariant, Announcing
  PROVE  GateInvariant'
<1>0. /\ pc \notin {"idle", "assert", "claim", "authorize", "replicate"}
      /\ saga \in Saga /\ saga # None /\ saga.batch \in Batches
  <2>1. pc \notin {"idle", "assert", "claim", "authorize", "replicate"}
    BY DEF Announcing, Stage, Signed, SigningFails, PublishFails, Published,
           Acknowledge, Commit, Admit, Mark, Repair, RepairThrows, Repaired, Running
  <2> QED BY <2>1, SagaThere DEF Saga
\* A step that touches nothing but relay rows and the control point.
<1>1. ASSUME UNCHANGED sagaState, UNCHANGED worker, UNCHANGED selector,
             \A b \in Batches, s \in Servers :
               work'[b][s] # "absent" => work[b][s] # "absent",
             PointsAgree'
      PROVE  GateInvariant'
  <2>1. SelectionIsAnnounced'
    BY <1>1, FrameSelection DEF sagaState
  <2> QED BY <1>0, <1>1, <2>1, GateFrame
<1>2. ASSUME SigningFails \/ PublishFails PROVE GateInvariant'
  <2>1. /\ UNCHANGED sagaState /\ UNCHANGED <<worker, work>> /\ UNCHANGED selector
        /\ pc' = "idle"
    BY <1>2 DEF SigningFails, PublishFails, sagaState, tables, run, uploads, world
  <2>2. PointsAgree'
    BY <2>1 DEF PointsAgree
  <2> QED BY <1>1, <2>1, <2>2
<1>3. ASSUME NEW ok \in SUBSET Relays, Published(ok) PROVE GateInvariant'
  <2>1. /\ UNCHANGED <<saga, history, sagaBlobs, proofs>>
        /\ \A b \in Batches, s \in Servers :
             work'[b][s] # "absent" => work[b][s] # "absent"
    BY <1>0, <1>3, RelayRowsOnly DEF Published
  <2>2. /\ UNCHANGED sagaState /\ UNCHANGED worker /\ UNCHANGED selector
        /\ pc = "publish" /\ pc' \in {"idle", "ack"}
    BY <1>3, <2>1 DEF Published, Running, sagaState, uploads, world
  <2>3. PointsAgree'
    BY <2>2 DEF GateInvariant, PointsAgree, sagaState
  <2> QED BY <1>1, <2>1, <2>2, <2>3
<1>4. ASSUME Admit PROVE GateInvariant'
  <2>1. /\ UNCHANGED sagaState /\ UNCHANGED <<worker, work>>
        /\ pc = "accept" /\ pc' \in {"repair", "mark", "idle"}
    BY <1>4 DEF Admit, Running, sagaState, tables, run, uploads, world
  <2>2. saga.ack /\ saga.signed \in announced
    BY <1>0, <2>1 DEF GateInvariant, PointsAgree, StagesInOrder
  <2>3. PointsAgree'
    BY <1>0, <2>1, <2>2 DEF PointsAgree, sagaState
  <2>4. UNCHANGED selector \/ Accept(saga.signed)
    BY <1>4 DEF Admit
  <2>5. SelectionIsAnnounced'
    BY <2>1, <2>2, <2>4, AcceptAnnounced, FrameSelection DEF sagaState
  <2> QED BY <1>0, <2>1, <2>3, <2>5, GateFrame
<1>5. ASSUME Repair PROVE GateInvariant'
  <2>1. PICK R \in SUBSET Relays :
          ClaimDueWork(R) /\ pc' = IF R = {} THEN "idle" ELSE "repairing"
    BY <1>5 DEF Repair, DueRelays
  <2>2. \A b \in Batches, s \in Servers : s \notin R /\ work'[b][s] = work[b][s]
    BY <1>0, <2>1, TablesAssumption DEF ClaimDueWork, SetWork, TypeInv, TablesTypeOK
  <2>3. /\ UNCHANGED sagaState /\ UNCHANGED worker /\ UNCHANGED selector
        /\ pc = "repair"
    BY <1>5, <2>1 DEF Repair, ClaimDueWork, Running, sagaState, uploads, world
  <2>4. PointsAgree'
    BY <1>0, <2>1, <2>3 DEF GateInvariant, PointsAgree, sagaState
  <2> QED BY <1>1, <2>2, <2>3, <2>4
<1>6. ASSUME NEW r \in Relays, RepairThrows(r) PROVE GateInvariant'
  <2>1. /\ UNCHANGED sagaState /\ UNCHANGED <<worker, work>> /\ UNCHANGED selector
        /\ pc' = "idle"
    BY <1>6 DEF RepairThrows, sagaState, tables, uploads, world
  <2>2. PointsAgree'
    BY <2>1 DEF PointsAgree
  <2> QED BY <1>1, <2>1, <2>2
<1>7. ASSUME NEW r \in Relays, NEW ok \in BOOLEAN, Repaired(r, ok)
      PROVE  GateInvariant'
  <2>1. /\ UNCHANGED <<saga, history, sagaBlobs, proofs>>
        /\ \A b \in Batches, s \in Servers :
             work'[b][s] # "absent" => work[b][s] # "absent"
    BY <1>0, <1>7, RelayRowsOnly DEF Repaired
  <2>2. /\ UNCHANGED sagaState /\ UNCHANGED worker /\ UNCHANGED selector
        /\ pc = "repairing" /\ pc' \in {"idle", "repairing"}
    BY <1>7, <2>1 DEF Repaired, Running, sagaState, uploads, world
  <2>3. PointsAgree'
    BY <1>0, <2>2 DEF GateInvariant, PointsAgree, sagaState
  <2> QED BY <1>1, <2>1, <2>2, <2>3
<1> QED BY <1>2, <1>3, <1>4, <1>5, <1>6, <1>7, GateStage, GateSigning, GateMark
        DEF Announcing

-----------------------------------------------------------------------------
(* The environment, and the theorems *)

LEMMA GateEnvironment ==
  ASSUME TypeInv, GateInvariant, Environment
  PROVE  GateInvariant'
\* A step that keeps the saga and where #run is, or ends #run.
<1>1. ASSUME UNCHANGED sagaState,
             \A b \in Batches, s \in Servers :
               work'[b][s] # "absent" => work[b][s] # "absent",
             \/ UNCHANGED <<pc, worker, template>>
             \/ pc' = "idle" /\ worker' = NoWorkers,
             SelectionIsAnnounced'
      PROVE  GateInvariant'
  <2>1. PointsAgree'
    BY <1>1 DEF GateInvariant, PointsAgree, sagaState
  <2>2. \A s \in Servers : worker'[s] # "idle" =>
          worker[s] # "idle" /\ pc' \in {"authorize", "replicate"}
    BY <1>1 DEF NoWorkers, GateInvariant, ReplicaWorkIsOwn
  <2>3. ReplicaWorkIsOwn'
    BY <1>1, <2>2, FrameWork DEF sagaState
  <2> QED BY <1>1, <2>1, <2>3, FrameSaga DEF GateInvariant
<1>2. ASSUME NEW b \in Batches, NEW r \in Relays, StrayEnds(b, r)
      PROVE  GateInvariant'
  <2>1. UNCHANGED tables \/ \E ok \in SUBSET {r} : RecordRelayOutcomes(b, {r}, ok)
    BY <1>2 DEF StrayEnds
  <2>2. /\ UNCHANGED <<saga, history, sagaBlobs, proofs>>
        /\ \A c \in Batches, s \in Servers :
             work'[c][s] # "absent" => work[c][s] # "absent"
    BY <2>1, RelayRowsOnly DEF tables
  <2>3. UNCHANGED <<pc, worker, template, held, announced>> /\ UNCHANGED selector
    BY <1>2 DEF StrayEnds, uploads, world
  <2>4. SelectionIsAnnounced'
    BY <2>3, FrameSelection
  <2> QED BY <1>1, <2>2, <2>3, <2>4 DEF sagaState
<1>3. ASSUME NEW e \in announced, Echo(e) PROVE GateInvariant'
  <2>1. UNCHANGED sagaState /\ UNCHANGED <<pc, worker, work, template>>
    BY <1>3 DEF Echo, tables, sagaState, run, uploads, world
  <2>2. SelectionIsAnnounced'
    BY <1>3, <2>1, AcceptAnnounced DEF Echo, sagaState
  <2> QED BY <1>1, <2>1, <2>2
<1>4. ASSUME ExpireSelection PROVE GateInvariant'
  <2>1. /\ UNCHANGED sagaState /\ UNCHANGED <<pc, worker, work, template>>
        /\ UNCHANGED <<stored, loaded>>
    BY <1>4 DEF ExpireSelection, tables, sagaState, run, uploads, world
  <2>2. current' \in loaded \cup {None}
    BY <1>4, NewestIsMember DEF ExpireSelection, Selectable
  <2>3. SelectionIsAnnounced'
    BY <2>1, <2>2 DEF GateInvariant, SelectionIsAnnounced, sagaState
  <2> QED BY <1>1, <2>1, <2>3
<1>5. ASSUME Stop PROVE /\ pc' = "idle" /\ worker' = NoWorkers
                        /\ UNCHANGED <<held, announced>> /\ SelectionIsAnnounced'
  BY <1>5 DEF Stop, GateInvariant, SelectionIsAnnounced
<1>6. ASSUME Crash PROVE GateInvariant'
  BY <1>1, <1>5, <1>6 DEF Crash, tables, sagaState
<1>7. ASSUME Close PROVE GateInvariant'
  <2>1. Stop /\ UNCHANGED <<saga, history, sagaBlobs, proofs>>
    BY <1>7 DEF Close
  <2>2. ASSUME NEW b \in Batches, NEW s \in Servers, work'[b][s] # "absent"
        PROVE  work[b][s] # "absent"
    <3>1. CASE Eligible = {}
      BY <1>7, <2>2, <3>1, RestoredRows DEF Close
    <3>2. CASE Eligible # {}
      <4>1. saga.batch \in Batches
        BY <3>2, SagaThere DEF Eligible, TypeInv, PointsTyped, Saga
      <4>2. [work EXCEPT ![saga.batch] = Exhausted(Eligible)][b][s] # "absent"
        BY <1>7, <2>2, <3>2, RestoredRows DEF Close
      <4> QED BY <4>1, <4>2 DEF Exhausted, Open, TypeInv, TablesTypeOK
    <3> QED BY <3>1, <3>2
  <2> QED BY <1>1, <1>5, <2>1, <2>2 DEF sagaState
<1>8. ASSUME Restart PROVE GateInvariant'
  <2>1. /\ UNCHANGED sagaState /\ UNCHANGED <<pc, worker, template, stored>>
        /\ work' = Restored(work)
    BY <1>8 DEF Restart, sagaState, run, uploads, world
  <2>2. loaded' \subseteq announced
    BY <1>8 DEF Restart, Selectable, GateInvariant, SelectionIsAnnounced
  <2>3. current' \in loaded' \cup {None}
    BY <1>8, NewestIsMember DEF Restart
  <2>4. SelectionIsAnnounced'
    BY <2>1, <2>2, <2>3 DEF GateInvariant, SelectionIsAnnounced, sagaState
  <2> QED BY <1>1, <2>1, <2>4, RestoredRows
<1>9. ASSUME TimePasses PROVE GateInvariant'
  <2>1. /\ UNCHANGED sagaState /\ UNCHANGED <<pc, worker, work, template>>
        /\ UNCHANGED selector
    BY <1>9 DEF TimePasses, tables, sagaState, run, uploads
  <2>2. SelectionIsAnnounced'
    BY <2>1, FrameSelection DEF sagaState
  <2> QED BY <1>1, <2>1, <2>2
<1>10. ASSUME ReleaseLease PROVE GateInvariant'
  <2>1. /\ UNCHANGED <<saga, pc, worker, template, held, announced>>
        /\ UNCHANGED selector /\ PruneAdmitted
    BY <1>10 DEF ReleaseLease, run, uploads, world
  <2>2. InventoryCovers'
    <3>1. saga # None => saga.batch \in Batches
      BY DEF TypeInv, TablesTypeOK, Saga
    <3>2. saga # None => sagaBlobs'[saga.batch] \in {sagaBlobs[saga.batch], {}}
      BY <2>1, <3>1, PrunedRows
    <3> QED BY <2>1, <3>2 DEF GateInvariant, InventoryCovers
  <2>3. CompleteIsSound' /\ StagesInOrder' /\ AnnouncedIsAvailable'
    BY <2>1, PrunedRows DEF GateInvariant, CompleteIsSound, Sound, StagesInOrder,
                            AnnouncedIsAvailable
  <2>4. PointsAgree'
    BY <2>1 DEF GateInvariant, PointsAgree
  <2>5. ReplicaWorkIsOwn'
    <3>1. \A s \in Servers : worker'[s] # "idle" =>
            worker[s] # "idle" /\ pc' \in {"authorize", "replicate"}
      BY <2>1 DEF GateInvariant, ReplicaWorkIsOwn
    <3> QED BY <2>1, <3>1, PrunedRows, FrameWork
  <2>6. SelectionIsAnnounced'
    BY <2>1, FrameSelection
  <2> QED BY <2>1, <2>2, <2>3, <2>4, <2>5, <2>6, PrunedRows DEF GateInvariant
<1> QED BY <1>2, <1>3, <1>4, <1>6, <1>7, <1>8, <1>9, <1>10 DEF Environment

LEMMA GateStep ==
  ASSUME TypeInv, GateInvariant, [Next]_vars
  PROVE  GateInvariant'
<1>0. TypeInv'
  BY TypeStep
<1>1. CASE Scheduler
  BY <1>1, GateScheduler
<1>2. CASE Coordinator
  BY <1>0, <1>2, GateClaiming, GateReplicating, GateAnnouncing DEF Coordinator
<1>3. CASE Environment
  BY <1>3, GateEnvironment
<1>4. CASE UNCHANGED vars
  <2>1. UNCHANGED sagaState /\ UNCHANGED selector /\ UNCHANGED <<pc, work, worker, template>>
    BY <1>4 DEF vars, tables, run, uploads, world, sagaState
  <2>2. PointsAgree' /\ ReplicaWorkIsOwn'
    BY <2>1 DEF GateInvariant, PointsAgree, ReplicaWorkIsOwn, sagaState
  <2>3. SelectionIsAnnounced'
    BY <2>1, FrameSelection DEF sagaState
  <2> QED BY <2>1, <2>2, <2>3, FrameSaga DEF GateInvariant
<1> QED BY <1>1, <1>2, <1>3, <1>4 DEF Next

LEMMA GateAlways == Spec => [](TypeInv /\ GateInvariant)
<1>1. Init => TypeInv /\ GateInvariant
  BY TypeInit, GateInit
<1>2. TypeInv /\ GateInvariant /\ [Next]_vars => TypeInv' /\ GateInvariant'
  BY TypeStep, GateStep
<1> QED BY <1>1, <1>2, PTL DEF Spec

\* The inductive invariant behind the availability gate: possession proofs are
\* true and every stage of #run keeps what it relied on.
THEOREM GateInvariantHolds == Spec => []GateInvariant
<1> QED BY GateAlways, PTL

\* The availability gate, for any servers, relays, trees and bounds: whatever
\* event #run hands to a relay, a server it names stores the whole tree.
THEOREM GateHolds == Spec => []AnnouncedIsAvailable
<1>1. GateInvariant => AnnouncedIsAvailable
  BY DEF GateInvariant
<1> QED BY <1>1, GateAlways, PTL

\* Only a replica.prove call changes what servers hold, and only Stage what is
\* announced.
LEMMA QuietSteps ==
  ASSUME Next,
         ~ Stage,
         ~ \E s \in Servers, h \in Hashes, ok \in BOOLEAN : ProveBlob(s, h, ok)
  PROVE  UNCHANGED <<held, announced>>
<1> USE DEF world
<1>1. ASSUME Scheduler PROVE UNCHANGED <<held, announced>>
  BY <1>1 DEF Scheduler, Dirty, Fire, Build, BuildFails
<1>2. ASSUME Replicating PROVE UNCHANGED <<held, announced>>
  BY <1>2 DEF Replicating, Authorized, AuthorizationFails, EndReplication,
              FinishServer, AbortServer
<1>3. ASSUME Announcing PROVE UNCHANGED <<held, announced>>
  BY <1>3 DEF Announcing, Signed, SigningFails, PublishFails, Published, Acknowledge,
              Commit, Admit, Mark, Repair, RepairThrows, Repaired
<1>4. ASSUME Tick \/ Asserted \/ AssertionFails \/ Ensure \/ \E D \in DestinationLists : Claim(D)
      PROVE  UNCHANGED <<held, announced>>
  BY <1>4 DEF Tick, Asserted, AssertionFails, Ensure, Claim
<1>5. ASSUME Environment PROVE UNCHANGED <<held, announced>>
  BY <1>5 DEF Environment, StrayEnds, Echo, ReleaseLease, ExpireSelection, Crash,
              Close, Stop, Restart, TimePasses
<1> QED BY <1>1, <1>2, <1>3, <1>4, <1>5 DEF Next, Coordinator

\* The loop implements the abstract gate: every step stores a blob, announces
\* an available event, moves the selection to an announced event, or stutters.
THEOREM GateImplemented == Spec => ImplementsGate
<1>1. Init => Gate!GateInit
  BY DEF Init, NothingLeft, Gate!GateInit
<1>2. ASSUME TypeInv, GateInvariant, TypeInv', GateInvariant', [Next]_vars
      PROVE  [Gate!GateNext]_(Gate!gateVars)
  <2>1. CASE UNCHANGED <<held, announced>>
    <3>1. current' \in announced \cup {None}
      BY <1>2, <2>1 DEF GateInvariant, SelectionIsAnnounced
    <3> QED BY <2>1, <3>1 DEF Gate!GateNext, Gate!Select
  <2>2. CASE Stage
    <3>1. UNCHANGED <<held, current>>
      BY <2>2 DEF Stage, selector
    <3>2. CASE announced' = announced
      BY <2>1, <3>1, <3>2
    <3>3. CASE announced' # announced
      <4>1. /\ saga.signed # None /\ pc = "stage"
            /\ announced' = announced \cup {saga.signed}
        BY <2>2, <3>3 DEF Stage, Running
      <4>2. saga # None /\ saga \in Saga
        BY <1>2, <4>1, SagaThere
      <4>3. Gate!Available(saga.signed)
        BY <1>2, <4>1, <4>2, SignedIsAvailable DEF Gate!Available
      <4>4. Gate!Announce(saga.signed)
        BY <3>1, <4>1, <4>3 DEF Gate!Announce
      <4> QED BY <4>1, <4>4 DEF Gate!GateNext
    <3> QED BY <3>2, <3>3
  <2>3. ASSUME NEW s \in Servers, NEW h \in Hashes, NEW ok \in BOOLEAN,
               ProveBlob(s, h, ok)
        PROVE  Gate!GateNext
    <3>1. UNCHANGED <<announced, current>>
      BY <2>3 DEF ProveBlob, selector
    <3>2. CASE ok
      BY <2>3, <3>1, <3>2 DEF ProveBlob, Gate!GateNext, Gate!Store
    <3>3. CASE ~ok
      <4>1. UNCHANGED held
        BY <2>3, <3>3 DEF ProveBlob
      <4>2. current' \in announced \cup {None}
        BY <1>2, <3>1 DEF GateInvariant, SelectionIsAnnounced
      <4> QED BY <3>1, <4>1, <4>2 DEF Gate!GateNext, Gate!Select
    <3> QED BY <3>2, <3>3
  <2>4. CASE UNCHANGED vars
    BY <2>1, <2>4 DEF vars, world
  <2> QED BY <1>2, <2>1, <2>2, <2>3, <2>4, QuietSteps
<1> QED BY <1>1, <1>2, GateAlways, PTL DEF Spec, ImplementsGate, Gate!GateSpec

-----------------------------------------------------------------------------
(* The inventory of the active saga. *)

InventoryInvariant == InventoryIsKnown /\ UploadsAreOwned

\* #pruneAdmitted takes the rows of archived ids only.
LEMMA PruneSpares ==
  ASSUME TypeInv, PruneAdmitted
  PROVE  /\ UNCHANGED <<pending, history>>
         /\ owners'["batch"] = owners["batch"]
         /\ \A b \in Batches : sagaBlobs'[b] \in {sagaBlobs[b], {}}
         /\ \A b \in Batches : (\A row \in history : row.batch # b) =>
              sagaBlobs'[b] = sagaBlobs[b] /\ owners'["saga"][b] = owners["saga"][b]
<1>1. /\ UNCHANGED <<pending, history>>
      /\ \A b \in Batches : sagaBlobs'[b] \in {sagaBlobs[b], {}}
  BY DEF PruneAdmitted
<1>2. owners'["batch"] = owners["batch"]
  BY DEF PruneAdmitted, TypeInv, TablesTypeOK
<1>3. ASSUME NEW b \in Batches, \A row \in history : row.batch # b
      PROVE  sagaBlobs'[b] = sagaBlobs[b] /\ owners'["saga"][b] = owners["saga"][b]
  <2>1. b \notin Releasable
    BY <1>3 DEF Releasable
  <2> QED BY <2>1 DEF PruneAdmitted, TypeInv, TablesTypeOK
<1> QED BY <1>1, <1>2, <1>3

KeepsInventory == UNCHANGED <<pending, sagaBlobs, owners>>

\* recordPending writes the owner of the new candidate before it drops that of
\* the candidate it supersedes.
LEMMA BuildOwns ==
  ASSUME TypeInv, UploadsAreOwned, NEW b \in Batches, RecordPending(b)
  PROVE  /\ PendingIsOwned'
         /\ UNCHANGED sagaBlobs /\ owners'["saga"] = owners["saga"]
<1>1. PendingIsOwned'
  <2>1. pending' = [batch |-> b, gen |-> batches[b].gen]
    BY DEF RecordPending
  <2>2. owners'["batch"][b] = owners["batch"][b] \cup Tree[batches[b].gen]
    BY DEF RecordPending, TypeInv, TablesTypeOK
  <2> QED BY <2>1, <2>2 DEF PendingIsOwned
<1>2. owners'["saga"] = owners["saga"]
  BY DEF RecordPending, TypeInv, TablesTypeOK
<1> QED BY <1>1, <1>2 DEF RecordPending, rowTables

LEMMA SchedulerInventory ==
  ASSUME TypeInv, Scheduler
  PROVE  KeepsInventory \/ \E b \in Batches : RecordPending(b)
BY DEF Scheduler, Dirty, Fire, Build, BuildFails, MarkPublicationDirty,
       ClaimPublicationBatch, MarkBatchFailed, rowTables, KeepsInventory

LEMMA CoordinatorInventory ==
  ASSUME TypeInv, Coordinator
  PROVE  \/ KeepsInventory \/ Refreshes \/ PruneAdmitted
         \/ \E D \in DestinationLists, c \in Credits : Replaces(c, D)
<1>0. ASSUME Tick \/ AssertionFails PROVE KeepsInventory
  BY <1>0 DEF Tick, AssertionFails, tables, KeepsInventory
<1>1. ASSUME Asserted PROVE KeepsInventory \/ Refreshes
  BY <1>1 DEF Asserted, Running, Refreshes, tables, world, KeepsInventory
<1>2. ASSUME NEW D \in DestinationLists, Claim(D)
      PROVE  KeepsInventory \/ \E c \in Credits : Replaces(c, D)
  <2>1. PICK c \in Credits : (ClaimReplace(c, D) /\ pc' = "ensure") \/ ClaimKeep(c)
    BY <1>2 DEF Claim
  <2> QED BY <1>2, <2>1 DEF Claim, Replaces, ClaimKeep, world, KeepsInventory
<1>3. ASSUME Ensure PROVE KeepsInventory
  BY <1>3 DEF Ensure, EnsureEndpointWork, KeepsInventory
<1>4. ASSUME Replicating PROVE KeepsInventory
  BY <1>4, ZenonT(40)
     DEF Replicating, Authorized, AuthorizationFails, EndReplication, FinishServer,
         AbortServer, FailServer, ExhaustReplicas, RecordCompleteServer, ProveBlob,
         RecordBlobProof, tables, KeepsInventory
<1>5. ASSUME Stage PROVE KeepsInventory
  BY <1>5 DEF Stage, EnsureEndpointWork, tables, KeepsInventory
<1>6. ASSUME Announcing PROVE KeepsInventory \/ PruneAdmitted
  <2>1. ASSUME Signed \/ SigningFails \/ PublishFails \/ Admit PROVE KeepsInventory
    BY <2>1 DEF Signed, RecordSigned, sagaOnly, rowTables, SigningFails, PublishFails,
                Admit, tables, KeepsInventory
  <2>2. ASSUME NEW ok \in SUBSET Relays, Published(ok) PROVE KeepsInventory
    BY <2>2 DEF Published, RecordRelayOutcomes, KeepsInventory
  <2>3. ASSUME Acknowledge \/ Commit PROVE KeepsInventory
    BY <2>3 DEF Acknowledge, RecordRelayAcknowledgement, Commit, CommitPublication,
                sagaOnly, rowTables, KeepsInventory
  <2>4. ASSUME Mark PROVE PruneAdmitted
    BY <2>4 DEF Mark, MarkPublicationAdmitted
  <2>5. ASSUME Repair PROVE KeepsInventory
    BY <2>5 DEF Repair, ClaimDueWork, KeepsInventory
  <2>6. ASSUME NEW r \in Relays, RepairThrows(r) \/ \E ok \in BOOLEAN : Repaired(r, ok)
        PROVE  KeepsInventory
    BY <2>6 DEF RepairThrows, Repaired, RecordRelayOutcomes, tables, KeepsInventory
  <2> QED BY <1>5, <1>6, <2>1, <2>2, <2>3, <2>4, <2>5, <2>6 DEF Announcing
<1> QED BY <1>0, <1>1, <1>2, <1>3, <1>4, <1>6 DEF Coordinator

LEMMA EnvironmentInventory ==
  ASSUME TypeInv, Environment
  PROVE  KeepsInventory \/ PruneAdmitted
BY DEF Environment, StrayEnds, RecordRelayOutcomes, Echo, ReleaseLease,
       ExpireSelection, Crash, Close, Stop, Restart, TimePasses, tables, KeepsInventory

LEMMA InventorySteps ==
  ASSUME TypeInv, [Next]_vars
  PROVE  \/ KeepsInventory \/ PruneAdmitted \/ Refreshes
         \/ \E b \in Batches : RecordPending(b)
         \/ \E D \in DestinationLists, c \in Credits : Replaces(c, D)
<1>1. CASE UNCHANGED vars
  BY <1>1 DEF vars, tables, KeepsInventory
<1> QED BY <1>1, SchedulerInventory, CoordinatorInventory, EnvironmentInventory DEF Next

LEMMA InventoryKeep ==
  ASSUME TypeInv, EventInvariant, InventoryInvariant, [Next]_vars, ~Refreshes,
         \A D \in DestinationLists, c \in Credits : ~Replaces(c, D),
         PendingIsOwned',
         \A b \in Batches : sagaBlobs'[b] \in {sagaBlobs[b], {}},
         \A b \in Batches : (\A row \in history : row.batch # b) =>
              sagaBlobs'[b] = sagaBlobs[b] /\ owners'["saga"][b] = owners["saga"][b]
  PROVE  InventoryInvariant'
<1>1. /\ UNCHANGED history /\ (saga = None <=> saga' = None)
      /\ saga # None => saga'.batch = saga.batch /\ saga'.gen = saga.gen
      /\ (saga'.complete = None \/ announced' \subseteq Remembered') /\ saga # None =>
           saga.complete = None \/ announced \subseteq Remembered
  BY KnownStays
<1>2. InventoryIsKnown'
  BY <1>1 DEF InventoryInvariant, InventoryIsKnown
<1>3. InventoryIntact'
  <2>1. saga # None => saga.batch \in Batches
    BY DEF TypeInv, TablesTypeOK, Saga
  <2> QED BY <1>1, <2>1 DEF InventoryInvariant, UploadsAreOwned, InventoryIntact
<1> QED BY <1>2, <1>3 DEF InventoryInvariant, UploadsAreOwned

\* A refresh moves the rows of the old id, which are intact if every announced
\* event is still in the tables afterwards: the old saga's is, so it was archived.
LEMMA InventoryRefresh ==
  ASSUME TypeInv, GateInvariant, EventInvariant, InventoryInvariant, Refreshes
  PROVE  InventoryInvariant'
<1> DEFINE o == saga.batch
<1>1. PICK n \in Batches :
        /\ saga \in Saga /\ saga # None /\ saga.batch < n
        /\ \A row \in history : row.batch < n
        /\ saga.admitted /\ saga.signed # None
        /\ saga' # None /\ saga'.batch = n /\ saga'.gen = saga.gen
        /\ saga'.signed = None /\ saga'.complete = saga.complete
        /\ history' = IF \E row \in history : row.batch = saga.batch THEN history
                      ELSE history \cup {saga}
        /\ sagaBlobs' = [sagaBlobs EXCEPT ![n] = sagaBlobs[saga.batch],
                                          ![saga.batch] = {}]
        /\ owners' = [owners EXCEPT !["saga"][n] = @ \cup owners["saga"][saga.batch]]
        /\ UNCHANGED pending
  BY RefreshFacts
<1>2. o \in Batches /\ n # o /\ UNCHANGED announced
  BY <1>1, TablesAssumption DEF Saga, Refreshes
<1>3. /\ sagaBlobs'[n] = sagaBlobs[o]
      /\ \A b \in Batches : b # n /\ sagaBlobs'[b] # {} => sagaBlobs[b] # {}
  BY <1>1, <1>2 DEF TypeInv, TablesTypeOK
<1>4. owners'["batch"] = owners["batch"] /\ owners["saga"][o] \subseteq owners'["saga"][n]
  BY <1>1, <1>2 DEF TypeInv, TablesTypeOK
<1>5. PendingIsOwned'
  BY <1>1, <1>4 DEF InventoryInvariant, UploadsAreOwned, PendingIsOwned
<1>6. InventoryIsKnown'
  <2>1. \E row \in history' : row.batch = o
    BY <1>1
  <2>2. history \subseteq history'
    BY <1>1
  <2> QED BY <1>1, <1>3, <2>1, <2>2 DEF InventoryInvariant, InventoryIsKnown
<1>7. InventoryIntact'
  <2> SUFFICES ASSUME saga'.complete = None \/ announced \subseteq Remembered'
               PROVE  /\ sagaBlobs[o] = Tree[saga.gen]
                      /\ Tree[saga.gen] \subseteq owners["saga"][o]
    BY <1>1, <1>2, <1>3, <1>4 DEF InventoryIntact
  <2>1. saga.complete # None /\ saga.signed \in announced
    BY <1>1 DEF GateInvariant, StagesInOrder
  <2>2. announced \subseteq {row.signed : row \in history'}
    <3>1. announced \subseteq Remembered' /\ None \notin announced
      BY <1>1, <2>1, EventFacts
    <3> QED BY <1>1, <3>1 DEF Remembered
  <2>3. \A row \in history : row.batch # o
    <3> SUFFICES ASSUME NEW same \in history, same.batch = o PROVE FALSE
      OBVIOUS
    <3>1. history' = history
      BY <1>1
    <3>2. PICK row \in history : row.signed = saga.signed
      BY <2>1, <2>2, <3>1
    <3>3. row.batch = o /\ row.gen = saga.gen
      BY <1>1, <3>2 DEF EventInvariant, EventsMatch, OfItsCandidate
    <3>4. o \in Nat
      BY <1>2, TablesAssumption
    <3> QED BY <3>3, <3>4 DEF EventInvariant, HistoryIsOlder
  <2>4. announced \subseteq Remembered
    BY <1>1, <2>2 DEF Remembered
  <2> QED BY <1>1, <2>3, <2>4 DEF InventoryInvariant, UploadsAreOwned, InventoryIntact
<1> QED BY <1>5, <1>6, <1>7 DEF InventoryInvariant, UploadsAreOwned

\* A claim copies the candidate's rows under an id that had none, unless a
\* saga has or had that id, and its owner takes over the candidate's.
LEMMA InventoryReplace ==
  ASSUME TypeInv, EventInvariant, InventoryInvariant,
         NEW c \in Credits, NEW D \in DestinationLists, Replaces(c, D)
  PROVE  InventoryInvariant'
<1> DEFINE b == pending.batch
<1>1. /\ pending \in Candidate /\ pending # None
      /\ saga' # None /\ saga'.batch = b /\ saga'.gen = pending.gen
      /\ history' = IF saga = None THEN history ELSE Archive(Credited(c))
  BY ReplaceFacts
<1>2. /\ sagaBlobs' = [sagaBlobs EXCEPT ![b] = @ \cup Tree[pending.gen]]
      /\ owners' = [k \in {"batch", "saga"} |->
                      [owners[k] EXCEPT ![b] =
                         IF k = "saga" THEN @ \cup owners["batch"][b] ELSE {}]]
      /\ pending' = None
  BY DEF Replaces, ClaimReplace
<1>3. b \in Batches
  BY <1>1 DEF Candidate
<1>4. /\ sagaBlobs'[b] = sagaBlobs[b] \cup Tree[pending.gen]
      /\ \A a \in Batches : a # b => sagaBlobs'[a] = sagaBlobs[a]
      /\ owners["batch"][b] \subseteq owners'["saga"][b]
  BY <1>2, <1>3 DEF TypeInv, TablesTypeOK
<1>5. /\ saga # None => \E row \in history' : row.batch = saga.batch
      /\ \A row \in history : \E k \in history' : k.batch = row.batch
  BY <1>1, CreditKeeps DEF Archive
<1>6. PendingIsOwned'
  BY <1>2 DEF PendingIsOwned
<1>7. InventoryIsKnown'
  BY <1>1, <1>4, <1>5 DEF InventoryInvariant, InventoryIsKnown
<1>8. InventoryIntact'
  <2>1. Tree[pending.gen] \subseteq owners["batch"][b]
    BY <1>1 DEF InventoryInvariant, UploadsAreOwned, PendingIsOwned
  <2>2. (\A row \in history' : row.batch # b) => sagaBlobs[b] = {}
    BY <1>3, <1>5 DEF InventoryInvariant, InventoryIsKnown
  <2> QED BY <1>1, <1>4, <2>1, <2>2 DEF InventoryIntact
<1> QED BY <1>6, <1>7, <1>8 DEF InventoryInvariant, UploadsAreOwned

LEMMA InventoryStep ==
  ASSUME TypeInv, GateInvariant, EventInvariant, InventoryInvariant, [Next]_vars
  PROVE  InventoryInvariant'
<1>1. CASE Refreshes
  BY <1>1, InventoryRefresh
<1>2. ASSUME NEW D \in DestinationLists, NEW c \in Credits, Replaces(c, D)
      PROVE  InventoryInvariant'
  BY <1>2, InventoryReplace
<1>3. CASE ~Refreshes /\ \A D \in DestinationLists, c \in Credits : ~Replaces(c, D)
  <2>1. CASE KeepsInventory
    <3>1. PendingIsOwned'
      BY <2>1 DEF KeepsInventory, InventoryInvariant, UploadsAreOwned, PendingIsOwned
    <3> QED BY <1>3, <2>1, <3>1, InventoryKeep DEF KeepsInventory
  <2>2. CASE PruneAdmitted
    <3>1. PendingIsOwned'
      BY <2>2, PruneSpares DEF InventoryInvariant, UploadsAreOwned, PendingIsOwned
    <3> QED BY <1>3, <2>2, <3>1, PruneSpares, InventoryKeep
  <2>3. ASSUME NEW b \in Batches, RecordPending(b) PROVE InventoryInvariant'
    <3>1. PendingIsOwned' /\ UNCHANGED sagaBlobs /\ owners'["saga"] = owners["saga"]
      BY <2>3, BuildOwns DEF InventoryInvariant
    <3> QED BY <1>3, <3>1, InventoryKeep
  <2> QED BY <1>3, <2>1, <2>2, <2>3, InventorySteps
<1> QED BY <1>1, <1>2, <1>3

\* From the build to the end of the saga, what is still to be uploaded is the
\* tree of its own candidate and is kept by an owner row.
THEOREM UploadsOwned == Spec => []UploadsAreOwned
<1>1. Init => InventoryInvariant
  BY DEF Init, TablesInit, InventoryInvariant, InventoryIsKnown, UploadsAreOwned,
         PendingIsOwned, InventoryIntact
<1>2. TypeInv /\ GateInvariant /\ EventInvariant /\ InventoryInvariant /\ [Next]_vars
        => InventoryInvariant'
  BY InventoryStep
<1>3. InventoryInvariant => UploadsAreOwned
  BY DEF InventoryInvariant
<1> QED BY <1>1, <1>2, <1>3, GateAlways, EventAlways, PTL DEF Spec

=============================================================================
