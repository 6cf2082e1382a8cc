-------------------------- MODULE Selection_proofs --------------------------
(***************************************************************************)
(* Theorems about the selection, for every set of publications, every      *)
(* configuration and every clock: no rollback, no silent downgrade, and a  *)
(* snapshot that agrees with the durable rows.                             *)
(***************************************************************************)
EXTENDS Selection, Subsequence_proofs

-----------------------------------------------------------------------------
(* The inductive invariant. *)

\* A row has an event of its own identity that has once been valid, and which
\* is at least as new as everything served since the row was lost last.
RowsAreNewest ==
    \A i \in Identities :
        /\ rows[i].event # None =>
              /\ rows[i].event.identity = i
              /\ rows[i].event.createdAt <= now + FutureLimit
        /\ ~rows[i].corrupt /\ peak[i] # None =>
              /\ rows[i].event # None
              /\ peak[i] = rows[i].event \/ Newer(rows[i].event, peak[i])

\* The policy columns remember what was accepted and what was allowed.
PolicyIsKept ==
    \A i \in Identities :
        /\ i \in keyed => rows[i].signedHistory
        /\ rows[i].unsignedConsent => i \in granted
        /\ rows[i].event # None /\ ~rows[i].event.signed /\ i \in keyed
              => i \in granted

\* While the selector runs: the order is the configured one, with the own cache
\* first once it is authorised; the event store shows the events of the rows
\* and nothing else; an event of a configured cache is missing only if it has
\* expired.
StoreIsDurable ==
    up => /\ IsInjective(order) /\ ToSet(Configured) \subseteq ToSet(order)
          /\ \A e \in admitted :
                /\ e.identity \in ToSet(order)
                /\ rows[e.identity].event = e
          /\ \A i \in Identities : ~rows[i].corrupt
          /\ \A i \in ToSet(Configured) :
                rows[i].event # None /\ Valid(rows[i].event, now)
                   => rows[i].event \in admitted

\* The snapshot shows admitted events, each at its peak, all that are valid,
\* with their server lists and in the order of their identities.
SnapshotIsCurrent ==
    up => /\ Selected \subseteq admitted
          /\ \A e \in Selected : peak[e.identity] = e
          /\ \A e \in admitted : Valid(e, now) => e \in Selected
          /\ \A n \in DOMAIN current :
                current[n].servers = lists[current[n].event.identity]
          /\ \A m, n \in DOMAIN current :
                m < n => \E j, k \in DOMAIN order :
                   /\ current[m].event.identity # current[n].event.identity
                   /\ j < k /\ order[j] = current[m].event.identity
                   /\ order[k] = current[n].event.identity

Inv == RowsAreNewest /\ PolicyIsKept /\ StoreIsDurable /\ SnapshotIsCurrent

-----------------------------------------------------------------------------
(* Facts about events. *)

LEMMA EventType ==
  ASSUME NEW e \in Events
  PROVE  /\ e.identity \in Identities /\ e.signed \in BOOLEAN
         /\ e.createdAt \in Nat /\ e.id \in Nat
         /\ e.expires \in Nat \cup {None} /\ e # None
BY SelectionAssumption

LEMMA NewerOrder ==
  ASSUME NEW e \in Events, NEW f \in Events
  PROVE  /\ ~Newer(e, e)
         /\ Newer(e, f) => ~Newer(f, e)
         /\ \A g \in Events : Newer(e, f) /\ Newer(f, g) => Newer(e, g)
BY EventType DEF Newer

\* A publication that is valid now was valid all the time since it could first
\* be accepted.
LEMMA ValidBefore ==
  ASSUME NEW e \in Events, NEW t \in Nat, NEW u \in Nat, t <= u,
         e.createdAt <= t + FutureLimit, Valid(e, u)
  PROVE  Valid(e, t)
BY EventType, SelectionAssumption DEF Valid

-----------------------------------------------------------------------------
(* The snapshot that CacheSelectionModel computes. *)

\* One event at most of each identity.
Single(E) == \A e, f \in E : e.identity = f.identity => e = f

\* items is the snapshot of the events E at time t.
Snapshot(items, E, ids, servers, t) ==
    /\ items \in Seq(Item)
    /\ \A n \in DOMAIN items :
          /\ items[n].event \in E /\ Valid(items[n].event, t)
          /\ items[n].servers = servers[items[n].event.identity]
    /\ \A e \in E : Valid(e, t) /\ e.identity \in ToSet(ids) =>
          \E n \in DOMAIN items : items[n].event = e
    /\ \A m, n \in DOMAIN items :
          m < n => \E j, k \in DOMAIN ids :
             /\ items[m].event.identity # items[n].event.identity
             /\ j < k /\ ids[j] = items[m].event.identity
             /\ ids[k] = items[n].event.identity

LEMMA LayerEffect ==
  ASSUME NEW E \in SUBSET Events, Single(E), NEW i \in Identities,
         NEW servers \in [Identities -> 0..MaxList], NEW t \in Nat
  PROVE  LET layer == Layer(E, i, servers, t)
         IN  /\ layer # None =>
                   /\ layer \in Item /\ layer.event \in E
                   /\ layer.event.identity = i /\ Valid(layer.event, t)
                   /\ layer.servers = servers[i]
             /\ \A e \in E : e.identity = i /\ Valid(e, t) =>
                   layer # None /\ layer.event = e
<1> DEFINE newest == Chosen(E, i, t)
           c == CHOOSE e \in newest : TRUE
           layer == Layer(E, i, servers, t)
<1>1. \A e \in newest : e \in E /\ e.identity = i /\ Valid(e, t)
  BY DEF Chosen
<1>2. \A e \in E : e.identity = i /\ Valid(e, t) => e \in newest
  <2> TAKE e \in E
  <2> HAVE e.identity = i /\ Valid(e, t)
  <2>1. \A f \in E : f.identity = i => f = e
    BY DEF Single
  <2>2. ~Newer(e, e)
    BY NewerOrder
  <2> QED BY <2>1, <2>2 DEF Chosen
<1>3. CASE newest = {}
  <2>1. layer = None
    BY <1>3 DEF Layer
  <2> QED BY <1>2, <1>3, <2>1
<1>4. CASE newest # {}
  <2>1. c \in newest
    BY <1>4
  <2>2. layer = [event |-> c, servers |-> servers[i]]
    BY <1>4 DEF Layer
  <2>3. layer \in Item /\ layer.event = c /\ layer.servers = servers[i]
    BY <1>1, <2>1, <2>2 DEF Item
  <2>4. layer # None
    BY <2>3, SelectionAssumption
  <2>5. \A e \in E : e.identity = i /\ Valid(e, t) => e = c
    BY <1>1, <1>2, <2>1 DEF Single
  <2> HIDE DEF c, newest, layer
  <2> QED BY <1>1, <2>1, <2>3, <2>4, <2>5 DEF layer
<1> QED BY <1>3, <1>4

LEMMA SelectEffect ==
  ASSUME NEW E \in SUBSET Events, Single(E), NEW ids \in Seq(Identities),
         IsInjective(ids), NEW servers \in [Identities -> 0..MaxList],
         NEW t \in Nat
  PROVE  Snapshot(Select(E, ids, servers, t), E, ids, servers, t)
<1> DEFINE layers == [n \in DOMAIN ids |-> Layer(E, ids[n], servers, t)]
           I == {n \in DOMAIN ids : layers[n] # None}
           items == Where(layers, I)
<1>1. DOMAIN ids = 1..Len(ids) /\ \A n \in DOMAIN ids : ids[n] \in Identities
  OBVIOUS
<1>2. \A n \in DOMAIN ids :
         /\ layers[n] # None =>
               /\ layers[n] \in Item /\ layers[n].event \in E
               /\ layers[n].event.identity = ids[n] /\ Valid(layers[n].event, t)
               /\ layers[n].servers = servers[ids[n]]
         /\ \A e \in E : e.identity = ids[n] /\ Valid(e, t) =>
               layers[n] # None /\ layers[n].event = e
  BY <1>1, LayerEffect
<1>3. /\ layers \in Seq(Item \cup {None}) /\ Len(layers) = Len(ids)
      /\ I \in SUBSET (1..Len(layers))
  <2>1. \A n \in DOMAIN ids : layers[n] \in Item \cup {None}
    BY <1>2
  <2>2. Len(ids) \in Nat /\ layers = [n \in 1..Len(ids) |-> layers[n]]
    BY <1>1
  <2> HIDE DEF layers
  <2>3. layers \in Seq(Item \cup {None}) /\ Len(layers) = Len(ids)
    BY <1>1, <2>1, <2>2
  <2> QED BY <1>1, <2>3
<1>4. \A n \in I : n \in DOMAIN ids /\ layers[n] # None
  OBVIOUS
<1>5. \A n \in DOMAIN ids : layers[n] # None => n \in I
  OBVIOUS
<1>6. Select(E, ids, servers, t) = items
  BY DEF Select
<1> HIDE DEF layers, I
<1>7. /\ items \in Seq(Item \cup {None})
      /\ \E p : Places(p, items, layers, I)
  BY <1>3, WherePlaces
<1> HIDE DEF items
<1>8. PICK p : Places(p, items, layers, I)
  BY <1>7
<1>9. /\ DOMAIN items = 1..Len(items) /\ Len(items) \in Nat
      /\ \A n \in DOMAIN items : p[n] \in I /\ items[n] = layers[p[n]]
      /\ \A m, n \in DOMAIN items : m < n => p[m] < p[n]
      /\ \A i \in I : \E n \in DOMAIN items : p[n] = i
  <2>1. DOMAIN items = 1..Len(items) /\ Len(items) \in Nat
    BY <1>7
  <2>2. \A n \in 1..Len(items) : p[n] \in I /\ items[n] = layers[p[n]]
    BY <1>8 DEF Places
  <2>3. /\ \A m, n \in 1..Len(items) : m < n => p[m] < p[n]
        /\ \A i \in I : \E n \in 1..Len(items) : p[n] = i
    BY <1>8 DEF Places
  <2> QED BY <2>1, <2>2, <2>3
<1>10. \A n \in DOMAIN items :
          /\ p[n] \in DOMAIN ids /\ items[n] \in Item /\ items[n].event \in E
          /\ items[n].event.identity = ids[p[n]] /\ Valid(items[n].event, t)
          /\ items[n].servers = servers[ids[p[n]]]
  BY <1>2, <1>4, <1>9
<1>11. items \in Seq(Item)
  BY <1>9, <1>10, <1>7
<1>12. \A e \in E : Valid(e, t) /\ e.identity \in ToSet(ids) =>
          \E n \in DOMAIN items : items[n].event = e
  <2> TAKE e \in E
  <2> HAVE Valid(e, t) /\ e.identity \in ToSet(ids)
  <2>1. PICK k \in DOMAIN ids : ids[k] = e.identity
    BY DEF ToSet
  <2>2. k \in I /\ layers[k].event = e
    BY <1>2, <1>5, <2>1
  <2>3. PICK n \in DOMAIN items : p[n] = k
    BY <1>9, <2>2
  <2> QED BY <1>9, <2>2, <2>3
<1>13. \A m, n \in DOMAIN items :
          m < n => \E j, k \in DOMAIN ids :
             /\ items[m].event.identity # items[n].event.identity
             /\ j < k /\ ids[j] = items[m].event.identity
             /\ ids[k] = items[n].event.identity
  <2> TAKE m, n \in DOMAIN items
  <2> HAVE m < n
  <2>1. p[m] < p[n] /\ p[m] \in DOMAIN ids /\ p[n] \in DOMAIN ids
    BY <1>9, <1>10
  <2>2. p[m] # p[n]
    BY <1>1, <2>1
  <2>3. ids[p[m]] # ids[p[n]]
    BY <2>1, <2>2 DEF IsInjective
  <2> QED BY <1>10, <2>1, <2>3
<1> QED BY <1>6, <1>10, <1>11, <1>12, <1>13 DEF Snapshot

LEMMA DeadlineType ==
  ASSUME NEW items \in Seq(Item), NEW t \in Nat,
         \A n \in DOMAIN items : Valid(items[n].event, t)
  PROVE  Deadline(items, t) \in Nat \cup {None}
<1> DEFINE X == Expiries(items)
           least == Min(X)
           d == Min({Ceiling, least - t})
<1>1. CASE X = {}
  BY <1>1 DEF Deadline
<1>2. CASE X # {}
  <2>1. \A n \in DOMAIN items : items[n].event \in Events
    <3>1. \A n \in DOMAIN items : items[n] \in Item
      OBVIOUS
    <3> QED BY <3>1 DEF Item
  <2>2. \A x \in X : x \in Nat /\ x > t
    BY <2>1, EventType DEF Expiries, Valid
  <2> HIDE DEF X
  <2>3. \E x \in X : \A y \in X : x <= y
    BY <1>2, <2>2, NatMin
  <2>4. least \in X
    BY <2>3 DEF Min
  <2>5. least - t \in Nat /\ Ceiling \in Nat
    BY <2>2, <2>4, SelectionAssumption
  <2>6. \E x \in {Ceiling, least - t} : \A y \in {Ceiling, least - t} : x <= y
    BY <2>5
  <2>7. d \in {Ceiling, least - t}
    BY <2>6 DEF Min
  <2>8. d \in Nat
    BY <2>5, <2>7
  <2> HIDE DEF d
  <2>9. t + d \in Nat
    BY <2>8
  <2> QED BY <1>2, <2>9 DEF Deadline, d, least, X
<1> QED BY <1>1, <1>2

LEMMA PeaksEffect ==
  ASSUME NEW E \in SUBSET Events, Single(E), NEW items \in Seq(Item),
         \A n \in DOMAIN items : items[n].event \in E,
         NEW before \in [Identities -> Events \cup {None}],
         \A e \in E : \/ before[e.identity] \in {None, e}
                      \/ Newer(e, before[e.identity])
  PROVE  /\ Peaks(items, before) \in [Identities -> Events \cup {None}]
         /\ \A i \in Identities :
               \/ Peaks(items, before)[i] = before[i]
               \/ \E e \in E : e.identity = i /\ Peaks(items, before)[i] = e
         /\ \A n \in DOMAIN items :
               Peaks(items, before)[items[n].event.identity] = items[n].event
<1> DEFINE sel(i) == {e \in {items[n].event : n \in DOMAIN items} : e.identity = i}
           seen(i) == sel(i) \cup ({before[i]} \ {None})
           best(i) == IF seen(i) = {} THEN None
                      ELSE CHOOSE e \in seen(i) : \A f \in seen(i) : ~Newer(f, e)
<1>1. Peaks(items, before) = [i \in Identities |-> best(i)]
  BY DEF Peaks
<1>2. ASSUME NEW i \in Identities, sel(i) = {}
      PROVE  best(i) = before[i]
  <2>1. CASE before[i] = None
    BY <1>2, <2>1
  <2>2. CASE before[i] # None
    <3>1. seen(i) = {before[i]} /\ before[i] \in Events
      BY <1>2, <2>2
    <3>2. ~Newer(before[i], before[i])
      BY <3>1, NewerOrder
    <3> HIDE DEF seen
    <3> QED BY <3>1, <3>2
  <2> QED BY <2>1, <2>2
<1>3. ASSUME NEW i \in Identities, NEW e \in sel(i)
      PROVE  best(i) = e
  <2>1. e \in E /\ e.identity = i /\ e \in Events
    BY <1>3
  <2>2. \A f \in sel(i) : f = e
    BY <2>1 DEF Single
  <2>3. \A f \in seen(i) : f = e \/ (f = before[i] /\ f \in Events /\ Newer(e, f))
    BY <1>3, <2>1, <2>2
  <2>4. e \in seen(i) /\ \A f \in seen(i) : ~Newer(f, e)
    BY <1>3, <2>1, <2>3, NewerOrder
  <2>5. \A c \in seen(i) : (\A f \in seen(i) : ~Newer(f, c)) => c = e
    BY <2>3, <2>4
  <2> HIDE DEF seen
  <2> QED BY <2>4, <2>5
<1>4. \A i \in Identities :
         \/ best(i) = before[i]
         \/ \E e \in E : e.identity = i /\ best(i) = e
  <2> TAKE i \in Identities
  <2>1. CASE sel(i) = {}
    BY <1>2, <2>1
  <2>2. CASE sel(i) # {}
    <3>1. PICK e \in sel(i) : TRUE
      BY <2>2
    <3>2. best(i) = e
      BY <1>3
    <3>3. e \in E /\ e.identity = i
      BY <3>1
    <3> QED BY <3>2, <3>3
  <2> QED BY <2>1, <2>2
<1>5. \A n \in DOMAIN items : /\ items[n].event.identity \in Identities
                              /\ best(items[n].event.identity) = items[n].event
  <2> TAKE n \in DOMAIN items
  <2>1. items[n].event \in E /\ items[n].event.identity \in Identities
    BY EventType
  <2>2. items[n].event \in sel(items[n].event.identity)
    OBVIOUS
  <2> HIDE DEF sel, best
  <2> QED BY <1>3, <2>1, <2>2
<1> HIDE DEF best, sel, seen
<1>6. \A i \in Identities : best(i) \in Events \cup {None}
  BY <1>4
<1> QED BY <1>1, <1>4, <1>5, <1>6

\* The peaks of E are not older than those before.
Above(E, before) ==
    \A e \in E : before[e.identity] \in {None, e} \/ Newer(e, before[e.identity])

LEMMA EmitEffect ==
  ASSUME NEW E \in SUBSET Events, Single(E), NEW ids \in Seq(Identities),
         IsInjective(ids), NEW servers \in [Identities -> 0..MaxList],
         NEW t \in Nat, NEW armed \in Nat \cup {None},
         peak \in [Identities -> Events \cup {None}], Above(E, peak),
         Emit(E, ids, servers, t, armed)
  PROVE  /\ Snapshot(current', E, ids, servers, t)
         /\ current' \in Seq(Item)
         /\ timer' \in Nat \cup {None}
         /\ peak' \in [Identities -> Events \cup {None}]
         /\ \A i \in Identities : \/ peak'[i] = peak[i]
                                  \/ \E e \in E : e.identity = i /\ peak'[i] = e
         /\ \A n \in DOMAIN current' :
               peak'[current'[n].event.identity] = current'[n].event
<1> DEFINE items == Select(E, ids, servers, t)
<1>1. Snapshot(items, E, ids, servers, t)
  BY SelectEffect
<1>2. /\ items \in Seq(Item)
      /\ \A n \in DOMAIN items : items[n].event \in E /\ Valid(items[n].event, t)
  BY <1>1 DEF Snapshot
<1>3. /\ current' = items
      /\ timer' = IF items = current THEN armed ELSE Deadline(items, t)
      /\ peak' = Peaks(items, peak)
  BY DEF Emit
<1> HIDE DEF items
<1>4. timer' \in Nat \cup {None}
  BY <1>2, <1>3, DeadlineType
<1>5. \A e \in E : \/ peak[e.identity] \in {None, e}
                   \/ Newer(e, peak[e.identity])
  BY DEF Above
<1>6. /\ Peaks(items, peak) \in [Identities -> Events \cup {None}]
      /\ \A i \in Identities :
            \/ Peaks(items, peak)[i] = peak[i]
            \/ \E e \in E : e.identity = i /\ Peaks(items, peak)[i] = e
      /\ \A n \in DOMAIN items :
            Peaks(items, peak)[items[n].event.identity] = items[n].event
  BY <1>2, <1>5, PeaksEffect
<1> QED BY <1>1, <1>2, <1>3, <1>4, <1>6

-----------------------------------------------------------------------------
(* The steps. *)

\* e is what the row had, or newer.
AsNew(e, f) == e = f \/ Newer(e, f)

LEMMA AsNewTransitive ==
  ASSUME NEW e \in Events, NEW f \in Events, NEW g \in Events,
         AsNew(e, f), AsNew(f, g)
  PROVE  AsNew(e, g)
BY NewerOrder DEF AsNew

\* A snapshot computed from what the step leaves behind.
LEMMA SnapshotHolds ==
  ASSUME Snapshot(current', admitted', order', lists', now'),
         \A n \in DOMAIN current' :
            peak'[current'[n].event.identity] = current'[n].event,
         \A e \in admitted' : e.identity \in ToSet(order')
  PROVE  SnapshotIsCurrent'
<1>1. /\ \A n \in DOMAIN current' :
            /\ current'[n].event \in admitted' /\ Valid(current'[n].event, now')
            /\ current'[n].servers = lists'[current'[n].event.identity]
      /\ \A e \in admitted' : Valid(e, now') /\ e.identity \in ToSet(order') =>
            \E n \in DOMAIN current' : current'[n].event = e
      /\ \A m, n \in DOMAIN current' :
            m < n => \E j, k \in DOMAIN order' :
               /\ current'[m].event.identity # current'[n].event.identity
               /\ j < k /\ order'[j] = current'[m].event.identity
               /\ order'[k] = current'[n].event.identity
  BY DEF Snapshot
<1>2. /\ \A e \in Selected' : \E n \in DOMAIN current' : e = current'[n].event
      /\ \A n \in DOMAIN current' : current'[n].event \in Selected'
  BY DEF Selected
<1>3. \A e \in admitted' : e.identity \in ToSet(order')
  OBVIOUS
<1>4. Selected' \subseteq admitted' /\ \A e \in Selected' : peak'[e.identity] = e
  <2> SUFFICES ASSUME NEW e \in Selected'
               PROVE  e \in admitted' /\ peak'[e.identity] = e
    OBVIOUS
  <2>1. PICK n \in DOMAIN current' : e = current'[n].event
    BY <1>2
  <2> QED BY <1>1, <2>1
<1>5. \A e \in admitted' : Valid(e, now)' => e \in Selected'
  BY <1>1, <1>2, <1>3 DEF Valid
<1>6. /\ \A n \in DOMAIN current' :
            current'[n].servers = lists'[current'[n].event.identity]
      /\ \A m, n \in DOMAIN current' :
            m < n => \E j, k \in DOMAIN order' :
               /\ current'[m].event.identity # current'[n].event.identity
               /\ j < k /\ order'[j] = current'[m].event.identity
               /\ order'[k] = current'[n].event.identity
  BY <1>1
<1> QED BY <1>4, <1>5, <1>6 DEF SnapshotIsCurrent

\* A recomputation over the rows and the store as they are after the step.
LEMMA EmitKeeps ==
  ASSUME TypeOK, Inv, up, up', now' = now,
         admitted' \in SUBSET Events, order' \in Seq(Identities),
         lists' \in [Identities -> 0..MaxList], NEW armed \in Nat \cup {None},
         StoreIsDurable', Emit(admitted', order', lists', now, armed),
         \A i \in Identities : rows[i].event # None =>
            rows'[i].event \in Events /\ AsNew(rows'[i].event, rows[i].event)
  PROVE  /\ current' \in Seq(Item) /\ timer' \in Nat \cup {None}
         /\ peak' \in [Identities -> Events \cup {None}]
         /\ SnapshotIsCurrent'
         /\ \A i \in Identities : peak'[i] # None =>
               rows'[i].event \in Events /\ AsNew(rows'[i].event, peak'[i])
<1>1. /\ now \in Nat /\ peak \in [Identities -> Events \cup {None}]
      /\ \A i \in Identities : rows[i].event \in Events \cup {None}
  BY SelectionAssumption DEF TypeOK, Row
<1>2. /\ \A e \in admitted' : /\ e.identity \in ToSet(order)'
                              /\ rows'[e.identity].event = e
      /\ IsInjective(order')
  BY DEF StoreIsDurable, ToSet, IsInjective
<1>3. Single(admitted')
  BY <1>2 DEF Single
<1>4. ASSUME NEW i \in Identities, peak[i] # None
      PROVE  rows'[i].event \in Events /\ AsNew(rows'[i].event, peak[i])
  <2>1. ~rows[i].corrupt
    BY DEF Inv, StoreIsDurable
  <2>2. rows[i].event # None /\ AsNew(rows[i].event, peak[i])
    BY <1>4, <2>1 DEF Inv, RowsAreNewest, AsNew
  <2>3. rows[i].event \in Events /\ peak[i] \in Events
    BY <1>1, <1>4, <2>2
  <2> QED BY <2>2, <2>3, AsNewTransitive
<1>5. Above(admitted', peak)
  <2> SUFFICES ASSUME NEW e \in admitted', peak[e.identity] # None
               PROVE  AsNew(e, peak[e.identity])
    BY DEF Above, AsNew
  <2>1. e.identity \in Identities
    BY EventType
  <2> QED BY <1>2, <1>4, <2>1
<1>6. /\ Snapshot(current', admitted', order', lists', now)
      /\ current' \in Seq(Item)
      /\ timer' \in Nat \cup {None}
      /\ peak' \in [Identities -> Events \cup {None}]
      /\ \A i \in Identities : \/ peak'[i] = peak[i]
                               \/ \E e \in admitted' : e.identity = i /\ peak'[i] = e
      /\ \A n \in DOMAIN current' :
            peak'[current'[n].event.identity] = current'[n].event
  BY <1>1, <1>2, <1>3, <1>5, EmitEffect
<1>7. \A i \in Identities : peak'[i] # None =>
               rows'[i].event \in Events /\ AsNew(rows'[i].event, peak'[i])
  <2> TAKE i \in Identities
  <2> HAVE peak'[i] # None
  <2>1. CASE peak'[i] = peak[i]
    BY <1>4, <2>1
  <2>2. ASSUME NEW e \in admitted', e.identity = i, peak'[i] = e
        PROVE  rows'[i].event \in Events /\ AsNew(rows'[i].event, peak'[i])
    BY <1>2, <2>2 DEF AsNew
  <2> QED BY <1>6, <2>1, <2>2
<1>8. SnapshotIsCurrent'
  BY <1>2, <1>6, SnapshotHolds DEF ToSet
<1> QED BY <1>6, <1>7, <1>8

LEMMA AcceptedEffect ==
  ASSUME TypeOK, NEW e \in Events, Accepted(e)
  PROVE  /\ rows' \in [Identities -> Row]
         /\ rows'[e.identity].event = e
         /\ rows'[e.identity].corrupt = rows[e.identity].corrupt
         /\ rows'[e.identity].unsignedConsent = rows[e.identity].unsignedConsent
         /\ rows[e.identity].signedHistory => rows'[e.identity].signedHistory
         /\ e.signed => rows'[e.identity].signedHistory
         /\ \A i \in Identities : i # e.identity => rows'[i] = rows[i]
<1> DEFINE old == rows[e.identity]
           both == old.signedHistory \/ e.signed
           row == [old EXCEPT !.event = e, !.signedHistory = both]
<1>1. e.identity \in Identities /\ e.signed \in BOOLEAN
  BY EventType
<1>2. old \in Row /\ old.signedHistory \in BOOLEAN
  BY <1>1 DEF TypeOK, Row
<1>3. both \in BOOLEAN
  BY <1>1, <1>2
<1> HIDE DEF old, both
<1>4. /\ row \in Row /\ row.event = e /\ row.corrupt = old.corrupt
      /\ row.unsignedConsent = old.unsignedConsent
      /\ row.signedHistory = both
  BY <1>2, <1>3 DEF Row
<1> HIDE DEF row
<1>5. rows' = [rows EXCEPT ![e.identity] = row]
  BY DEF Accepted, row, old, both
<1>6. /\ rows' \in [Identities -> Row] /\ rows'[e.identity] = row
      /\ \A i \in Identities : i # e.identity => rows'[i] = rows[i]
  BY <1>1, <1>4, <1>5 DEF TypeOK
<1> QED BY <1>4, <1>6 DEF old, both

LEMMA AcceptKeepsRows ==
  ASSUME TypeOK, Inv, NEW e \in Events, up, Valid(e, now), Acceptable(e),
         Accepted(e), now' = now, granted' = granted
  PROVE  /\ PolicyIsKept'
         /\ \A i \in Identities :
               /\ rows[i].event # None =>
                     rows'[i].event \in Events /\ AsNew(rows'[i].event, rows[i].event)
               /\ rows'[i].event # None =>
                     /\ rows'[i].event.identity = i
                     /\ rows'[i].event.createdAt <= now' + FutureLimit
               /\ ~rows'[i].corrupt
         /\ keyed' \subseteq Identities
<1>1. /\ rows' \in [Identities -> Row]
      /\ rows'[e.identity].event = e
      /\ rows'[e.identity].corrupt = rows[e.identity].corrupt
      /\ rows'[e.identity].unsignedConsent = rows[e.identity].unsignedConsent
      /\ rows[e.identity].signedHistory => rows'[e.identity].signedHistory
      /\ e.signed => rows'[e.identity].signedHistory
      /\ \A i \in Identities : i # e.identity => rows'[i] = rows[i]
  BY AcceptedEffect
<1>2. /\ e.identity \in Identities
      /\ \A i \in Identities : rows[i].event \in Events \cup {None}
      /\ \A i \in Identities : ~rows[i].corrupt
  BY EventType DEF TypeOK, Row, Inv, StoreIsDurable
<1>3. keyed' = IF e.signed THEN keyed \cup {e.identity} ELSE keyed
  BY DEF Accepted
<1>4. /\ rows[e.identity].signedHistory /\ ~e.signed => rows[e.identity].unsignedConsent
      /\ rows[e.identity].event # None => Newer(e, rows[e.identity].event)
  BY DEF Acceptable
<1>5. PolicyIsKept'
  <2> SUFFICES ASSUME NEW i \in Identities
               PROVE  /\ i \in keyed' => rows'[i].signedHistory
                      /\ rows'[i].unsignedConsent => i \in granted'
                      /\ rows'[i].event # None /\ ~rows'[i].event.signed /\ i \in keyed'
                            => i \in granted'
    BY DEF PolicyIsKept
  <2>1. /\ i \in keyed => rows[i].signedHistory
        /\ rows[i].unsignedConsent => i \in granted
        /\ rows[i].event # None /\ ~rows[i].event.signed /\ i \in keyed
              => i \in granted
    BY DEF Inv, PolicyIsKept
  <2>2. CASE i = e.identity
    BY <1>1, <1>3, <1>4, <2>1, <2>2
  <2>3. CASE i # e.identity
    BY <1>1, <1>3, <2>1, <2>3
  <2> QED BY <2>2, <2>3
<1>6. ASSUME NEW i \in Identities
      PROVE  /\ rows[i].event # None =>
                   rows'[i].event \in Events /\ AsNew(rows'[i].event, rows[i].event)
             /\ rows'[i].event # None =>
                   /\ rows'[i].event.identity = i
                   /\ rows'[i].event.createdAt <= now' + FutureLimit
             /\ ~rows'[i].corrupt
  <2>1. CASE i = e.identity
    BY <1>1, <1>2, <1>4, <2>1 DEF AsNew, Valid
  <2>2. CASE i # e.identity
    BY <1>1, <1>2, <2>2 DEF AsNew, Inv, RowsAreNewest
  <2> QED BY <2>1, <2>2
<1> QED BY <1>2, <1>3, <1>5, <1>6 DEF TypeOK

LEMMA AuthorizedOrder ==
  ASSUME NEW ids \in Seq(Identities), IsInjective(ids)
  PROVE  LET rest == Where(ids, {n \in DOMAIN ids : ids[n] # Own})
         IN  /\ <<Own>> \o rest \in Seq(Identities)
             /\ IsInjective(<<Own>> \o rest)
             /\ ToSet(ids) \subseteq ToSet(<<Own>> \o rest)
<1> DEFINE I == {n \in DOMAIN ids : ids[n] # Own}
           rest == Where(ids, I)
           new == <<Own>> \o rest
<1>1. DOMAIN ids = 1..Len(ids) /\ I \in SUBSET (1..Len(ids)) /\ Own \in Identities
  BY DEF Identities
<1>2. rest \in Seq(Identities) /\ \E p : Places(p, rest, ids, I)
  BY <1>1, WherePlaces
<1>3. PICK p : Places(p, rest, ids, I)
  BY <1>2
<1>4. \A n \in I : n \in DOMAIN ids /\ ids[n] # Own
  OBVIOUS
<1>5. \A n \in DOMAIN ids : ids[n] = Own \/ n \in I
  OBVIOUS
<1> HIDE DEF rest, I
<1> DEFINE L == Len(rest)
<1>6. /\ L \in Nat
      /\ \A n \in 1..L : p[n] \in I /\ rest[n] = ids[p[n]]
      /\ \A m, n \in 1..L : m < n => p[m] < p[n]
      /\ \A i \in I : \E n \in 1..L : p[n] = i
  <2>1. L \in Nat
    BY <1>2
  <2>2. \A n \in 1..L : p[n] \in I /\ rest[n] = ids[p[n]]
    BY <1>3 DEF Places
  <2>3. /\ \A m, n \in 1..L : m < n => p[m] < p[n]
        /\ \A i \in I : \E n \in 1..L : p[n] = i
    BY <1>3 DEF Places
  <2> QED BY <2>1, <2>2, <2>3
<1>7. /\ new \in Seq(Identities) /\ Len(new) = L + 1 /\ new[1] = Own
      /\ \A n \in 1..L : new[n + 1] = rest[n]
  BY <1>1, <1>2, <1>6
<1>8. DOMAIN new = 1..(L + 1)
  BY <1>7
<1> HIDE DEF L, new
<1>9. \A k \in 1..(L + 1) : k = 1 \/ (k - 1 \in 1..L /\ new[k] = ids[p[k - 1]])
  <2> TAKE k \in 1..(L + 1)
  <2> SUFFICES ASSUME k # 1 PROVE k - 1 \in 1..L /\ new[k] = ids[p[k - 1]]
    OBVIOUS
  <2>1. k - 1 \in 1..L /\ k = (k - 1) + 1
    BY <1>6
  <2>2. new[(k - 1) + 1] = rest[k - 1]
    BY <1>7, <2>1
  <2> QED BY <1>6, <2>1, <2>2
<1>10. IsInjective(new)
  <2> SUFFICES ASSUME NEW j \in 1..(L + 1), NEW k \in 1..(L + 1), j < k
               PROVE  new[j] # new[k]
    <3>1. \A j, k \in 1..(L + 1) : j = k \/ j < k \/ k < j
      BY <1>6
    <3> QED BY <1>8, <3>1 DEF IsInjective
  <2>1. k - 1 \in 1..L /\ new[k] = ids[p[k - 1]] /\ p[k - 1] \in I
    BY <1>6, <1>9
  <2>2. CASE j = 1
    BY <1>4, <1>7, <2>1, <2>2
  <2>3. CASE j # 1
    <3>1. j - 1 \in 1..L /\ new[j] = ids[p[j - 1]] /\ p[j - 1] \in I
      BY <1>6, <1>9, <2>3
    <3>2. j - 1 < k - 1
      BY <1>6
    <3>3. p[j - 1] < p[k - 1]
      BY <1>6, <2>1, <3>1, <3>2
    <3>4. /\ p[j - 1] \in DOMAIN ids /\ p[k - 1] \in DOMAIN ids
          /\ p[j - 1] # p[k - 1]
      <4>1. p[j - 1] \in DOMAIN ids /\ p[k - 1] \in DOMAIN ids
        BY <1>4, <2>1, <3>1
      <4>2. p[j - 1] \in Nat
        BY <1>1, <4>1
      <4>3. ~(p[j - 1] < p[j - 1])
        BY <4>2
      <4> QED BY <3>3, <4>1, <4>3
    <3> QED BY <2>1, <3>1, <3>4 DEF IsInjective
  <2> QED BY <2>2, <2>3
<1>11. ToSet(ids) \subseteq ToSet(new)
  <2> SUFFICES ASSUME NEW n \in DOMAIN ids PROVE ids[n] \in ToSet(new)
    BY DEF ToSet
  <2>1. CASE ids[n] = Own
    <3>1. 1 \in DOMAIN new
      BY <1>6, <1>8
    <3> QED BY <1>7, <2>1, <3>1 DEF ToSet
  <2>2. CASE n \in I
    <3>1. PICK k \in 1..L : p[k] = n
      BY <1>6, <2>2
    <3>2. k + 1 \in DOMAIN new /\ new[k + 1] = ids[n]
      BY <1>6, <1>7, <1>8, <3>1
    <3> QED BY <3>2 DEF ToSet
  <2> QED BY <1>5, <2>1, <2>2
<1>12. new = <<Own>> \o Where(ids, {n \in DOMAIN ids : ids[n] # Own})
  BY DEF new, rest, I
<1> QED BY <1>7, <1>10, <1>11, <1>12

LEMMA CappedType ==
  ASSUME capped \in BOOLEAN, [Next]_vars
  PROVE  capped' \in BOOLEAN
<1>1. \A items, t : Capped(items, t) \in BOOLEAN
  BY DEF Capped
<1>2. ASSUME NEW E, NEW ids, NEW servers, NEW t, NEW armed, Emit(E, ids, servers, t, armed)
      PROVE  capped' \in BOOLEAN
  BY <1>1, <1>2 DEF Emit
<1>3. CASE UNCHANGED capped
  BY <1>3
<1>4. ASSUME NEW e \in Events, Accept(e) \/ AcceptCrashes(e)
      PROVE  capped' \in BOOLEAN
  BY <1>2, <1>3, <1>4 DEF Accept, AcceptCrashes, memory
<1>5. ASSUME NEW i \in Identities, AcceptServers(i) \/ Corrupt(i) \/ \E b \in BOOLEAN : Consent(i, b)
      PROVE  capped' \in BOOLEAN
  BY <1>2, <1>3, <1>5 DEF AcceptServers, Corrupt, Consent, memory
<1>6. CASE Authorize \/ TimerFires
  BY <1>2, <1>6 DEF Authorize, TimerFires
<1>7. CASE Tick \/ Crash \/ UNCHANGED vars
  BY <1>3, <1>7 DEF Tick, Crash, memory, vars
<1>8. CASE Start
  BY <1>1, <1>8 DEF Start
<1> QED BY <1>4, <1>5, <1>6, <1>7, <1>8 DEF Next

LEMMA InvInductive ==
  ASSUME ~OldVersions, TypeOK, Inv, [Next]_vars
  PROVE  TypeOK' /\ Inv'
<1>0. capped' \in BOOLEAN
  BY CappedType DEF TypeOK
<1>1. /\ now \in Nat /\ FutureLimit \in Nat /\ MaxList \in Nat
      /\ \A i \in Identities : rows[i] \in Row /\ rows[i].event \in Events \cup {None}
      /\ Configured \in Seq(Identities) /\ IsInjective(Configured)
      /\ ToSet(Configured) \subseteq Identities
  BY SelectionAssumption DEF TypeOK, Row, Identities
<1>2. ASSUME NEW e \in Events, Accept(e)
      PROVE  TypeOK' /\ Inv'
  <2>1. /\ up /\ Valid(e, now) /\ e.identity \in ToSet(order)
        /\ Acceptable(e) /\ Accepted(e)
        /\ admitted' = Insert(admitted, e)
        /\ Emit(admitted', order, lists, now, timer)
        /\ UNCHANGED <<up, now, order, lists, granted, crashes, faults>>
    BY <1>2 DEF Accept
  <2>2. /\ rows' \in [Identities -> Row] /\ rows'[e.identity].event = e
        /\ \A i \in Identities : i # e.identity => rows'[i] = rows[i]
    BY <2>1, AcceptedEffect
  <2>3. /\ PolicyIsKept' /\ keyed' \subseteq Identities
        /\ \A i \in Identities :
              /\ rows[i].event # None =>
                    rows'[i].event \in Events /\ AsNew(rows'[i].event, rows[i].event)
              /\ rows'[i].event # None =>
                    /\ rows'[i].event.identity = i
                    /\ rows'[i].event.createdAt <= now' + FutureLimit
              /\ ~rows'[i].corrupt
    BY <2>1, AcceptKeepsRows
  <2>4. /\ admitted' = {e} \cup (admitted \ Older(admitted, e))
        /\ admitted' \in SUBSET Events
    BY <2>1 DEF Insert, TypeOK
  <2>5. ASSUME NEW f \in admitted, f.identity = e.identity
        PROVE  f \in Older(admitted, e)
    <3>1. rows[e.identity].event = f
      BY <2>1, <2>5 DEF Inv, StoreIsDurable
    <3>2. f # None
      BY EventType DEF TypeOK
    <3> QED BY <2>1, <2>5, <3>1, <3>2 DEF Acceptable, Older
  <2>6. StoreIsDurable'
    <3>1. \A f \in admitted' : f.identity \in ToSet(order) /\ rows'[f.identity].event = f
      <4> TAKE f \in admitted'
      <4>1. CASE f = e
        BY <2>1, <2>2, <4>1
      <4>2. CASE f # e
        <5>1. f \in admitted /\ f.identity # e.identity /\ f.identity \in Identities
          BY <2>4, <2>5, <4>2, EventType DEF TypeOK
        <5> QED BY <2>1, <2>2, <5>1 DEF Inv, StoreIsDurable
      <4> QED BY <4>1, <4>2
    <3>2. ASSUME NEW i \in ToSet(Configured), rows'[i].event # None,
                 Valid(rows'[i].event, now)
          PROVE  rows'[i].event \in admitted'
      <4>1. CASE i = e.identity
        BY <2>2, <2>4, <4>1
      <4>2. CASE i # e.identity
        <5>1. rows'[i] = rows[i] /\ rows[i].event.identity = i
          BY <1>1, <2>2, <2>3, <3>2, <4>2
        <5>2. rows[i].event \in admitted
          BY <2>1, <3>2, <5>1 DEF Inv, StoreIsDurable
        <5> QED BY <2>4, <4>2, <5>1, <5>2 DEF Older
      <4> QED BY <4>1, <4>2
    <3>3. IsInjective(order) /\ ToSet(Configured) \subseteq ToSet(order)
      BY <2>1 DEF Inv, StoreIsDurable
    <3> QED BY <2>1, <2>3, <3>1, <3>2, <3>3 DEF StoreIsDurable, Valid
  <2>7. /\ timer \in Nat \cup {None} /\ order \in Seq(Identities)
        /\ lists \in [Identities -> 0..MaxList]
    BY DEF TypeOK
  <2>8. /\ current' \in Seq(Item) /\ timer' \in Nat \cup {None}
        /\ peak' \in [Identities -> Events \cup {None}]
        /\ SnapshotIsCurrent'
        /\ \A i \in Identities : peak'[i] # None =>
              rows'[i].event \in Events /\ AsNew(rows'[i].event, peak'[i])
    BY <2>1, <2>3, <2>4, <2>6, <2>7, EmitKeeps
  <2>9. RowsAreNewest'
    <3>1. \A i \in Identities : peak'[i] # None =>
             /\ rows'[i].event # None
             /\ peak'[i] = rows'[i].event \/ Newer(rows'[i].event, peak'[i])
      BY <2>8, EventType DEF AsNew
    <3> QED BY <2>3, <3>1 DEF RowsAreNewest
  <2> QED BY <1>0, <2>1, <2>2, <2>3, <2>4, <2>6, <2>8, <2>9 DEF TypeOK, Inv
<1>3. ASSUME NEW e \in Events, AcceptCrashes(e)
      PROVE  TypeOK' /\ Inv'
  <2>1. /\ up /\ Valid(e, now) /\ Acceptable(e) /\ Accepted(e)
        /\ up' = FALSE
        /\ UNCHANGED <<now, memory, granted, peak, faults>>
    BY <1>3 DEF AcceptCrashes
  <2>2. UNCHANGED <<admitted, order, lists, current, timer>>
    BY <2>1 DEF memory
  <2>3. rows' \in [Identities -> Row]
    BY AcceptedEffect, <2>1
  <2>4. /\ PolicyIsKept' /\ keyed' \subseteq Identities
        /\ \A i \in Identities :
              /\ rows[i].event # None =>
                    rows'[i].event \in Events /\ AsNew(rows'[i].event, rows[i].event)
              /\ rows'[i].event # None =>
                    /\ rows'[i].event.identity = i
                    /\ rows'[i].event.createdAt <= now' + FutureLimit
              /\ ~rows'[i].corrupt
    BY <2>1, AcceptKeepsRows
  <2>5. ASSUME NEW i \in Identities, peak[i] # None
        PROVE  rows'[i].event \in Events /\ AsNew(rows'[i].event, peak[i])
    <3>1. rows[i].event # None /\ AsNew(rows[i].event, peak[i])
      BY <2>1, <2>5 DEF Inv, StoreIsDurable, RowsAreNewest, AsNew
    <3>2. rows[i].event \in Events /\ peak[i] \in Events
      BY <1>1, <2>5, <3>1 DEF TypeOK
    <3> QED BY <2>4, <3>1, <3>2, AsNewTransitive
  <2>6. RowsAreNewest'
    BY <2>1, <2>4, <2>5, EventType DEF RowsAreNewest, AsNew
  <2> QED BY <1>0, <2>1, <2>2, <2>3, <2>4, <2>6 DEF TypeOK, Inv, StoreIsDurable, SnapshotIsCurrent
\* The steps that recompute the snapshot and leave the rows alone.
<1>4. ASSUME up, UNCHANGED <<up, now, rows, admitted, keyed, granted>>,
             order' \in Seq(Identities), IsInjective(order'),
             ToSet(order) \subseteq ToSet(order'),
             lists' \in [Identities -> 0..MaxList],
             NEW armed \in Nat \cup {None},
             Emit(admitted, order', lists', now, armed)
      PROVE  TypeOK' /\ Inv'
  <2>1. StoreIsDurable'
    BY <1>4 DEF Inv, StoreIsDurable, Valid, ToSet, IsInjective
  <2>2. admitted' \in SUBSET Events /\ Emit(admitted', order', lists', now, armed)
    BY <1>4 DEF TypeOK
  <2>3. \A i \in Identities : rows[i].event # None =>
            rows'[i].event \in Events /\ AsNew(rows'[i].event, rows[i].event)
    BY <1>1, <1>4 DEF AsNew
  <2>4. /\ current' \in Seq(Item) /\ timer' \in Nat \cup {None}
        /\ peak' \in [Identities -> Events \cup {None}]
        /\ SnapshotIsCurrent'
        /\ \A i \in Identities : peak'[i] # None =>
              rows'[i].event \in Events /\ AsNew(rows'[i].event, peak'[i])
    BY <1>4, <2>1, <2>2, <2>3, EmitKeeps
  <2>5. RowsAreNewest'
    <3>1. \A i \in Identities : peak'[i] # None =>
             /\ rows'[i].event # None
             /\ peak'[i] = rows'[i].event \/ Newer(rows'[i].event, peak'[i])
      BY <2>4, EventType DEF AsNew
    <3> QED BY <1>4, <3>1 DEF RowsAreNewest, Inv
  <2>6. PolicyIsKept'
    BY <1>4 DEF PolicyIsKept, Inv
  <2> QED BY <1>0, <1>4, <2>1, <2>2, <2>4, <2>5, <2>6 DEF TypeOK, Inv
<1>5. ASSUME up, UNCHANGED order
      PROVE  /\ order' \in Seq(Identities) /\ IsInjective(order')
             /\ ToSet(order) \subseteq ToSet(order')
  BY <1>5 DEF TypeOK, Inv, StoreIsDurable, IsInjective, ToSet
<1>6. ASSUME NEW i \in Identities, AcceptServers(i)
      PROVE  TypeOK' /\ Inv'
  <2>1. lists' \in [Identities -> 0..MaxList]
    BY <1>1, <1>6 DEF AcceptServers, TypeOK
  <2>2. /\ up /\ UNCHANGED <<up, now, rows, admitted, keyed, granted, order>>
        /\ Emit(admitted, order', lists', now, timer) /\ timer \in Nat \cup {None}
    BY <1>6 DEF AcceptServers, TypeOK
  <2> QED BY <1>4, <1>5, <2>1, <2>2
<1>7. CASE Authorize
  <2>1. /\ up /\ UNCHANGED <<up, now, rows, admitted, keyed, granted, lists>>
        /\ order' = <<Own>> \o Where(order, {n \in DOMAIN order : order[n] # Own})
        /\ Emit(admitted, order', lists', now, timer)
    BY <1>7 DEF Authorize
  <2>2. /\ timer \in Nat \cup {None} /\ order \in Seq(Identities)
        /\ lists' \in [Identities -> 0..MaxList]
    BY <2>1 DEF TypeOK
  <2>3. IsInjective(order)
    BY <2>1 DEF Inv, StoreIsDurable
  <2>4. /\ order' \in Seq(Identities) /\ IsInjective(order')
        /\ ToSet(order) \subseteq ToSet(order')
    BY <2>1, <2>2, <2>3, AuthorizedOrder
  <2> QED BY <1>4, <2>1, <2>2, <2>4
<1>8. CASE TimerFires
  <2>1. /\ up /\ UNCHANGED <<up, now, rows, admitted, keyed, granted, order, lists>>
        /\ Emit(admitted, order', lists', now, None)
    BY <1>8 DEF TimerFires
  <2>2. None \in Nat \cup {None} /\ lists' \in [Identities -> 0..MaxList]
    BY <2>1 DEF TypeOK
  <2> QED BY <1>4, <1>5, <2>1, <2>2
<1>9. ASSUME NEW i \in Identities, NEW b \in BOOLEAN, Consent(i, b)
      PROVE  TypeOK' /\ Inv'
  <2> DEFINE row == [rows[i] EXCEPT !.unsignedConsent = b]
  <2>1. /\ row \in Row /\ row.event = rows[i].event /\ row.corrupt = rows[i].corrupt
        /\ row.signedHistory = rows[i].signedHistory /\ row.unsignedConsent = b
    BY <1>1 DEF Row
  <2>2. /\ rows' = [rows EXCEPT ![i] = row]
        /\ granted' = IF b THEN granted \cup {i} ELSE granted
        /\ UNCHANGED <<up, now, admitted, order, lists, current, timer, keyed, peak>>
    BY <1>9 DEF Consent, memory
  <2> HIDE DEF row
  <2>3. /\ rows' \in [Identities -> Row]
        /\ \A j \in Identities :
              /\ rows'[j].event = rows[j].event /\ rows'[j].corrupt = rows[j].corrupt
              /\ rows'[j].signedHistory = rows[j].signedHistory
              /\ rows'[j].unsignedConsent => rows[j].unsignedConsent \/ j \in granted'
    BY <2>1, <2>2 DEF TypeOK
  <2>4. TypeOK'
    BY <1>0, <2>2, <2>3 DEF TypeOK
  <2>5. RowsAreNewest'
    BY <2>2, <2>3 DEF RowsAreNewest, Inv
  <2>6. PolicyIsKept'
    BY <2>2, <2>3 DEF PolicyIsKept, Inv
  <2>7. StoreIsDurable'
    <3>1. \A e \in admitted : e.identity \in Identities
      BY EventType DEF TypeOK
    <3> QED BY <1>1, <2>2, <2>3, <3>1 DEF StoreIsDurable, Inv, Valid
  <2>8. SnapshotIsCurrent'
    BY <2>2 DEF SnapshotIsCurrent, Inv, Selected, Valid
  <2> QED BY <2>4, <2>5, <2>6, <2>7, <2>8 DEF Inv
<1>10. ASSUME NEW i \in Identities, Corrupt(i)
       PROVE  TypeOK' /\ Inv'
  <2> DEFINE row == [rows[i] EXCEPT !.corrupt = TRUE]
  <2>1. /\ row \in Row /\ row.event = rows[i].event /\ row.corrupt
        /\ row.signedHistory = rows[i].signedHistory
        /\ row.unsignedConsent = rows[i].unsignedConsent
    BY <1>1 DEF Row
  <2>2. /\ rows' = [rows EXCEPT ![i] = row] /\ ~up
        /\ UNCHANGED <<up, now, admitted, order, lists, current, timer, keyed,
                       granted, peak>>
    BY <1>10 DEF Corrupt, memory
  <2> HIDE DEF row
  <2>3. /\ rows' \in [Identities -> Row]
        /\ \A j \in Identities :
              /\ rows'[j].event = rows[j].event
              /\ ~rows'[j].corrupt => ~rows[j].corrupt
              /\ rows'[j].signedHistory = rows[j].signedHistory
              /\ rows'[j].unsignedConsent = rows[j].unsignedConsent
    BY <2>1, <2>2 DEF TypeOK
  <2>4. TypeOK'
    BY <1>0, <2>2, <2>3 DEF TypeOK
  <2>5. RowsAreNewest' /\ PolicyIsKept'
    BY <2>2, <2>3 DEF RowsAreNewest, PolicyIsKept, Inv
  <2> QED BY <2>2, <2>4, <2>5 DEF Inv, StoreIsDurable, SnapshotIsCurrent
<1>11. CASE Tick
  <2>1. /\ now' = now + 1 /\ now < MaxTime
        /\ UNCHANGED <<up, rows, admitted, order, lists, current, timer, keyed,
                       granted, peak>>
    BY <1>11 DEF Tick, memory
  <2>2. MaxTime \in Nat
    BY SelectionAssumption
  <2>3. TypeOK'
    BY <1>0, <1>1, <2>1, <2>2 DEF TypeOK
  <2>4. RowsAreNewest'
    <3>1. \A i \in Identities : rows[i].event # None =>
             rows[i].event.createdAt <= now' + FutureLimit
      <4> TAKE i \in Identities
      <4> HAVE rows[i].event # None
      <4>1. /\ rows[i].event.createdAt <= now + FutureLimit
            /\ rows[i].event.createdAt \in Nat
        BY <1>1, EventType DEF Inv, RowsAreNewest
      <4> QED BY <1>1, <2>1, <4>1
    <3> QED BY <2>1, <3>1 DEF RowsAreNewest, Inv
  <2>5. PolicyIsKept'
    BY <2>1 DEF PolicyIsKept, Inv
  <2>6. ASSUME NEW i \in Identities, rows[i].event # None, Valid(rows[i].event, now')
        PROVE  Valid(rows[i].event, now)
    <3>1. rows[i].event \in Events /\ now' \in Nat /\ now <= now'
      BY <1>1, <2>1, <2>6
    <3>2. rows[i].event.createdAt <= now + FutureLimit
      BY <2>6 DEF Inv, RowsAreNewest
    <3> QED BY <1>1, <2>6, <3>1, <3>2, ValidBefore
  <2>7. StoreIsDurable'
    <3>1. ASSUME up, NEW i \in ToSet(Configured), rows[i].event # None,
                 Valid(rows[i].event, now')
          PROVE  rows[i].event \in admitted
      BY <1>1, <2>6, <3>1 DEF Inv, StoreIsDurable
    <3> QED BY <2>1, <3>1 DEF StoreIsDurable, Inv, Valid
  <2>8. SnapshotIsCurrent'
    <3>1. ASSUME up, NEW e \in admitted, Valid(e, now')
          PROVE  e \in Selected
      <4>1. e.identity \in Identities /\ rows[e.identity].event = e /\ e # None
        BY <3>1, EventType DEF Inv, StoreIsDurable, TypeOK
      <4>2. Valid(e, now)
        BY <2>6, <3>1, <4>1
      <4> QED BY <3>1, <4>2 DEF Inv, SnapshotIsCurrent
    <3>2. Selected' = Selected
      BY <2>1 DEF Selected
    <3>3. \A e \in admitted : Valid(e, now)' = Valid(e, now')
      BY DEF Valid
    <3> QED BY <2>1, <3>1, <3>2, <3>3 DEF SnapshotIsCurrent, Inv
  <2> QED BY <2>3, <2>4, <2>5, <2>7, <2>8 DEF Inv
<1>12. CASE Crash
  <2>1. /\ up' = FALSE
        /\ UNCHANGED <<now, rows, admitted, order, lists, current, timer, keyed,
                       granted, peak>>
    BY <1>12 DEF Crash, memory
  <2> QED BY <1>0, <2>1 DEF TypeOK, Inv, RowsAreNewest, PolicyIsKept,
             StoreIsDurable, SnapshotIsCurrent
<1>13. CASE Start
  <2> DEFINE before == [i \in Identities |-> IF rows[i].corrupt THEN None ELSE peak[i]]
             items == Select(admitted', order', lists', now)
  <2>1. /\ up' = TRUE /\ now' = now /\ keyed' = keyed /\ granted' = granted
        /\ rows' = [i \in Identities |-> Cleared(rows[i])]
        /\ admitted' = UNION {Restored(i) : i \in Identities}
        /\ order' = Configured /\ lists' = [i \in Identities |-> 0]
        /\ current' = items /\ timer' = Deadline(items, now)
        /\ peak' = Peaks(items, before)
    BY <1>13 DEF Start
  <2>2. ASSUME NEW i \in Identities
        PROVE  /\ rows'[i] \in Row /\ ~rows'[i].corrupt
               /\ rows'[i].signedHistory = rows[i].signedHistory
               /\ rows'[i].unsignedConsent = rows[i].unsignedConsent
               /\ rows'[i].event = IF rows[i].corrupt THEN None ELSE rows[i].event
    <3>1. rows[i] \in Row /\ rows'[i] = Cleared(rows[i])
      BY <1>1, <2>1
    <3> QED BY <3>1 DEF Cleared, Row
  <2>3. rows' \in [Identities -> Row]
    <3>1. rows' = [i \in Identities |-> rows'[i]]
      BY <2>1
    <3> QED BY <2>2, <3>1
  <2>4. \A e \in admitted' : /\ e \in Events /\ e.identity \in ToSet(Configured)
                             /\ rows'[e.identity].event = e
    <3> TAKE e \in admitted'
    <3>1. PICK i \in Identities : e \in Restored(i)
      BY <2>1
    <3>2. /\ e = rows[i].event /\ e # None /\ ~rows[i].corrupt
          /\ i \in ToSet(Configured)
      BY <3>1 DEF Restored
    <3>3. e.identity = i /\ e \in Events
      BY <1>1, <3>2 DEF Inv, RowsAreNewest
    <3> QED BY <2>2, <3>2, <3>3
  <2>5. \A i \in ToSet(Configured) : rows'[i].event # None /\ Valid(rows'[i].event, now)
           => rows'[i].event \in admitted'
    <3> TAKE i \in ToSet(Configured)
    <3> HAVE rows'[i].event # None /\ Valid(rows'[i].event, now)
    <3>1. i \in Identities /\ ~rows[i].corrupt /\ rows'[i].event = rows[i].event
      BY <1>1, <2>2
    <3>2. rows[i].event \in Restored(i)
      BY <3>1 DEF Restored
    <3> QED BY <2>1, <3>1, <3>2
  <2>6. StoreIsDurable'
    <3>1. \A e \in admitted' : e.identity \in ToSet(order')
      BY <2>1, <2>4
    <3> QED BY <1>1, <2>1, <2>2, <2>4, <2>5, <3>1, ZenonT(40) DEF StoreIsDurable, Valid, ToSet, IsInjective
  <2>7. lists' \in [Identities -> 0..MaxList] /\ admitted' \in SUBSET Events
    <3>1. MaxList \in Nat /\ 0 \in 0..MaxList
      BY SelectionAssumption
    <3>2. lists' \in [Identities -> 0..MaxList]
      BY <2>1, <3>1
    <3>3. admitted' \in SUBSET Events
      BY <2>4
    <3> QED BY <3>2, <3>3
  <2>8. Single(admitted')
    BY <2>4 DEF Single
  <2>9. before \in [Identities -> Events \cup {None}]
    BY DEF TypeOK
  <2>10. \A e \in admitted' : \/ before[e.identity] \in {None, e}
                              \/ Newer(e, before[e.identity])
    <3> TAKE e \in admitted'
    <3> SUFFICES ASSUME before[e.identity] # None
                 PROVE  before[e.identity] = e \/ Newer(e, before[e.identity])
      OBVIOUS
    <3>1. e.identity \in Identities
      BY <1>1, <2>4
    <3>2. ~rows[e.identity].corrupt /\ before[e.identity] = peak[e.identity]
      BY <3>1
    <3>3. rows[e.identity].event = e
      BY <2>2, <2>4, <3>1, <3>2
    <3> HIDE DEF before
    <3> QED BY <3>1, <3>2, <3>3 DEF Inv, RowsAreNewest
  <2>11. Snapshot(items, admitted', order', lists', now)
    BY <1>1, <2>1, <2>7, <2>8, SelectEffect
  <2>12. /\ items \in Seq(Item)
         /\ \A n \in DOMAIN items : /\ items[n].event \in admitted'
                                    /\ Valid(items[n].event, now)
    BY <2>11 DEF Snapshot
  <2> HIDE DEF before, items
  <2>13. /\ peak' \in [Identities -> Events \cup {None}]
         /\ \A i \in Identities :
               \/ peak'[i] = before[i]
               \/ \E e \in admitted' : e.identity = i /\ peak'[i] = e
         /\ \A n \in DOMAIN items :
               peak'[items[n].event.identity] = items[n].event
    <3> DEFINE E == admitted'
    <3>1. /\ E \in SUBSET Events /\ Single(E)
          /\ \A n \in DOMAIN items : items[n].event \in E
          /\ \A e \in E : \/ before[e.identity] \in {None, e}
                          \/ Newer(e, before[e.identity])
      BY <2>7, <2>8, <2>10, <2>12
    <3>2. /\ peak' = Peaks(items, before) /\ items \in Seq(Item)
          /\ before \in [Identities -> Events \cup {None}]
      BY <2>1, <2>9, <2>12
    <3> SUFFICES /\ Peaks(items, before) \in [Identities -> Events \cup {None}]
                 /\ \A i \in Identities :
                       \/ Peaks(items, before)[i] = before[i]
                       \/ \E e \in E : e.identity = i /\ Peaks(items, before)[i] = e
                 /\ \A n \in DOMAIN items :
                       Peaks(items, before)[items[n].event.identity] = items[n].event
      BY <3>2
    <3> HIDE DEF E
    <3> QED BY <3>1, <3>2, PeaksEffect
  <2>14. SnapshotIsCurrent'
    <3>1. Snapshot(current', admitted', order', lists', now')
      BY <2>1, <2>11
    <3>2. \A n \in DOMAIN current' :
             peak'[current'[n].event.identity] = current'[n].event
      BY <2>1, <2>13
    <3>3. \A e \in admitted' : e.identity \in ToSet(order')
      BY <2>1, <2>4
    <3> QED BY <3>1, <3>2, <3>3, SnapshotHolds
  <2>15. timer' \in Nat \cup {None} /\ current' \in Seq(Item)
    BY <1>1, <2>1, <2>12, DeadlineType
  <2>16. RowsAreNewest'
    <3> SUFFICES ASSUME NEW i \in Identities
                 PROVE  /\ rows'[i].event # None =>
                              /\ rows'[i].event.identity = i
                              /\ rows'[i].event.createdAt <= now' + FutureLimit
                        /\ peak'[i] # None =>
                              /\ rows'[i].event # None
                              /\ \/ peak'[i] = rows'[i].event
                                 \/ Newer(rows'[i].event, peak'[i])
      BY DEF RowsAreNewest
    <3>1. rows'[i].event # None =>
             /\ rows'[i].event.identity = i
             /\ rows'[i].event.createdAt <= now' + FutureLimit
      BY <2>1, <2>2 DEF Inv, RowsAreNewest
    <3>2. CASE peak'[i] = before[i] /\ peak'[i] # None
      <4>1. ~rows[i].corrupt /\ before[i] = peak[i] /\ rows'[i].event = rows[i].event
        BY <2>2, <3>2 DEF before
      <4> QED BY <3>1, <3>2, <4>1 DEF Inv, RowsAreNewest
    <3>3. ASSUME NEW e \in admitted', e.identity = i, peak'[i] = e
          PROVE  rows'[i].event # None /\ peak'[i] = rows'[i].event
      BY <2>4, <3>3, EventType
    <3> QED BY <2>13, <3>1, <3>2, <3>3
  <2>17. PolicyIsKept'
    BY <2>1, <2>2 DEF PolicyIsKept, Inv
  <2>18. TypeOK'
    BY <1>0, <1>1, <2>1, <2>3, <2>7, <2>13, <2>15 DEF TypeOK
  <2> QED BY <2>6, <2>14, <2>16, <2>17, <2>18 DEF Inv
<1>14. CASE UNCHANGED vars
  BY <1>14 DEF vars, memory, TypeOK, Inv, RowsAreNewest, PolicyIsKept,
     StoreIsDurable, SnapshotIsCurrent, Selected, Valid
<1> QED BY <1>2, <1>3, <1>6, <1>7, <1>8, <1>9, <1>10, <1>11, <1>12, <1>13, <1>14
    DEF Next

-----------------------------------------------------------------------------
(* The theorems.  An event store whose timeline shows the versions that a     *)
(* newer one replaced (OldVersions) is the subject of a run of its own.       *)

LEMMA InitInv == Init => TypeOK /\ Inv
<1> SUFFICES ASSUME Init PROVE TypeOK /\ Inv
  OBVIOUS
<1>1. MaxList \in Nat /\ MaxTime \in Nat /\ 0 \in 0..MaxList /\ 0 \in 0..MaxTime
  BY SelectionAssumption
<1>2. \A i \in Identities : /\ rows[i] \in Row /\ rows[i].event = None
                            /\ ~rows[i].unsignedConsent /\ peak[i] = None
  BY DEF Init, Row
<1>3. rows \in [Identities -> Row]
  BY <1>2 DEF Init
<1>4. lists \in [Identities -> 0..MaxList] /\ peak \in [Identities -> Events \cup {None}]
  BY <1>1 DEF Init
<1>5. TypeOK
  <2>1. order \in Seq(Identities) /\ current \in Seq(Item)
    BY DEF Init
  <2>2. up \in BOOLEAN /\ admitted \subseteq Events
    BY Zenon DEF Init
  <2> QED BY <1>1, <1>3, <1>4, <2>1, <2>2 DEF Init, TypeOK
<1>6. RowsAreNewest /\ PolicyIsKept
  BY <1>2 DEF Init, RowsAreNewest, PolicyIsKept
<1>7. StoreIsDurable /\ SnapshotIsCurrent
  BY DEF Init, StoreIsDurable, SnapshotIsCurrent
<1> QED BY <1>5, <1>6, <1>7 DEF Inv

LEMMA Invariance == ~OldVersions => (Spec => [](TypeOK /\ Inv))
<1> SUFFICES ASSUME ~OldVersions PROVE Spec => [](TypeOK /\ Inv)
  OBVIOUS
<1>1. TypeOK /\ Inv /\ [Next]_vars => (TypeOK /\ Inv)'
  BY InvInductive
<1> QED BY InitInv, <1>1, PTL DEF Spec

\* Type correctness of selection.ts's state and of the identity_state rows.
THEOREM TypeCorrect == ~OldVersions => (Spec => []TypeOK)
<1> SUFFICES ASSUME ~OldVersions PROVE Spec => []TypeOK
  OBVIOUS
<1>1. Spec => [](TypeOK /\ Inv)
  BY Invariance
<1> QED BY <1>1, PTL

\* No identity goes back to an older publication than one it has served,
\* whatever the relays deliver, whatever expires and however often the process
\* restarts, as long as its row in identity_state was not lost.
THEOREM NoRollback == ~OldVersions => (Spec => []NeverRollsBack)
<1> SUFFICES ASSUME ~OldVersions PROVE Spec => []NeverRollsBack
  OBVIOUS
<1>1. Spec => [](TypeOK /\ Inv)
  BY Invariance
<1>2. TypeOK /\ Inv => NeverRollsBack
  BY DEF Inv, SnapshotIsCurrent, NeverRollsBack
<1> QED BY <1>1, <1>2, PTL

\* StateRepository.accept keeps signed history: an identity accepted with
\* signing keys serves an unsigned publication only after a consent, over
\* lost rows, crashes between the transaction and the event store, and restarts.
THEOREM DowngradesAreAllowed == ~OldVersions => (Spec => []NoSilentDowngrade)
<1> SUFFICES ASSUME ~OldVersions PROVE Spec => []NoSilentDowngrade
  OBVIOUS
<1>1. Spec => [](TypeOK /\ Inv)
  BY Invariance
<1>2. TypeOK /\ Inv => NoSilentDowngrade
  <2> SUFFICES ASSUME TypeOK, Inv, up, NEW e \in Selected,
                      e.identity \in keyed, ~e.signed
               PROVE  e.identity \in granted
    BY DEF NoSilentDowngrade
  <2>1. e \in admitted /\ e \in Events
    BY DEF Inv, SnapshotIsCurrent, TypeOK
  <2>2. e.identity \in Identities /\ rows[e.identity].event = e /\ e # None
    BY <2>1, SelectionAssumption DEF Inv, StoreIsDurable
  <2> QED BY <2>2 DEF Inv, PolicyIsKept
<1> QED BY <1>1, <1>2, PTL

\* While the selector of selection.ts runs, its snapshot is what identity_state
\* says: each layer is a committed row with the newest server list of its
\* publisher, every valid row of a configured cache has its layer, and the
\* layers follow the precedence.
THEOREM SnapshotAgrees == ~OldVersions => (Spec => []SelectionIsDurable)
<1> SUFFICES ASSUME ~OldVersions PROVE Spec => []SelectionIsDurable
  OBVIOUS
<1>1. Spec => [](TypeOK /\ Inv)
  BY Invariance
<1>2. TypeOK /\ Inv => SelectionIsDurable
  <2> SUFFICES ASSUME TypeOK, Inv, up PROVE SelectionIsDurable
    BY DEF SelectionIsDurable
  <2>1. \A e \in Selected : rows[e.identity].event = e
    BY DEF Inv, SnapshotIsCurrent, StoreIsDurable
  <2>2. \A i \in ToSet(Configured) :
           rows[i].event # None /\ Valid(rows[i].event, now)
           => rows[i].event \in Selected
    BY DEF Inv, SnapshotIsCurrent, StoreIsDurable
  <2> QED BY <2>1, <2>2 DEF Inv, SnapshotIsCurrent, SelectionIsDurable
<1> QED BY <1>1, <1>2, PTL

=============================================================================
