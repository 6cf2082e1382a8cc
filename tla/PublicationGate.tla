--------------------------- MODULE PublicationGate ---------------------------
(***************************************************************************)
(* What the publication loop promises to a reader of the cache.  Servers   *)
(* gain blobs; an event is announced only when one server it names stores  *)
(* the whole announced tree; the daemon selects only what it announced.    *)
(* Publication implements this specification (Publication!Gate).           *)
(***************************************************************************)
CONSTANTS
  Servers,  \* Blossom servers
  Hashes,   \* blob hashes
  Tree,     \* Tree[g]: blobs of generation g
  None      \* no selection

VARIABLES
  held,       \* blobs each server stores
  announced,  \* events handed to relays
  selected    \* the daemon's own selection

gateVars == <<held, announced, selected>>

GateInit ==
  /\ held = [s \in Servers |-> {}]
  /\ announced = {}
  /\ selected = None

\* An event has fields gen (what it announces) and dest (the servers it names).
Available(e) == \E s \in e.dest : Tree[e.gen] \subseteq held[s]

\* A server stores one more blob; servers are assumed to keep what they store.
Store(s, h) ==
  /\ held' = [held EXCEPT ![s] = @ \cup {h}]
  /\ UNCHANGED <<announced, selected>>

Announce(e) ==
  /\ Available(e)
  /\ announced' = announced \cup {e}
  /\ UNCHANGED <<held, selected>>

\* The selection moves to an announced event, or is lost (expiry, restart).
Select ==
  /\ selected' \in announced \cup {None}
  /\ UNCHANGED <<held, announced>>

GateNext ==
  \/ \E s \in Servers, h \in Hashes : Store(s, h)
  \/ \E e \in announced' : Announce(e)
  \/ Select

GateSpec == GateInit /\ [][GateNext]_gateVars
=============================================================================
