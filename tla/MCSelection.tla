---------------------------- MODULE MCSelection ----------------------------
(* Small instances of the selection for TLC. *)
EXTENDS Selection

CONSTANTS a, own

Ev(i, at, n, keys, until) ==
    [identity |-> i, createdAt |-> at, id |-> n, signed |-> keys,
     expires |-> until]

\* Of cache a: an unsigned and a signed one of the same second, a later one that
\* expires first, and an unsigned one from the future.  Of the own cache: two with expirations.
Feed == {Ev(a, 1, 2, FALSE, None), Ev(a, 1, 1, TRUE, 4),
         Ev(a, 2, 3, TRUE, 3), Ev(a, 3, 4, FALSE, None),
         Ev(own, 1, 5, FALSE, 2), Ev(own, 2, 6, FALSE, 4)}

\* The own cache is also configured, behind the other.
Order == <<a, own>>
=============================================================================
