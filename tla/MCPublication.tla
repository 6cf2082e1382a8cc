---------------------------- MODULE MCPublication ----------------------------
(* Small instances of the publication loop for TLC. *)
EXTENDS Publication

CONSTANTS s1, s2, r1, r2, h1, h2

\* Generation 2 extends generation 1, as an overlay that gains a store path.
GrowingTree == <<{h1}, {h1, h2}>>

\* Generation 2 restores the root of generation 1.
RepeatedTree == <<{h1}, {h1}>>
=============================================================================
