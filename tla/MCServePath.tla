---------------------------- MODULE MCServePath ----------------------------
(* Small instances of the serving side for TLC. *)
EXTENDS ServePath, TLC

CONSTANTS pathP, pathQ, narP, narQ, narX, pubA, pubB

\* Nobody has the NAR narX.
OwnNar == (pathP :> narP) @@ (pathQ :> narQ)

\* Both publications have pathQ, only pubB has pathP.
Trees == (pubA :> {pathQ}) @@ (pubB :> {pathP, pathQ})

\* The operator's precedence, and a selection in which pubA expired.
Layers == {<<pubA, pubB>>, <<pubB>>}

\* The overlay begins with pathP; pathQ is committed.
Grows == <<{pathP}, {pathP, pathQ}>>
=============================================================================
