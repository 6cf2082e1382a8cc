---------------------------- MODULE MCWritePath ----------------------------
(* Small instances of the write path for TLC. *)
EXTENDS WritePath, TLC

CONSTANTS n1, n2, x, y

\* Path 1 refers to a path of the lower layers, path 2 to path 1 and itself.
Chain == (1 :> {0}) @@ (2 :> {1, 2})
OwnNar == (1 :> n1) @@ (2 :> n2)

\* An earlier process staged the NAR of path 1.
FirstNar == (n1 :> x) @@ (n2 :> None)

\* Path 2 is also offered a text that is no narinfo, path 1 another NAR.
Mixed == {<<<<"info", 1>>, 1>>, <<<<"info", 2>>, 2>>,
          <<<<"info", 2>>, Garbage>>,
          <<<<"nar", n2>>, x>>, <<<<"nar", n1>>, y>>}
=============================================================================
