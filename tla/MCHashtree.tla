----------------------------- MODULE MCHashtree ------------------------------
(* Small trees for TLC: two or three entries at the root, a directory that  *)
(* needs up to three levels, and files of zero, one, three and five chunks. *)
EXTENDS Hashtree

CONSTANTS c1, c2, c3

ChunkSizes == (c1 :> 2) @@ (c2 :> 2) @@ (c3 :> 1)

\* Name 5 is the directory; with MaxLinks = 2 its five files need three levels.
DeepContent ==
    (<<1>> :> <<>>) @@ (<<5, 1>> :> <<c3>>) @@ (<<5, 2>> :> <<c1, c2, c3>>) @@
    (<<5, 3>> :> <<c1, c1, c2, c2, c3>>) @@ (<<5, 4>> :> <<c2>>) @@
    (<<5, 6>> :> <<c1, c3>>) @@ (<<7>> :> <<c3>>)
=============================================================================
