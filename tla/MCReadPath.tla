----------------------------- MODULE MCReadPath ------------------------------
(* Small instances of the read path for TLC. *)
EXTENDS ReadPath

CONSTANTS r1, r2, b, m1, m2, m3, c1, s1, s2

TwoPlans == {<<s1>>, <<s2, s1>>}

View(k1, k2, k) ==
    [come |-> Requests, asks |-> (r1 :> k1) @@ (r2 :> k2), base |-> k]

\* Two requests share a tree and a plan, share the tree only, or read two trees
\* with a common chunk; a build materializes the empty tree both read, or the
\* tree that the only request reads, from other sources.
SomeViews ==
    {View(<<m1, <<s1>> >>, <<m1, <<s1>> >>, None),
     View(<<m1, <<s1>> >>, <<m1, <<s2, s1>> >>, None),
     View(<<m1, <<s1>> >>, <<m2, <<s1>> >>, None),
     View(<<m3, <<s1>> >>, <<m3, <<s1>> >>, <<m3, <<s1>> >>),
     [View(<<m1, <<s1>> >>, <<m1, <<s1>> >>, <<m1, <<s2, s1>> >>)
         EXCEPT !.come = {r1}]}

OneChunk == [m \in Manifests |-> IF m = m3 THEN <<>> ELSE <<c1>>]
Bytes == [m \in Manifests |-> IF m = m1 THEN 1 ELSE 2]
=============================================================================
