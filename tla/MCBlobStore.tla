----------------------------- MODULE MCBlobStore -----------------------------
(* Small instances of the blob store for TLC. *)
EXTENDS BlobStore, TLC

CONSTANTS small, large, route, ownerU, ownerW, t1, t2

\* One small and one large blob: a download of either needs an eviction.
TwoSizes == (small :> 1) @@ (large :> 2)

\* The route's NAR is the large blob.
OneRoute == (route :> {large})
=============================================================================
