----------------------- MODULE MCSharedCacheRefinement -----------------------
(* A small instance of SharedCacheRefinement. *)
EXTENDS SharedCacheRefinement, TLC

CONSTANTS k1, k2, k3, v1, v2, w1, w2

\* k1 is at home in slot 0 and k2 in slot 1.
Homes == [k \in Keys |-> IF k = k2 THEN 1 ELSE 0]
==============================================================================
