---------------------------- MODULE MCSharedCache ----------------------------
(* Small instances of SharedCache. *)
EXTENDS SharedCache, TLC

CONSTANTS k1, k2, k3, v1, v2, w1, w2

\* k1 is at home in slot 0, k2 in slot 1; the hash of k3 is the last
\* std::size_t, so its second probe wraps to the slot of the first.  Word is
\* not a multiple of N, as 2^64 is not one of 3000.
Homes == [k \in Keys |-> IF k = k1 THEN 0 ELSE IF k = k2 THEN 1 ELSE 4]
WordSize == 5
==============================================================================
