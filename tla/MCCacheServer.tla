----------------------------- MODULE MCCacheServer -----------------------------
(* Small instances of CacheServer. *)
EXTENDS CacheServer

CONSTANTS c1, c2, c3

\* The request of c1 arrives in two segments, the others' in one.
Segments == [c \in Clients |-> IF c = c1 THEN 2 ELSE 1]
===============================================================================
