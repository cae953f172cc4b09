----------------------------- MODULE MCAllocator ------------------------------
(* Small instances of Allocator. *)
EXTENDS Allocator, TLC

CONSTANTS h1, h2, h3

Symmetry == Permutations(Handles)
==============================================================================
