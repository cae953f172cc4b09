-------------------------------- MODULE Heap ---------------------------------
(***************************************************************************)
(* What the allocator of practice 1 promises (the tests' writeTo and       *)
(* isDataOk): a program's handles name blocks of the requested sizes, and  *)
(* what the program wrote into a block stays there, whatever is done to    *)
(* other blocks and wherever the block is moved.                           *)
(***************************************************************************)
EXTENDS Naturals

CONSTANTS Handles,  \* the Pointer objects of the program; it writes h into
                    \*   every cell of the block of h
          Sizes,    \* the sizes it asks for
          None      \* an empty Pointer

VARIABLE content    \* content[h]: the cells of the block of h, or None

Filled(h, n) == [i \in 1..n |-> h]

Init == content = [h \in Handles |-> None]

\* alloc or realloc succeed, or realloc of a block that stays where it is.
Obtain(h, n) == content' = [content EXCEPT ![h] = Filled(h, n)]

Free(h) ==
  /\ content[h] # None
  /\ content' = [content EXCEPT ![h] = None]

Next == \E h \in Handles : Free(h) \/ \E n \in Sizes : Obtain(h, n)

Spec == Init /\ [][Next]_content
==============================================================================
