------------------------------ MODULE Allocator -------------------------------
(***************************************************************************)
(* p1/allocator.cpp: blocks behind each other from the low end of a region *)
(* of memory, references growing down from its high end, and handles that  *)
(* hold the address of a reference, so that defrag can move blocks.        *)
(* A cell has room for one MemoryInfo, one reference or one unit of data;  *)
(* 0 is the null pointer, cell 1 the first behind GeneralMemoryInfo, whose *)
(* three fields are variables.                                             *)
(***************************************************************************)
EXTENDS Integers, FiniteSets, FiniteSetsExt

CONSTANTS Size,     \* cells of the region behind GeneralMemoryInfo
          Word,     \* size_t arithmetic is modulo Word
          Handles,  \* the program's Pointer objects; what it writes through
                    \*   h into every cell of h's block is h itself
          Sizes,    \* the sizes it asks for
          MaxDrift, \* bound of allocated: see ReallocInPlace
          LowZero,  \* the addresses whose lowest byte is zero
          None

ASSUME SizeAssumption == Size \in Nat /\ Word \in Nat /\ Word > 2 * Size
ASSUME InputAssumption == Sizes \subseteq Nat /\ LowZero \subseteq 1..Size
ASSUME NoneAssumption ==
  None \notin Int /\ \A h \in Handles, n \in Sizes : [i \in 1..n |-> h] # None

VARIABLES mem,         \* the cells
          allocated,   \* GeneralMemoryInfo, sizes in cells, without the
          data_end,    \*   24 bytes of GeneralMemoryInfo itself
          begin_ref,
          ptr,         \* ptr[h]: the reference a handle names, 0 for none
          pc,          \* "idle", or "moving" inside defrag
          cur, prev,   \* the locals of defrag; prev = 0: not initialised
          fate         \* "undefined" after a step without a defined effect

vars == <<mem, allocated, data_end, begin_ref, ptr, pc, cur, prev, fate>>
info == <<allocated, data_end, begin_ref>>

Cells == 1..Size
First == 1
End == Size + 1
Header == 1             \* sizeof(MemoryInfo)
Min2(a, b) == IF a < b THEN a ELSE b

\* What a cell holds.  A reference shares its word with MemoryInfo::next; the
\* size read from a cell that is no MemoryInfo is unknown.
Info(next, reference, size) == [next |-> next, reference |-> reference, size |-> size]
Ref(b) == Info(b, 0, None)
Data(h) == Info(h, h, None)
IsInfo(m, b) == b \in Cells /\ m[b].size # None

Live == {h \in Handles : ptr[h] # 0}
Block(h) == mem[ptr[h]].next
SizeAt(b) == mem[b].size

Init ==
  /\ mem = [a \in Cells |-> Ref(0)]
  /\ allocated = 0 /\ data_end = First /\ begin_ref = End
  /\ ptr = [h \in Handles |-> 0]
  /\ pc = "idle" /\ cur = 0 /\ prev = 0 /\ fate = "ok"

------------------------------------------------------------------------------
\* get_next: blocks of size 0 are passed over.  0 when the walk meets a
\* cell that is no MemoryInfo.
GetNext(m, from) ==
  LET skip[c \in 0..End] ==
        IF c >= begin_ref THEN begin_ref
        ELSE IF ~IsInfo(m, c) THEN 0
        ELSE IF m[c].size = 0 THEN skip[m[c].next]
        ELSE c
  IN skip[m[from].next]

\* get_available_ref_space: a freed reference, or a new one below begin_ref.
RefSpaceAtBegin ==
  LET free == {r \in begin_ref..Size : mem[r].next = 0}
  IN IF free = {} THEN Min2(begin_ref, Size) ELSE Max(free)
RefSpace ==
  LET free == {r \in begin_ref..Size : mem[r].next = 0}
  IN IF free = {} THEN begin_ref - 1 ELSE Max(free)

Refused(n) ==
  \/ (begin_ref - First - allocated) % Word < n + Header
  \/ data_end >= RefSpace

FreeDist(b) ==
  (Min2(GetNext(mem, b), RefSpace) - b - SizeAt(b) - Header) % Word

\* The first block with room behind it; End when there is none, 0 when the
\* walk meets a cell that is no MemoryInfo.
FirstFit(n) ==
  LET walk[b \in 0..End] ==
        IF b >= begin_ref THEN End
        ELSE IF ~IsInfo(mem, b) \/ GetNext(mem, b) = 0 THEN 0
        ELSE IF FreeDist(b) >= n + Header THEN b
        ELSE walk[GetNext(mem, b)]
  IN walk[First]

\* Where alloc puts a block of n cells: behind block `after`, which is 0 for
\* the first allocation.
AllocAfter(n) == IF data_end = First THEN 0 ELSE FirstFit(n)
Place(after) == IF after = 0 THEN First ELSE after + Header + SizeAt(after)
Fails(n) == Refused(n) \/ AllocAfter(n) = End
WalksOff(n) == ~Refused(n) /\ data_end # First /\ FirstFit(n) = 0
Outside(n) == ~Fails(n) /\ Place(AllocAfter(n)) + Header + n > End

\* What alloc adds to `allocated`.
Charged(n) == n + Header

\* Memory and totals after alloc has put a block of n cells.
Placed(n) ==
  LET after == AllocAfter(n)
      to == Place(after)
      next == IF after = 0 THEN End ELSE GetNext(mem, after)
      linked == IF after = 0 THEN mem ELSE [mem EXCEPT ![after].next = to]
  IN [mem |-> [linked EXCEPT ![to] = Info(next, RefSpace, n), ![RefSpace] = Ref(to)],
      allocated |-> allocated + Charged(n),
      data_end |-> IF to + n + Header > data_end THEN to + n + Header ELSE data_end,
      begin_ref |-> Min2(begin_ref, RefSpace),
      to |-> to, ref |-> RefSpace]

\* The program writes its data into cells a..b of its block.
Write(m, h, a, b) == [c \in Cells |-> IF c \in a..b THEN Data(h) ELSE m[c]]

Lost ==
  /\ fate' = "undefined"
  /\ UNCHANGED <<mem, info, ptr, pc, cur, prev>>

------------------------------------------------------------------------------
Alloc(h, n) ==
  /\ pc = "idle" /\ fate = "ok" /\ ptr[h] = 0 /\ ~Fails(n)
  /\ IF WalksOff(n) \/ Outside(n) THEN Lost ELSE
     LET new == Placed(n) IN
     /\ mem' = Write(new.mem, h, new.to + Header, new.to + Header + n - 1)
     /\ allocated' = new.allocated /\ data_end' = new.data_end
     /\ begin_ref' = new.begin_ref
     /\ ptr' = [ptr EXCEPT ![h] = new.ref]
     /\ UNCHANGED <<pc, cur, prev, fate>>

\* realloc of a block with room behind it: only its size changes, so `allocated`
\* and the cells the blocks take drift apart for good (at most MaxDrift here).
Extent(h) == Block(h)..(Block(h) + Header + SizeAt(Block(h)) - 1)
Taken == Cardinality(UNION {Extent(h) : h \in Live})
FitsInPlace(b, n) ==
  (Min2(GetNext(mem, b), begin_ref) - b) % Word >= n + Header /\ GetNext(mem, b) # 0

ReallocInPlace(h, n) ==
  LET b == Block(h)
      old == SizeAt(b) IN
  /\ pc = "idle" /\ fate = "ok" /\ h \in Live
  /\ allocated - Taken + old - n \in -MaxDrift..MaxDrift
  /\ FitsInPlace(b, n)
  /\ mem' = Write([mem EXCEPT ![b].size = n], h, b + Header + old, b + Header + n - 1)
  /\ UNCHANGED <<info, ptr, pc, cur, prev, fate>>

\* Otherwise the block moves and keeps its reference.
Moved(h, n) ==
  LET old == Block(h)
      new == Placed(n)
      kept == Min2(new.mem[old].size, n)
      copied == [c \in Cells |-> IF c - new.to - Header \in 0..(kept - 1)
                                 THEN new.mem[c - new.to + old] ELSE new.mem[c]]
  IN [copied EXCEPT ![old].size = 0, ![ptr[h]] = Ref(new.to), ![new.ref] = Ref(0),
                    ![new.to].reference = ptr[h]]

\* What free takes off `allocated` for a block of n cells.
ReleasedTwice(n) == n + 2 * Header
Released(n) == n + Header

ReallocMoves(h, n) ==
  LET b == Block(h)
      old == SizeAt(b) IN
  /\ pc = "idle" /\ fate = "ok" /\ h \in Live /\ ~FitsInPlace(b, n) /\ ~Fails(n)
  /\ IF WalksOff(n) \/ Outside(n) \/ GetNext(mem, b) = 0 THEN Lost ELSE
     LET new == Placed(n) IN
     /\ mem' = Write(Moved(h, n), h, new.to + Header + old, new.to + Header + n - 1)
     /\ allocated' = new.allocated - Released(old)
     /\ data_end' = new.data_end /\ begin_ref' = new.begin_ref
     /\ UNCHANGED <<ptr, pc, cur, prev, fate>>

Free(h) ==
  /\ pc = "idle" /\ fate = "ok" /\ h \in Live
  /\ allocated' = allocated - Released(SizeAt(Block(h)))
  /\ mem' = [mem EXCEPT ![Block(h)].size = 0, ![ptr[h]] = Ref(0)]
  /\ ptr' = [ptr EXCEPT ![h] = 0]
  /\ UNCHANGED <<data_end, begin_ref, pc, cur, prev, fate>>

------------------------------------------------------------------------------
DefragEmpty ==
  /\ pc = "idle" /\ fate = "ok" /\ allocated % Word = 0
  /\ data_end' = First /\ begin_ref' = End
  /\ UNCHANGED <<mem, allocated, ptr, pc, cur, prev, fate>>

Defrag ==
  /\ pc = "idle" /\ fate = "ok" /\ allocated % Word # 0
  /\ LET from == IF SizeAt(First) = 0 THEN GetNext(mem, First) ELSE First IN
     IF from = 0 THEN Lost ELSE
     /\ cur' = from /\ prev' = 0 /\ pc' = "moving" /\ data_end' = First
     /\ UNCHANGED <<mem, allocated, begin_ref, ptr, fate>>

\* The cells memmove takes.
MovedSize(b) == SizeAt(b)
MovedCells(b) == Header + SizeAt(b)

\* memmove of a block to data_end, its reference following it.
MovedDown(b, to) ==
  LET gap == b - to
      shifted == [c \in Cells |-> IF c - to \in 0..(MovedCells(b) - 1) THEN mem[c + gap]
                                  ELSE mem[c]]
  IN [shifted EXCEPT ![mem[b].reference] = Ref(to)]

\* One iteration.  With prev not yet set, prev->next = cur writes to some
\* address: either nothing of the region changes or nothing is known any more.
MoveBlock ==
  LET moves == cur # data_end
      unlinked == IF moves THEN MovedDown(cur, data_end) ELSE mem
      linked == IF moves /\ prev # 0 THEN [unlinked EXCEPT ![prev].next = data_end]
                ELSE unlinked
  IN
  /\ pc = "moving" /\ fate = "ok" /\ cur < begin_ref
  /\ \/ /\ (moves /\ prev = 0) \/ GetNext(linked, data_end) = 0
        /\ Lost
     \/ /\ GetNext(linked, data_end) # 0
        /\ mem' = linked /\ prev' = data_end
        /\ data_end' = data_end + Header + SizeAt(cur)
        /\ cur' = GetNext(linked, data_end)
        /\ UNCHANGED <<allocated, begin_ref, ptr, pc, fate>>

\* References are given back while the first byte of the lowest one is zero.
LooksNull(r) == mem[r].next \in {0} \cup LowZero

TrimUnbounded ==
  /\ pc = "moving" /\ fate = "ok" /\ cur >= begin_ref
  /\ begin_ref' = Min({End + 1} \cup {r \in begin_ref..Size : ~LooksNull(r)})
  /\ pc' = "idle" /\ cur' = 0 /\ prev' = 0
  /\ UNCHANGED <<mem, allocated, data_end, ptr, fate>>
Trim ==
  /\ pc = "moving" /\ fate = "ok" /\ cur >= begin_ref
  /\ begin_ref' = Min({End} \cup {r \in begin_ref..Size : ~LooksNull(r)})
  /\ pc' = "idle" /\ cur' = 0 /\ prev' = 0
  /\ UNCHANGED <<mem, allocated, data_end, ptr, fate>>

Next ==
  \/ \E h \in Handles : Free(h)
  \/ \E h \in Handles, n \in Sizes : Alloc(h, n) \/ ReallocInPlace(h, n) \/ ReallocMoves(h, n)
  \/ DefragEmpty \/ Defrag \/ MoveBlock \/ Trim

Spec == Init /\ [][Next]_vars

\* The steps by which the allocator damages a block that it does not move or free:
\* a reference put into a block, an old one that realloc has enlarged or the new
\* one; a region with blocks taken for an empty one; a reference in use given back.
RefInBlock(n) ==
  \/ \E g \in Live : Block(g) + Header + SizeAt(Block(g)) > RefSpace
  \/ Place(AllocAfter(n)) + Header + n > RefSpace
Misled ==
  \/ \E h \in Handles, n \in Sizes :
       (Alloc(h, n) \/ ReallocMoves(h, n)) /\ fate' = "ok" /\ RefInBlock(n)
  \/ Live # {} /\ DefragEmpty
  \/ Trim /\ \E h \in Live : ptr[h] < begin_ref'

\* The behaviours without such a step.
CarefulSpec == Init /\ [][Next /\ ~Misled]_vars

------------------------------------------------------------------------------
TypeOK ==
  /\ mem \in [Cells -> [next : 0..End \cup Handles, reference : 0..Size \cup Handles,
                       size : 0..Size \cup {None}]]
  /\ allocated \in Int /\ data_end \in First..End /\ begin_ref \in First..End
  /\ ptr \in [Handles -> 0..Size]
  /\ pc \in {"idle", "moving"} /\ fate \in {"ok", "undefined"}

\* Every handle's reference and block name each other, and the blocks lie
\* apart from each other and below the references: the block list that alloc,
\* realloc and defrag walk never leads one of them into another's cells
\* (alloc lines 69-93, defrag lines 153-163).
BlocksApart ==
  fate = "ok" =>
    /\ \A h \in Live :
         /\ ptr[h] >= begin_ref /\ IsInfo(mem, Block(h))
         /\ mem[Block(h)].reference = ptr[h]
         /\ SizeAt(Block(h)) \in Sizes
         /\ Extent(h) \subseteq First..(begin_ref - 1)
    /\ \A g, h \in Live : g # h => Extent(g) \cap Extent(h) = {}

\* alloc, free, a realloc that moves its block and every step of defrag keep what
\* `allocated` counts and the cells of the living blocks in step: only a realloc
\* in place (allocator.cpp:112) makes them drift apart.
TotalsFollow ==
  [][\/ allocated' - Taken' = allocated - Taken
     \/ \E h \in Handles, n \in Sizes : ReallocInPlace(h, n)]_vars

\* Where defrag leaves room for a block and a reference, the next alloc finds it
\* (test DefragAvailable; allocator.cpp:153-166 against :44-75).
Room(n) ==
  /\ (begin_ref - First - allocated) % Word >= n + Header
  /\ data_end + n + Header < begin_ref
DefragMakesRoom ==
  [][Trim => (\A n \in Sizes : Room(n) => ~Fails(n) /\ ~WalksOff(n) /\ ~Outside(n))']_vars

\* The cells behind every handle, moved or not, are those of an abstract heap.
content ==
  [h \in Handles |->
     IF h \in Live THEN [i \in 1..SizeAt(Block(h)) |-> mem[Block(h) + i].next]
     ELSE None]
TheHeap == INSTANCE Heap
ImplementsHeap == TheHeap!Spec

\* isDataOk of allocator_test.cpp:33-42: a block holds what was written to it.
DataIsOk ==
  \A h \in Live :
    IsInfo(mem, Block(h)) /\ \A i \in 1..SizeAt(Block(h)) :
        Block(h) + i \in Cells /\ mem[Block(h) + i] = Data(h)
==============================================================================
