---------------------------- MODULE AllocatorProofs ----------------------------
(***************************************************************************)
(* Proofs about Allocator for every region, set of handles and sizes above *)
(* 0 (get_next takes an empty block for a free one), over CarefulSpec:     *)
(* every behaviour of the code, blocks enlarged where they lie, totals     *)
(* that have drifted and addresses with a zero low byte included, up to    *)
(* the first step by which the allocator itself damages a block (Misled).  *)
(* The invariant names the list of blocks that get_next walks; the lemmas  *)
(* follow it through alloc, both kinds of realloc, free and defrag.        *)
(***************************************************************************)
EXTENDS Allocator, TLAPS, FiniteSetTheorems

Cell == [next : 0 .. End \cup Handles, reference : 0 .. Size \cup Handles,
         size : 0 .. Size \cup {None}]

\* A MemoryInfo points behind itself.
Forward(m) == \A c \in Cells : m[c].size # None => m[c].next \in c + 1 .. End

--------------------------------------------------------------------------------
(* Lemmas about bounded sets of numbers and functions that recur upwards *)

LEMMA MinExists ==
  ASSUME NEW T, T \subseteq Nat, T # {}
  PROVE  \E x \in T : \A y \in T : x <= y
<1> DEFINE Less == OpToRel(<, Nat)
<1>1. PICK x \in T : \A y \in T : ~ (<<y, x>> \in Less)
  <2>1. IsWellFoundedOn(Less, Nat)
    BY NatLessThanWellFounded
  <2> HIDE DEF Less
  <2> QED
    BY <2>1, WFMin
<1>2. \A y \in T : <<y, x>> \in Less <=> y < x
  <2>1. \A y \in T : <<y, x>> \in Nat \X Nat
    OBVIOUS
  <2> QED
    BY <2>1 DEF OpToRel
<1> HIDE DEF Less
<1>3. \A y \in T : ~ (y < x)
  BY <1>1, <1>2, Zenon
<1> QED
  BY <1>3

LEMMA MinIs ==
  ASSUME NEW T, T \subseteq Nat, T # {}
  PROVE  Min(T) \in T /\ \A y \in T : Min(T) <= y
BY MinExists DEF Min

LEMMA MaxExists ==
  ASSUME NEW N \in Nat, NEW T, T \subseteq 0 .. N, T # {}
  PROVE  \E x \in T : \A y \in T : x >= y
<1> DEFINE U == {k \in Nat : N - k \in T}
<1>1. U # {}
  <2>1. PICK t \in T : TRUE
    OBVIOUS
  <2>2. N - t \in Nat /\ N - (N - t) = t
    OBVIOUS
  <2> QED
    BY <2>1, <2>2
<1>2. PICK k \in U : \A l \in U : k <= l
  BY <1>1, MinExists
<1>3. ASSUME NEW y \in T PROVE N - k >= y
  <2>1. N - y \in Nat /\ N - (N - y) = y
    OBVIOUS
  <2>2. k <= N - y
    BY <1>2, <2>1
  <2> QED
    BY <2>2
<1> QED
  BY <1>2, <1>3

LEMMA MaxIs ==
  ASSUME NEW N \in Nat, NEW T, T \subseteq 0 .. N, T # {}
  PROVE  Max(T) \in T
BY MaxExists DEF Max

\* Induction from N down to 0.
LEMMA Downwards ==
  ASSUME NEW N \in Nat, NEW T, \A c \in 0 .. N : (\A d \in c + 1 .. N : d \in T) => c \in T
  PROVE  \A c \in 0 .. N : c \in T
<1> DEFINE U == {c \in 0 .. N : c \notin T}
<1> SUFFICES ASSUME U # {} PROVE FALSE
  OBVIOUS
<1>1. PICK c \in U : \A d \in U : c >= d
  BY MaxExists
<1>2. \A d \in c + 1 .. N : d \in T
  BY <1>1
<1> QED
  BY <1>1, <1>2

\* What a function that recurs upwards yields for c.
Along(f, S, v, nx, c) == IF c \in S THEN v[c] ELSE f[nx[c]]
Recurs(N, f, S, v, nx) == f = [c \in 0 .. N |-> Along(f, S, v, nx, c)]

LEMMA RecursionExists ==
  ASSUME NEW N \in Nat, NEW S, NEW v, NEW nx,
         \A c \in 0 .. N : c \notin S => nx[c] \in c + 1 .. N
  PROVE  \E f : Recurs(N, f, S, v, nx)
<1> DEFINE From(f, k) == /\ f = [c \in 0 .. N |-> f[c]]
                         /\ \A c \in k .. N : f[c] = Along(f, S, v, nx, c)
           T == {k \in 0 .. N : \E f : From(f, k)}
<1>1. ASSUME NEW k \in 0 .. N, \A d \in k + 1 .. N : d \in T PROVE k \in T
  <2>1. \E f : From(f, k + 1)
    <3>1. CASE k = N
      <4> DEFINE z == [c \in 0 .. N |-> 0]
      <4>1. z = [c \in 0 .. N |-> z[c]] /\ k + 1 .. N = {}
        BY <3>1
      <4>2. From(z, k + 1)
        <5> HIDE DEF z
        <5> QED
          BY <4>1
      <4> QED
        BY <4>2
    <3>2. CASE k # N
      <4>1. k + 1 \in k + 1 .. N
        BY <3>2
      <4>2. k + 1 \in T
        BY <4>1, <1>1
      <4> QED
        BY <4>2
    <3> QED
      BY <3>1, <3>2
  <2>2. PICK f : From(f, k + 1)
    BY <2>1
  <2> DEFINE a == Along(f, S, v, nx, k)
             g == [c \in 0 .. N |-> IF c = k THEN a ELSE f[c]]
  <2>3. g = [c \in 0 .. N |-> g[c]]
    OBVIOUS
  <2>4. ASSUME NEW c \in k .. N PROVE g[c] = Along(g, S, v, nx, c)
    <3>1. c \notin S => nx[c] \in 0 .. N /\ nx[c] # k /\ nx[c] # c
      OBVIOUS
    <3>2. c \notin S => g[nx[c]] = f[nx[c]]
      BY <3>1
    <3>3. Along(g, S, v, nx, c) = Along(f, S, v, nx, c)
      BY <3>2 DEF Along
    <3>4. CASE c = k
      BY <3>3, <3>4
    <3>5. CASE c # k
      <4>1. c \in k + 1 .. N /\ c \in 0 .. N
        BY <3>5
      <4>2. f[c] = Along(f, S, v, nx, c)
        BY <4>1, <2>2
      <4>3. g[c] = f[c]
        BY <3>5, <4>1
      <4> QED
        BY <4>2, <4>3, <3>3
    <3> QED
      BY <3>4, <3>5
  <2> HIDE DEF g
  <2> QED
    BY <2>3, <2>4
<1>2. 0 \in T
  <2> HIDE DEF T
  <2>1. \A c \in 0 .. N : c \in T
    BY <1>1, Downwards
  <2> QED
    BY <2>1
<1>3. PICK f : From(f, 0)
  BY <1>2
<1>4. f = [c \in 0 .. N |-> Along(f, S, v, nx, c)]
  BY <1>3
<1> QED
  BY <1>4 DEF Recurs

--------------------------------------------------------------------------------
(* get_next *)

\* L is the block list of memory m below br: it starts at First, no block
\* reaches into the next one, and a block points to the next one, past the end
\* of the list or to a cell at which the walk stops.
List(m, br, L) ==
  /\ First \in L /\ L \subseteq First .. br - 1
  /\ \A b \in L : m[b].size \in Nat /\ m[b].next \in b + 1 .. End
  /\ \A b, c \in L : b < c => m[b].next <= c /\ b + Header + m[b].size <= c
  /\ \A b \in L : m[b].next \in L \/ m[b].next >= br \/ m[m[b].next].size = None

SkipStep(m, f, c) ==
  IF c >= begin_ref THEN begin_ref
  ELSE IF ~IsInfo(m, c) THEN 0
  ELSE IF m[c].size = 0 THEN f[m[c].next]
  ELSE c
IsSkip(m, f) == f = [c \in 0 .. End |-> SkipStep(m, f, c)]
Skip(m) == CHOOSE f : IsSkip(m, f)

LEMMA SkipExists ==
  ASSUME NEW m, Forward(m), begin_ref \in First .. End
  PROVE  IsSkip(m, Skip(m))
<1> DEFINE S == {c \in 0 .. End : c >= begin_ref \/ ~ IsInfo(m, c) \/ m[c].size # 0}
           v == [c \in 0 .. End |->
                   IF c >= begin_ref THEN begin_ref ELSE IF ~ IsInfo(m, c) THEN 0 ELSE c]
           nx == [c \in 0 .. End |-> m[c].next]
<1>1. End \in Nat
  BY SizeAssumption DEF End
<1>2. \A c \in 0 .. End : c \notin S => nx[c] \in c + 1 .. End
  BY DEF Forward, IsInfo, Cells
<1>3. PICK f : Recurs(End, f, S, v, nx)
  <2> HIDE DEF S, v, nx
  <2> QED
    BY <1>1, <1>2, RecursionExists, Zenon
<1>4. ASSUME NEW c \in 0 .. End PROVE Along(f, S, v, nx, c) = SkipStep(m, f, c)
  <2>1. CASE c \in S
    BY <2>1 DEF Along, SkipStep
  <2>2. CASE c \notin S
    BY <2>2 DEF Along, SkipStep
  <2> QED
    BY <2>1, <2>2
<1>5. f = [c \in 0 .. End |-> SkipStep(m, f, c)]
  <2> HIDE DEF S, v, nx
  <2>1. [c \in 0 .. End |-> Along(f, S, v, nx, c)] = [c \in 0 .. End |-> SkipStep(m, f, c)]
    BY <1>4
  <2> QED
    BY <1>3, <2>1 DEF Recurs
<1>6. IsSkip(m, f)
  BY <1>5 DEF IsSkip
<1> QED
  BY <1>6 DEF Skip

LEMMA SkipTakes ==
  ASSUME NEW m, Forward(m), begin_ref \in First .. End, NEW c \in 0 .. End
  PROVE  Skip(m)[c] = SkipStep(m, Skip(m), c)
<1> DEFINE f == Skip(m)
<1>1. f = [d \in 0 .. End |-> SkipStep(m, f, d)]
  BY SkipExists DEF IsSkip
<1> HIDE DEF f
<1>2. f[c] = SkipStep(m, f, c)
  BY <1>1
<1> QED
  BY <1>2 DEF f

LEMMA NextIs ==
  ASSUME NEW m, NEW b
  PROVE  GetNext(m, b) = Skip(m)[m[b].next]
BY DEF GetNext, Skip, IsSkip, SkipStep

\* The walk goes upwards and stops at a block, at begin_ref or nowhere.
LEMMA SkipGoesUp ==
  ASSUME NEW m, Forward(m), begin_ref \in First .. End, NEW c \in 0 .. End
  PROVE  LET w == Skip(m)[c] IN
         w = 0 \/ w = begin_ref \/ (w \in c .. begin_ref - 1 /\ IsInfo(m, w) /\ m[w].size # 0)
<1> DEFINE f == Skip(m)
           Up(d) == f[d] = 0 \/ f[d] = begin_ref
                    \/ (f[d] \in d .. begin_ref - 1 /\ IsInfo(m, f[d]) /\ m[f[d]].size # 0)
           T == {d \in 0 .. End : Up(d)}
<1>1. End \in Nat
  BY SizeAssumption DEF End
<1>2. \A d \in 0 .. End : f[d] = SkipStep(m, f, d)
  BY SkipTakes
<1>3. ASSUME NEW d \in 0 .. End, \A e \in d + 1 .. End : e \in T PROVE d \in T
  <2> HIDE DEF f
  <2>1. f[d] = SkipStep(m, f, d)
    BY <1>2
  <2>2. CASE d < begin_ref /\ IsInfo(m, d) /\ m[d].size = 0
    <3>1. f[d] = f[m[d].next]
      BY <2>1, <2>2 DEF SkipStep
    <3>2. m[d].next \in d + 1 .. End
      <4>1. m[d].size # None /\ d \in Cells
        BY <2>2 DEF IsInfo
      <4> QED
        BY <4>1 DEF Forward
    <3>3. Up(m[d].next)
      BY <3>2, <1>3
    <3> QED
      BY <3>1, <3>2, <3>3
  <2>3. CASE ~ (d < begin_ref /\ IsInfo(m, d) /\ m[d].size = 0)
    BY <2>1, <2>3 DEF SkipStep
  <2> QED
    BY <2>2, <2>3
<1>4. c \in T
  <2> HIDE DEF T
  <2>1. \A d \in 0 .. End : d \in T
    BY <1>1, <1>3, Downwards
  <2> QED
    BY <2>1
<1> QED
  BY <1>4

\* Along the block list the walk passes over blocks of size 0 only.
Reaches(m, br, L, c, w) ==
  \/ w = 0
  \/ w = br /\ \A x \in L : c <= x => m[x].size = 0
  \/ /\ w \in L /\ c <= w /\ m[w].size # 0
     /\ \A x \in L : c <= x /\ x < w => m[x].size = 0

LEMMA SkipReaches ==
  ASSUME NEW m, Forward(m), begin_ref \in First .. End, NEW L, List(m, begin_ref, L),
         NEW c \in 0 .. End, c \in L \/ c >= begin_ref \/ m[c].size = None
  PROVE  Reaches(m, begin_ref, L, c, Skip(m)[c])
<1> DEFINE f == Skip(m)
           On(d) == d \in L \/ d >= begin_ref \/ m[d].size = None
           T == {d \in 0 .. End : On(d) => Reaches(m, begin_ref, L, d, f[d])}
<1>1. End \in Nat
  BY SizeAssumption DEF End
<1>2. \A d \in 0 .. End : f[d] = SkipStep(m, f, d)
  BY SkipTakes
<1>3. ASSUME NEW d \in 0 .. End, \A e \in d + 1 .. End : e \in T PROVE d \in T
  <2> HIDE DEF f
  <2> SUFFICES ASSUME On(d) PROVE Reaches(m, begin_ref, L, d, f[d])
    OBVIOUS
  <2>1. f[d] = SkipStep(m, f, d)
    BY <1>2
  <2>2. CASE d >= begin_ref
    <3>1. f[d] = begin_ref
      BY <2>1, <2>2 DEF SkipStep
    <3>2. \A x \in L : x < begin_ref /\ x \in Nat
      BY DEF List, First
    <3> QED
      BY <2>2, <3>1, <3>2 DEF Reaches
  <2>3. CASE d < begin_ref /\ ~ IsInfo(m, d)
    BY <2>1, <2>3 DEF SkipStep, Reaches
  <2>4. CASE d < begin_ref /\ IsInfo(m, d)
    <3>1. d \in L
      BY <2>4 DEF IsInfo
    <3>2. CASE m[d].size # 0
      BY <2>1, <2>4, <3>1, <3>2 DEF SkipStep, Reaches
    <3>3. CASE m[d].size = 0
      <4> DEFINE e == m[d].next
      <4>1. f[d] = f[e]
        BY <2>1, <2>4, <3>3 DEF SkipStep
      <4>2. e \in d + 1 .. End
        BY <3>1, <3>3 DEF List, Header
      <4>3. On(e)
        BY <3>1 DEF List
      <4>4. Reaches(m, begin_ref, L, e, f[e])
        BY <4>2, <4>3, <1>3
      <4>5. \A x \in L : d <= x => m[x].size = 0 \/ e <= x
        <5>1. \A x \in L : d < x => e <= x
          BY <3>1 DEF List
        <5>2. \A x \in L : x \in Nat
          BY DEF List, First
        <5> HIDE DEF e
        <5> QED
          BY <5>1, <5>2, <3>3
      <4>6. \A x \in L : x \in Nat
        BY DEF List, First
      <4> HIDE DEF e
      <4> QED
        BY <4>1, <4>2, <4>4, <4>5, <4>6 DEF Reaches
    <3> QED
      BY <3>2, <3>3
  <2> QED
    BY <2>2, <2>3, <2>4
<1>4. c \in T
  <2> HIDE DEF T
  <2>1. \A d \in 0 .. End : d \in T
    BY <1>1, <1>3, Downwards
  <2> QED
    BY <2>1
<1> QED
  BY <1>4

--------------------------------------------------------------------------------
(* Where alloc puts a block and its reference *)

LEMMA RefSpaceIs ==
  ASSUME begin_ref \in First .. End
  PROVE  \/ RefSpace = begin_ref - 1
         \/ RefSpace \in begin_ref .. Size /\ mem[RefSpace].next = 0
<1> DEFINE free == {r \in begin_ref .. Size : mem[r].next = 0}
<1>1. CASE free = {}
  BY <1>1 DEF RefSpace
<1>2. CASE free # {}
  <2>1. free \subseteq 0 .. Size /\ Size \in Nat
    BY SizeAssumption DEF First
  <2>2. Max(free) \in free
    <3> HIDE DEF free
    <3> QED
      BY <1>2, <2>1, MaxIs
  <2>3. RefSpace = Max(free)
    BY <1>2 DEF RefSpace
  <2> QED
    BY <2>2, <2>3
<1> QED
  BY <1>1, <1>2

FitStep(n, f, b) ==
  IF b >= begin_ref THEN End
  ELSE IF ~IsInfo(mem, b) \/ GetNext(mem, b) = 0 THEN 0
  ELSE IF FreeDist(b) >= n + Header THEN b
  ELSE f[GetNext(mem, b)]
IsFit(n, f) == f = [b \in 0 .. End |-> FitStep(n, f, b)]
Fit(n) == CHOOSE f : IsFit(n, f)

LEMMA FirstFitIs == ASSUME NEW n PROVE FirstFit(n) = Fit(n)[First]
BY DEF FirstFit, Fit, IsFit, FitStep

\* get_next of a block below begin_ref is behind it.
LEMMA NextGoesUp ==
  ASSUME Forward(mem), begin_ref \in First .. End, NEW b \in 0 .. End,
         b < begin_ref, IsInfo(mem, b), GetNext(mem, b) # 0
  PROVE  GetNext(mem, b) \in b + 1 .. End
<1> DEFINE c == mem[b].next
           w == Skip(mem)[c]
<1>1. c \in b + 1 .. End
  BY DEF Forward, IsInfo
<1>2. End \in Nat
  BY SizeAssumption DEF End
<1>3. c \in 0 .. End
  BY <1>1
<1>4. w = 0 \/ w = begin_ref \/ w \in c .. begin_ref - 1
  BY <1>3, SkipGoesUp
<1>5. GetNext(mem, b) = w
  BY NextIs
<1> HIDE DEF c, w
<1> QED
  BY <1>1, <1>2, <1>4, <1>5 DEF First

LEMMA FitExists ==
  ASSUME Forward(mem), begin_ref \in First .. End, NEW n
  PROVE  IsFit(n, Fit(n))
<1> DEFINE S == {b \in 0 .. End : \/ b >= begin_ref \/ ~ IsInfo(mem, b) \/ GetNext(mem, b) = 0
                                \/ FreeDist(b) >= n + Header}
           v == [b \in 0 .. End |->
                   IF b >= begin_ref THEN End
                   ELSE IF ~ IsInfo(mem, b) \/ GetNext(mem, b) = 0 THEN 0 ELSE b]
           nx == [b \in 0 .. End |-> GetNext(mem, b)]
<1>1. End \in Nat
  BY SizeAssumption DEF End
<1>2. ASSUME NEW b \in 0 .. End, b \notin S PROVE nx[b] \in b + 1 .. End
  <2>1. b < begin_ref /\ IsInfo(mem, b) /\ GetNext(mem, b) # 0
    BY <1>2 DEF First, End
  <2> QED
    BY <2>1, NextGoesUp
<1>3. PICK f : Recurs(End, f, S, v, nx)
  <2> HIDE DEF S, v, nx
  <2> QED
    BY <1>1, <1>2, RecursionExists
<1>4. ASSUME NEW b \in 0 .. End PROVE Along(f, S, v, nx, b) = FitStep(n, f, b)
  <2>1. CASE b \in S
    BY <2>1 DEF Along, FitStep
  <2>2. CASE b \notin S
    BY <2>2 DEF Along, FitStep
  <2> QED
    BY <2>1, <2>2
<1>5. f = [b \in 0 .. End |-> FitStep(n, f, b)]
  <2> HIDE DEF S, v, nx
  <2>1. [b \in 0 .. End |-> Along(f, S, v, nx, b)] = [b \in 0 .. End |-> FitStep(n, f, b)]
    BY <1>4
  <2> QED
    BY <1>3, <2>1 DEF Recurs
<1>6. IsFit(n, f)
  BY <1>5 DEF IsFit
<1> QED
  BY <1>6 DEF Fit

\* What get_next finds behind a block of the list.
LEMMA NextReaches ==
  ASSUME NEW m, Forward(m), begin_ref \in First .. End, NEW L, List(m, begin_ref, L),
         NEW b \in L
  PROVE  /\ Reaches(m, begin_ref, L, m[b].next, GetNext(m, b))
         /\ b \in Nat /\ m[b].next \in b + 1 .. End /\ m[b].size \in Nat
         /\ \A c \in L : b < c => b + Header + m[b].size <= c
<1>1. /\ b \in Nat /\ m[b].next \in b + 1 .. End /\ m[b].size \in Nat
      /\ \A c \in L : b < c => b + Header + m[b].size <= c
  BY DEF List, First, Header
<1>2. m[b].next \in L \/ m[b].next >= begin_ref \/ m[m[b].next].size = None
  BY DEF List
<1>3. m[b].next \in 0 .. End
  BY <1>1
<1>4. Reaches(m, begin_ref, L, m[b].next, Skip(m)[m[b].next])
  BY <1>2, <1>3, SkipReaches
<1> QED
  BY <1>1, <1>4, NextIs

LEMMA FitFinds ==
  ASSUME Forward(mem), begin_ref \in First .. End, NEW L, List(mem, begin_ref, L),
         NEW n, NEW c \in 0 .. End, c \in L \/ c >= begin_ref
  PROVE  LET w == Fit(n)[c] IN
         \/ w = 0 \/ w = End
         \/ /\ w \in L /\ GetNext(mem, w) # 0 /\ FreeDist(w) >= n + Header
            /\ w = c \/ mem[w].size # 0
<1> DEFINE f == Fit(n)
           Finds(d) == \/ f[d] = 0 \/ f[d] = End
                       \/ /\ f[d] \in L /\ GetNext(mem, f[d]) # 0 /\ FreeDist(f[d]) >= n + Header
                          /\ f[d] = d \/ mem[f[d]].size # 0
           T == {d \in 0 .. End : d \in L \/ d >= begin_ref => Finds(d)}
<1>1. End \in Nat
  BY SizeAssumption DEF End
<1>2. \A d \in 0 .. End : f[d] = FitStep(n, f, d)
  <2>1. f = [b \in 0 .. End |-> FitStep(n, f, b)]
    BY FitExists DEF IsFit
  <2> HIDE DEF f
  <2> QED
    BY <2>1
<1>3. ASSUME NEW d \in 0 .. End, \A e \in d + 1 .. End : e \in T PROVE d \in T
  <2> HIDE DEF f
  <2> SUFFICES ASSUME d \in L \/ d >= begin_ref PROVE Finds(d)
    OBVIOUS
  <2>1. f[d] = FitStep(n, f, d)
    BY <1>2
  <2>2. CASE d >= begin_ref \/ ~ IsInfo(mem, d) \/ GetNext(mem, d) = 0
    BY <2>1, <2>2 DEF FitStep
  <2>3. CASE d < begin_ref /\ IsInfo(mem, d) /\ GetNext(mem, d) # 0
    <3> DEFINE e == GetNext(mem, d)
    <3>1. d \in L
      BY <2>3
    <3>2. CASE FreeDist(d) >= n + Header
      BY <2>1, <2>3, <3>1, <3>2 DEF FitStep
    <3>3. CASE ~ (FreeDist(d) >= n + Header)
      <4>1. f[d] = f[e]
        BY <2>1, <2>3, <3>3 DEF FitStep
      <4>2. e \in d + 1 .. End
        BY <2>3, NextGoesUp
      <4>3. (e \in L /\ mem[e].size # 0) \/ e >= begin_ref
        <5>1. Reaches(mem, begin_ref, L, mem[d].next, e)
          BY <3>1, NextReaches
        <5> HIDE DEF e
        <5> QED
          BY <5>1, <4>2 DEF Reaches
      <4>4. Finds(e)
        BY <4>2, <4>3, <1>3
      <4> HIDE DEF e
      <4>5. CASE f[e] = e
        <5>1. e \in L \/ f[e] = 0 \/ f[e] = End
          BY <4>4, <4>5
        <5>2. \A x \in L : ~ (x >= begin_ref)
          BY DEF List, First
        <5> QED
          BY <4>1, <4>3, <4>4, <4>5, <5>1, <5>2
      <4>6. CASE f[e] # e
        BY <4>1, <4>4, <4>6
      <4> QED
        BY <4>5, <4>6
    <3> QED
      BY <3>2, <3>3
  <2> QED
    BY <2>2, <2>3 DEF First, End
<1>4. c \in T
  <2> HIDE DEF T
  <2>1. \A d \in 0 .. End : d \in T
    BY <1>1, <1>3, Downwards
  <2> QED
    BY <2>1
<1> QED
  BY <1>4

--------------------------------------------------------------------------------
(* The block list when memory changes *)

\* A change that keeps every next, enlarges no block and creates no MemoryInfo.
ListKeeps(m, m1, br, L) ==
  /\ \A b \in L : m1[b].next = m[b].next /\ m1[b].size \in 0 .. m[b].size
  /\ \A c \in Cells : c \notin L /\ c < br /\ m[c].size = None => m1[c].size = None

LEMMA ListKept ==
  ASSUME NEW m, NEW br \in First .. End, NEW L, List(m, br, L), NEW m1, ListKeeps(m, m1, br, L)
  PROVE  List(m1, br, L)
<1>0. /\ \A b \in L : m1[b].next = m[b].next /\ m1[b].size \in 0 .. m[b].size
      /\ \A c \in Cells : c \notin L /\ c < br /\ m[c].size = None => m1[c].size = None
  BY DEF ListKeeps
<1>1. \A b \in L : b \in First .. br - 1 /\ m[b].size \in Nat /\ m[b].next \in b + 1 .. End
  BY DEF List
<1>2. \A b \in L : m1[b].size \in Nat /\ m1[b].next \in b + 1 .. End
  BY <1>0, <1>1
<1>3. ASSUME NEW b \in L, NEW c \in L, b < c
      PROVE  m1[b].next <= c /\ b + Header + m1[b].size <= c
  <2>1. m[b].next <= c /\ b + Header + m[b].size <= c
    BY <1>3 DEF List
  <2> QED
    BY <1>0, <1>1, <2>1 DEF Header, First
<1>4. ASSUME NEW b \in L PROVE m1[b].next \in L \/ m1[b].next >= br \/ m1[m1[b].next].size = None
  <2> DEFINE e == m[b].next
  <2>1. e \in L \/ e >= br \/ m[e].size = None
    BY DEF List
  <2>2. e \in Nat /\ e > 0
    BY <1>1 DEF First, Header
  <2>3. e < br => e \in Cells
    BY <2>2, SizeAssumption DEF Cells, End
  <2>4. m1[b].next = e
    BY <1>0
  <2> HIDE DEF e
  <2> QED
    BY <1>0, <2>1, <2>2, <2>3, <2>4
<1> QED
  BY <1>2, <1>3, <1>4 DEF List

\* Block `to` of n cells, put between block a and g, which get_next finds behind
\* a; blocks of size 0 between a and g, or at the new reference, leave the list.
Inserted(L, a, to, g, br) == {x \in L : x <= a} \cup {to} \cup {x \in L : g <= x /\ x < br}

LEMMA ListInserted ==
  ASSUME NEW m, NEW br \in First .. End, NEW L, List(m, br, L), NEW m1,
         NEW a \in L, NEW to \in Nat, NEW n \in Nat, NEW g \in Nat, NEW rs \in br - 1 .. Size,
         a + Header + m[a].size <= to, to + Header + n <= g, to + Header + n <= rs,
         NEW br1, br1 = Min2(br, rs), g = br \/ (g \in L /\ g < br1),
         m1[to].size = n, m1[to].next = g, m1[a].size = m[a].size, m1[a].next = to,
         m1[rs].size = None,
         \A c \in Cells : c \notin {a, to, rs} => m1[c] = m[c]
  PROVE  List(m1, br1, Inserted(L, a, to, g, br1))
<1> DEFINE K == Inserted(L, a, to, g, br1)
<1>1. \A b \in L : b \in First .. br - 1 /\ m[b].size \in Nat /\ m[b].next \in b + 1 .. End
                   /\ m[b].size # None
  BY NoneAssumption DEF List
<1>2. \A b, c \in L : b < c => m[b].next <= c /\ b + Header + m[b].size <= c
  BY DEF List
<1>3. \A b \in L : m[b].next \in L \/ m[b].next >= br \/ m[m[b].next].size = None
  BY DEF List
<1>4. /\ br1 <= br /\ br1 <= rs /\ br1 \in Nat /\ First = 1 /\ Header = 1 /\ End = Size + 1
      /\ a < to /\ to < br1 /\ g <= br /\ Size \in Nat /\ br \in 1 .. Size + 1
      /\ br1 = br \/ br1 = rs
  BY <1>1, SizeAssumption DEF Min2, First, End, Header
<1>5. \A b \in L : b \in Nat /\ b >= 1
  BY <1>1, <1>4
<1>6. K \subseteq First .. br1 - 1 /\ First \in K
  <2>1. First \in L
    BY DEF List
  <2>2. First \in K
    BY <1>4, <1>5, <2>1 DEF Inserted
  <2>3. ASSUME NEW x \in K PROVE x \in 1 .. br1 - 1
    <3>1. x = to \/ (x \in L /\ x <= a) \/ (x \in L /\ x < br1)
      BY DEF Inserted
    <3>2. a \in Nat /\ a >= 1 /\ (x \in L => x \in Nat /\ x >= 1)
      BY <1>5
    <3>3. br1 \in Nat /\ to < br1 /\ a < to
      BY <1>4
    <3> HIDE DEF K
    <3> QED
      BY <3>1, <3>2, <3>3
  <2> QED
    BY <1>4, <2>2, <2>3
<1>7. \A b \in K : b = to \/ (b \in L /\ b < a) \/ b = a \/ (b \in L /\ g <= b /\ b < br1)
  BY <1>4, <1>5 DEF Inserted
<1>8. \A b \in L : b < a \/ (g <= b /\ b < br1) => m1[b] = m[b]
  <2> SUFFICES ASSUME NEW b \in L, b < a \/ (g <= b /\ b < br1) PROVE m1[b] = m[b]
    OBVIOUS
  <2>1. b \in Cells
    BY <1>1, <1>4 DEF Cells
  <2>2. b \notin {a, to, rs}
    BY <1>4, <1>5
  <2> QED
    BY <2>1, <2>2
<1>9. \A b \in K : m1[b].size \in Nat /\ m1[b].next \in b + 1 .. End
  <2> SUFFICES ASSUME NEW b \in K PROVE m1[b].size \in Nat /\ m1[b].next \in b + 1 .. End
    OBVIOUS
  <2>1. CASE b = to
    BY <2>1, <1>4
  <2>2. CASE b = a
    BY <2>2, <1>1, <1>4
  <2>3. CASE (b \in L /\ b < a) \/ (b \in L /\ g <= b /\ b < br1)
    BY <2>3, <1>1, <1>8
  <2> QED
    BY <2>1, <2>2, <2>3, <1>7
<1>10. ASSUME NEW b \in K, NEW c \in K, b < c
       PROVE  m1[b].next <= c /\ b + Header + m1[b].size <= c
  <2>1. CASE b = to
    <3>1. c \in L /\ g <= c /\ c \in Nat
      BY <2>1, <1>4, <1>5, <1>7, <1>10
    <3> QED
      BY <2>1, <3>1, <1>4
  <2>2. CASE b = a
    <3>1. to <= c /\ c \in Nat
      BY <2>2, <1>4, <1>5, <1>7, <1>10
    <3> QED
      BY <2>2, <3>1, <1>1, <1>4
  <2>3. CASE b \in L /\ b < a
    <3>1. m1[b].next <= a /\ m1[b].next \in Nat /\ b + Header + m1[b].size <= a /\ m1[b].size \in Nat
      BY <2>3, <1>1, <1>2, <1>4, <1>5, <1>8
    <3>2. CASE c \in L
      BY <2>3, <3>2, <1>2, <1>8, <1>10
    <3>3. CASE c = to
      BY <2>3, <3>1, <3>3, <1>4, <1>5
    <3> QED
      BY <3>2, <3>3, <1>7
  <2>4. CASE b \in L /\ g <= b /\ b < br1
    <3>1. c \in L
      BY <2>4, <1>4, <1>5, <1>7, <1>10
    <3> QED
      BY <2>4, <3>1, <1>2, <1>8, <1>10
  <2> QED
    BY <2>1, <2>2, <2>3, <2>4, <1>7
<1>11. ASSUME NEW b \in K
       PROVE  m1[b].next \in K \/ m1[b].next >= br1 \/ m1[m1[b].next].size = None
  <2> DEFINE e == m[b].next
  <2>1. CASE b = to
    BY <2>1, <1>4, <1>5 DEF Inserted
  <2>2. CASE b = a
    BY <2>2 DEF Inserted
  <2>3. CASE b \in L /\ b < a
    <3>1. e <= a /\ e \in Nat /\ e > 0
      BY <2>3, <1>1, <1>2, <1>4
    <3>2. m1[b].next = e
      BY <2>3, <1>8
    <3>3. e \in L \/ m[e].size = None
      BY <2>3, <3>1, <1>1, <1>3, <1>4
    <3>4. e \in L => e \in K
      BY <3>1 DEF Inserted
    <3>5. m[e].size = None => m1[e].size = None
      <4>1. SUFFICES ASSUME m[e].size = None PROVE m1[e] = m[e]
        OBVIOUS
      <4>2. e # a
        BY <4>1, <1>1
      <4>3. e \notin {a, to, rs} /\ e \in Cells
        BY <3>1, <4>2, <1>4, <1>5 DEF Cells
      <4> QED
        BY <4>3
    <3> QED
      BY <3>2, <3>3, <3>4, <3>5
  <2>4. CASE b \in L /\ g <= b /\ b < br1
    <3>1. e > b /\ e \in Nat
      BY <2>4, <1>1, <1>4
    <3>2. m1[b].next = e
      BY <2>4, <1>8
    <3>3. e \in L /\ e < br1 => e \in K
      BY <2>4, <3>1, <1>5 DEF Inserted
    <3>4. m[e].size = None /\ e < br1 => m1[e].size = None
      <4>1. SUFFICES ASSUME m[e].size = None, e < br1 PROVE m1[e] = m[e]
        OBVIOUS
      <4>2. e \notin {a, to, rs} /\ e \in Cells
        BY <2>4, <3>1, <4>1, <1>4, <1>5 DEF Cells
      <4> QED
        BY <4>2
    <3>5. e \in L \/ e >= br \/ m[e].size = None
      BY <2>4, <1>3
    <3> QED
      BY <3>1, <3>2, <3>3, <3>4, <3>5, <1>4
  <2> QED
    BY <2>1, <2>2, <2>3, <2>4, <1>7
<1> QED
  BY <1>6, <1>9, <1>10, <1>11 DEF List

--------------------------------------------------------------------------------
(* The inductive invariant *)

\* Nobody asks for an empty block: get_next could not tell it from a free one.
Usable == \A n \in Sizes : n > 0

\* A reference is free or that of a handle.
Refs(m, br, p) ==
  \A r \in br .. Size : m[r].size = None /\ (m[r].next = 0 \/ \E h \in Handles : p[h] = r)

\* The reference r is that of handle h, and a block of the list is h's.
Owns(m, br, r, L, h) ==
  LET b == m[r].next
      n == m[b].size IN
  /\ r \in br .. Size /\ b \in L /\ m[b].reference = r
  /\ n \in Sizes /\ b + Header + n <= br
  /\ \A i \in 1 .. n : m[b + i] = Data(h)

Owned(m, br, p, L) ==
  /\ \A h \in Handles : p[h] # 0 => Owns(m, br, p[h], L, h)
  /\ \A g, h \in Handles : p[g] # 0 /\ p[g] = p[h] => g = h
  /\ \A b \in L : m[b].size # 0 => \E h \in Handles : p[h] # 0 /\ m[p[h]].next = b

Below(m, L, top) == \A b \in L : m[b].size # 0 => b + Header + m[b].size <= top

Types ==
  /\ mem \in [Cells -> Cell] /\ Forward(mem) /\ ptr \in [Handles -> 0 .. Size]
  /\ allocated \in Int /\ data_end \in First .. End /\ begin_ref \in First .. End
  /\ pc \in {"idle", "moving"} /\ fate \in {"ok", "undefined"}

Blocks(L) == List(mem, begin_ref, L) /\ Owned(mem, begin_ref, ptr, L)

\* Outside defrag: the region is as after init, or has a block list.
Fresh == data_end = First /\ begin_ref = End /\ \A h \in Handles : ptr[h] = 0
Idle ==
  \/ Fresh /\ allocated % Word = 0
  \/ (Fresh \/ data_end > First) /\ \E L \in SUBSET Cells : Blocks(L)

\* Inside defrag: between the block moved last and the next one all are empty.
Moving(L) ==
  /\ cur >= begin_ref \/ (cur \in L /\ mem[cur].size # 0)
  /\ cur \in Nat /\ prev \in Nat /\ prev < cur
  /\ \A b \in L : prev < b /\ b < cur => mem[b].size = 0
  /\ \/ prev = 0 /\ data_end = First
     \/ prev \in L /\ mem[prev].size # 0 /\ data_end = prev + Header + mem[prev].size

Sound ==
  /\ data_end <= begin_ref /\ Refs(mem, begin_ref, ptr)
  /\ pc = "idle" => Idle
  /\ pc = "moving" => \E L \in SUBSET Cells : Blocks(L) /\ Moving(L)

IInv == Types /\ (fate = "ok" => Sound)

--------------------------------------------------------------------------------
(* A new block *)

LEMMA Numbers ==
  /\ Size \in Nat /\ Word \in Nat /\ Word > 2 * Size /\ Sizes \subseteq Nat /\ None \notin Int
  /\ First = 1 /\ Header = 1 /\ End = Size + 1 /\ Cells = 1 .. Size
BY SizeAssumption, InputAssumption, NoneAssumption DEF First, Header, End, Cells

LEMMA SetNext ==
  ASSUME NEW r \in Cell, NEW t \in 0 .. End
  PROVE  LET q == [r EXCEPT !.next = t] IN
         q \in Cell /\ q.next = t /\ q.size = r.size /\ q.reference = r.reference
BY DEF Cell

\* The memory after alloc has put a block behind `after`.
LEMMA PlacedCells ==
  ASSUME mem \in [Cells -> Cell], NEW n \in 0 .. Size,
         NEW a, a = AllocAfter(n), NEW to \in Cells, to = Place(a),
         NEW rs \in Cells, rs = RefSpace, to # rs,
         NEW g \in 0 .. End, g = IF a = 0 THEN End ELSE GetNext(mem, a),
         a = 0 \/ (a \in Cells /\ a # to /\ a # rs)
  PROVE  LET m1 == Placed(n).mem IN
         /\ m1 \in [Cells -> Cell] /\ m1[to] = Info(g, rs, n) /\ m1[rs] = Ref(to)
         /\ a # 0 => m1[a].next = to /\ m1[a].size = mem[a].size /\ m1[a].reference = mem[a].reference
         /\ \A c \in Cells : c \notin {a, to, rs} => m1[c] = mem[c]
<1> DEFINE link == IF a = 0 THEN mem ELSE [mem EXCEPT ![a].next = to]
           m1 == [link EXCEPT ![to] = Info(g, rs, n), ![rs] = Ref(to)]
<1>1. Placed(n).mem = m1
  BY Zenon DEF Placed
<1>2. Info(g, rs, n) \in Cell /\ Ref(to) \in Cell /\ to \in 0 .. End
  BY Numbers DEF Info, Ref, Cell
<1>3. /\ link \in [Cells -> Cell]
      /\ a # 0 => link[a].next = to /\ link[a].size = mem[a].size /\ link[a].reference = mem[a].reference
      /\ \A c \in Cells : c # a => link[c] = mem[c]
  <2>1. CASE a = 0
    BY <2>1
  <2>2. CASE a # 0
    <3> DEFINE q == [mem[a] EXCEPT !.next = to]
    <3>1. q \in Cell /\ q.next = to /\ q.size = mem[a].size /\ q.reference = mem[a].reference
      BY <2>2, <1>2, SetNext
    <3>2. link = [mem EXCEPT ![a] = q]
      BY <2>2
    <3> HIDE DEF q, link
    <3> QED
      BY <2>2, <3>1, <3>2
  <2> QED
    BY <2>1, <2>2
<1> HIDE DEF link
<1> QED
  BY <1>1, <1>2, <1>3

LEMMA ForwardKept ==
  ASSUME NEW m, Forward(m), NEW m1,
         \A c \in Cells : \/ m1[c].size = None
                          \/ m1[c].next \in c + 1 .. End
                          \/ m1[c] = m[c]
  PROVE  Forward(m1)
BY DEF Forward

LEMMA ModSmall == ASSUME NEW w \in Nat, NEW x \in Nat, x < w PROVE x % w = x
OBVIOUS

\* first_fit leaves room between a block and what get_next finds behind it.
LEMMA GapFound ==
  ASSUME Usable, Types, data_end <= begin_ref, NEW n \in Sizes, NEW L,
         Blocks(L), Below(mem, L, RefSpace), data_end > First, ~ Fails(n), ~ WalksOff(n),
         NEW a, a = AllocAfter(n), NEW g, g = GetNext(mem, a), NEW rs, rs = RefSpace
  PROVE  /\ a \in L /\ rs \in begin_ref - 1 .. Size /\ data_end < rs
         /\ a + Header + mem[a].size + Header + n <= g
         /\ a + Header + mem[a].size + Header + n <= rs
         /\ g = begin_ref \/ (g \in L /\ g < rs)
         /\ \A x \in L : a < x /\ x < g => mem[x].size = 0
<1> USE Numbers
<1>1. /\ data_end \in Nat /\ begin_ref \in 1 .. Size + 1 /\ Forward(mem)
      /\ begin_ref \in First .. End /\ n \in Nat /\ First # 0
  BY DEF Types
<1>2. rs \in begin_ref - 1 .. Size /\ data_end < rs
  <2>1. ~ (data_end >= rs)
    BY DEF Fails, Refused
  <2> QED
    BY <1>1, <2>1, RefSpaceIs
<1>3. a = FirstFit(n) /\ a # End /\ a # 0
  BY <1>1 DEF AllocAfter, Fails, WalksOff
<1>4. List(mem, begin_ref, L) /\ First \in L
  BY DEF Blocks, List
<1>5. a \in L /\ g # 0 /\ FreeDist(a) >= n + Header /\ (a = First \/ mem[a].size # 0)
  <2>1. First \in 0 .. End
    OBVIOUS
  <2> QED
    BY <1>1, <1>3, <1>4, <2>1, FitFinds, FirstFitIs
<1>6. /\ Reaches(mem, begin_ref, L, mem[a].next, g) /\ a \in Nat
      /\ mem[a].next \in a + 1 .. End /\ mem[a].size \in Nat
      /\ \A x \in L : a < x => a + Header + mem[a].size <= x
  BY <1>1, <1>4, <1>5, NextReaches
<1>7. g = begin_ref \/ (g \in L /\ mem[g].size # 0)
  BY <1>5, <1>6 DEF Reaches
<1>8. g \in L => g \in Nat /\ g < rs /\ mem[g].size \in Nat
  <2>1. g \in L => mem[g].size \in Nat /\ g \in Nat /\ g < begin_ref
    BY <1>1, <1>4 DEF List
  <2>2. g \in L /\ mem[g].size # 0 => g + Header + mem[g].size <= rs
    BY DEF Below
  <2> QED
    BY <1>1, <1>2, <1>7, <2>1, <2>2
<1>9. g >= a + Header + mem[a].size
  <2>1. a < begin_ref
    BY <1>1, <1>4, <1>5 DEF List
  <2>2. CASE g \in L
    <3>1. g # begin_ref
      BY <1>1, <1>4, <2>2 DEF List
    <3>2. mem[a].next <= g
      BY <1>5, <1>6, <3>1 DEF Reaches
    <3> QED
      BY <1>6, <1>8, <2>2, <3>2
  <2>3. CASE g = begin_ref
    <3>1. CASE mem[a].size = 0
      BY <1>1, <1>6, <2>1, <2>3, <3>1
    <3>2. CASE mem[a].size # 0
      <4>1. a + Header + mem[a].size <= begin_ref
        BY <1>5, <3>2 DEF Blocks, Owned, Owns
      <4> QED
        BY <1>1, <1>6, <2>3, <4>1
    <3> QED
      BY <3>1, <3>2
  <2> QED
    BY <1>7, <2>2, <2>3
<1>10. rs >= a + Header + mem[a].size
  <2>1. CASE mem[a].size = 0
    BY <1>1, <1>2, <1>5, <2>1
  <2>2. CASE mem[a].size # 0
    <3>1. a + Header + mem[a].size <= rs
      BY <1>5, <2>2 DEF Below
    <3> QED
      BY <1>1, <1>2, <1>6, <3>1
  <2> QED
    BY <2>1, <2>2
<1>11. g \in Nat /\ rs \in Nat /\ g <= End /\ rs <= End
  BY <1>1, <1>2, <1>7, <1>8
<1> DEFINE z == mem[a].size
<1>12. FreeDist(a) = Min2(g, rs) - a - mem[a].size - Header
  <2> DEFINE d == Min2(g, rs) - a - mem[a].size - Header
  <2>1. d \in Nat /\ d < Word
    <3>1. z \in Nat /\ g >= a + 1 + z /\ rs >= a + 1 + z /\ d = Min2(g, rs) - a - z - 1
      BY <1>6, <1>9, <1>10
    <3> HIDE DEF z, d
    <3>2. d \in Nat /\ d <= Size + 1
      <4>1. a \in Nat /\ g \in Nat /\ rs \in Nat /\ g <= Size + 1
        BY <1>6, <1>11
      <4>2. Min2(g, rs) \in {g, rs} /\ Min2(g, rs) <= g
        BY <4>1 DEF Min2
      <4> QED
        BY <3>1, <4>1, <4>2, SMTT(30)
    <3>3. Word > Size + 1
      BY <1>1
    <3> QED
      BY <3>2, <3>3
  <2>2. FreeDist(a) = d % Word
    BY DEF FreeDist, SizeAt
  <2> HIDE DEF d
  <2>3. d % Word = d
    BY <2>1, ModSmall
  <2> QED
    BY <2>2, <2>3 DEF d
<1>13. /\ a + Header + mem[a].size + Header + n <= g
       /\ a + Header + mem[a].size + Header + n <= rs
  <2>1. Min2(g, rs) - a - z - Header >= n + Header /\ z \in Nat
    BY <1>5, <1>6, <1>12
  <2> HIDE DEF z
  <2>2. a + Header + z + Header + n <= g /\ a + Header + z + Header + n <= rs
    <3>1. a \in Nat /\ g \in Nat /\ rs \in Nat /\ n \in Nat
      BY <1>1, <1>6, <1>11
    <3>2. Min2(g, rs) <= g /\ Min2(g, rs) <= rs /\ Min2(g, rs) \in Nat
      BY <3>1 DEF Min2
    <3> QED
      BY <2>1, <3>1, <3>2, SMTT(30)
  <2> QED
    BY <2>2 DEF z
<1>14. ASSUME NEW x \in L, a < x, x < g PROVE mem[x].size = 0
  <2>1. mem[a].next <= x
    BY <1>4, <1>5, <1>14 DEF List
  <2>2. x \in Nat /\ x < begin_ref
    BY <1>4, <1>1 DEF List
  <2> QED
    BY <1>1, <1>5, <1>6, <1>14, <2>1, <2>2 DEF Reaches
<1> QED
  BY <1>2, <1>5, <1>7, <1>8, <1>13, <1>14

\* What is known after alloc has put a block of n cells at `to` and its
\* reference at rs: block, reference and contents of every handle are as before
\* and lie apart from the new block.
Keeps(m1, br1, to, n, L, h) ==
  LET r == ptr[h]
      b == mem[r].next
      s == mem[b].size IN
  /\ m1[r] = mem[r] /\ r \in br1 .. Size
  /\ b \in L /\ m1[b].size = s /\ m1[b].reference = r /\ s \in Sizes /\ b + Header + s <= br1
  /\ \A i \in 1 .. s : m1[b + i] = Data(h)
  /\ b + Header + s <= to \/ to + Header + n <= b

WellPlaced(m1, br1, top, to, rs, n, g, L) ==
  /\ to \in Cells /\ to + Header + n <= br1 /\ br1 \in First .. begin_ref /\ rs \in br1 .. Size
  /\ top \in First + 1 .. br1
  /\ m1 \in [Cells -> Cell] /\ Forward(m1) /\ List(m1, br1, L) /\ to \in L
  /\ m1[to] = Info(g, rs, n) /\ m1[rs] = Ref(to) /\ g \in to + 1 .. End
  /\ \A h \in Handles : ptr[h] # 0 => Keeps(m1, br1, to, n, L, h) /\ ptr[h] # rs
  /\ \A b \in L : b = to \/ m1[b].size = 0 \/ \E h \in Handles : ptr[h] # 0 /\ mem[ptr[h]].next = b
  /\ \A r \in br1 .. Size :
       m1[r].size = None /\ (r = rs \/ m1[r].next = 0 \/ \E h \in Handles : ptr[h] = r)

LEMMA PlacedParts ==
  ASSUME NEW n
  PROVE  LET new == Placed(n)
             to == Place(AllocAfter(n)) IN
         /\ new.allocated = allocated + (n + Header)
         /\ new.data_end = IF to + n + Header > data_end THEN to + n + Header ELSE data_end
         /\ new.begin_ref = Min2(begin_ref, RefSpace) /\ new.to = to /\ new.ref = RefSpace
<1> DEFINE to == Place(AllocAfter(n))
<1>1. /\ Placed(n).data_end = IF to + n + Header > data_end THEN to + n + Header ELSE data_end
      /\ Placed(n).begin_ref = Min2(begin_ref, RefSpace) /\ Placed(n).to = to
      /\ Placed(n).ref = RefSpace /\ Placed(n).allocated = allocated + Charged(n)
  BY Zenon DEF Placed
<1> QED
  BY <1>1, Zenon DEF Charged

LEMMA PlacedInGap ==
  ASSUME Usable, Types, data_end <= begin_ref, Refs(mem, begin_ref, ptr), NEW n \in Sizes,
         NEW L, Blocks(L), Below(mem, L, RefSpace), data_end > First, ~ Fails(n), ~ WalksOff(n)
  PROVE  LET new == Placed(n) IN
         \E K, g : WellPlaced(new.mem, new.begin_ref, new.data_end, new.to, new.ref, n, g, K)
<1> USE Numbers
<1> DEFINE a == AllocAfter(n)
           g == GetNext(mem, a)
           rs == RefSpace
           z == mem[a].size
           to == a + Header + z
           br1 == Min2(begin_ref, rs)
           top == IF to + n + Header > data_end THEN to + n + Header ELSE data_end
           m1 == Placed(n).mem
           K == Inserted(L, a, to, g, br1)
<1>1. /\ data_end \in Nat /\ begin_ref \in 1 .. Size + 1 /\ Forward(mem) /\ n \in Nat /\ n > 0
      /\ mem \in [Cells -> Cell]
  BY DEF Types, Usable
<1>2. /\ a \in L /\ rs \in begin_ref - 1 .. Size /\ data_end < rs
      /\ to + Header + n <= g /\ to + Header + n <= rs
      /\ g = begin_ref \/ (g \in L /\ g < rs)
      /\ \A x \in L : a < x /\ x < g => mem[x].size = 0
  BY GapFound
<1>3. List(mem, begin_ref, L) /\ Owned(mem, begin_ref, ptr, L)
  BY DEF Blocks
<1>4. \A x \in L : x \in 1 .. begin_ref - 1 /\ mem[x].size \in Nat
  BY <1>3 DEF List
<1>4a. \A x, y \in L : x < y => x + 1 + mem[x].size <= y
  BY <1>3 DEF List
<1>4b. \A x \in L : mem[x].size # 0 => x + 1 + mem[x].size <= begin_ref
  BY <1>3 DEF Owned, Owns
<1>5. a \in 1 .. begin_ref - 1 /\ z \in Nat /\ g \in Nat /\ rs \in Nat /\ g <= begin_ref
  BY <1>1, <1>2, <1>4
<1> HIDE DEF a, g, rs, z
<1>6. to \in Nat /\ a < to /\ to < g /\ to < rs /\ to >= 1 /\ to \in Cells /\ rs \in Cells /\ a \in Cells
      /\ n \in 0 .. Size
  BY <1>1, <1>2, <1>5
<1>7. Place(a) = to /\ a # 0
  BY <1>5 DEF Place, SizeAt, z
<1>8. Placed(n).begin_ref = br1 /\ Placed(n).data_end = top /\ Placed(n).to = to /\ Placed(n).ref = rs
  BY <1>7, PlacedParts DEF a, rs
<1> HIDE DEF to, m1
<1>9. /\ m1 \in [Cells -> Cell] /\ m1[to] = Info(g, rs, n) /\ m1[rs] = Ref(to)
      /\ m1[a].next = to /\ m1[a].size = mem[a].size /\ m1[a].reference = mem[a].reference
      /\ \A c \in Cells : c \notin {a, to, rs} => m1[c] = mem[c]
  <2>1. to # rs /\ a # to /\ a # rs /\ g \in 0 .. End /\ a = AllocAfter(n) /\ rs = RefSpace
    BY <1>1, <1>5, <1>6 DEF a, rs
  <2>2. g = IF a = 0 THEN End ELSE GetNext(mem, a)
    BY <1>7 DEF g
  <2>3. /\ mem \in [Cells -> Cell] /\ n \in 0 .. Size /\ to \in Cells /\ rs \in Cells
        /\ to = Place(a) /\ a \in Cells /\ a # 0
    BY <1>1, <1>6, <1>7
  <2>4. m1 = Placed(n).mem
    BY DEF m1
  <2> QED
    BY <2>1, <2>2, <2>3, <2>4, PlacedCells
<1>10. /\ br1 \in 1 .. begin_ref /\ br1 <= rs /\ to + 1 + n <= br1 /\ data_end <= br1
       /\ br1 = begin_ref \/ (br1 = rs /\ rs = begin_ref - 1)
  <2>1. br1 <= rs /\ br1 <= begin_ref /\ (br1 = begin_ref \/ (br1 = rs /\ rs = begin_ref - 1))
    BY <1>1, <1>2, <1>5 DEF Min2
  <2>2. to + 1 + n <= rs /\ to + 1 + n <= begin_ref
    BY <1>1, <1>2, <1>5, <1>6
  <2> HIDE DEF br1
  <2> QED
    BY <1>1, <1>2, <1>5, <1>6, <2>1, <2>2
<1>11. top \in First + 1 .. br1 /\ top >= data_end /\ top >= to + 1 + n
  BY <1>1, <1>5, <1>6, <1>10
<1>12. g = begin_ref \/ (g \in L /\ g < br1)
  BY <1>1, <1>2, <1>5, <1>10
<1> HIDE DEF top
<1>13. m1[to].size = n /\ m1[to].next = g /\ m1[to].reference = rs /\ m1[rs].size = None
  BY <1>9 DEF Info, Ref
<1>14. List(m1, br1, K) /\ to \in K
  <2>1. begin_ref \in First .. End /\ a + Header + mem[a].size <= to
    BY <1>1, <1>5 DEF to, z
  <2>2. to + Header + n <= g /\ to + Header + n <= rs /\ rs \in begin_ref - 1 .. Size /\ a \in L
    BY <1>2
  <2>3. m1[to].size = n /\ m1[to].next = g /\ m1[rs].size = None
    BY <1>13
  <2>4. m1[a].size = mem[a].size /\ m1[a].next = to
    BY <1>9
  <2>5. \A c \in Cells : c \notin {a, to, rs} => m1[c] = mem[c]
    BY <1>9
  <2>6. to \in Nat /\ n \in Nat /\ g \in Nat
    BY <1>1, <1>5, <1>6
  <2>7. List(m1, br1, K)
    BY <1>3, <1>12, <2>1, <2>2, <2>3, <2>4, <2>5, <2>6, ListInserted
  <2> QED
    BY <2>7 DEF Inserted
<1> HIDE DEF br1
<1>15. \A b \in K : b = to \/ (b \in L /\ (b <= a \/ g <= b) /\ b < br1 /\ b # to /\ b # rs)
  BY <1>4, <1>5, <1>6, <1>10 DEF Inserted
<1>16. ASSUME NEW b \in K, b # to PROVE b \in L /\ m1[b].size = mem[b].size
  <2>1. b \in L /\ b # rs
    BY <1>15, <1>16
  <2>2. b \in Cells
    BY <1>1, <1>4, <2>1
  <2>3. CASE b = a
    BY <1>9, <2>1, <2>3
  <2>4. CASE b # a
    BY <1>9, <1>16, <2>1, <2>2, <2>4
  <2> QED
    BY <2>1, <2>3, <2>4
<1>17. ASSUME NEW b \in L, mem[b].size # 0
       PROVE  b \in K /\ (b + 1 + mem[b].size <= to \/ to + 1 + n <= b) /\ b + 1 + mem[b].size <= rs
  <2>1. /\ b + 1 + mem[b].size <= rs /\ b + 1 + mem[b].size <= begin_ref /\ b \in Nat
        /\ mem[b].size \in Nat
    BY <1>4, <1>4b, <1>17 DEF Below, rs
  <2>2. b <= a \/ g <= b
    BY <1>2, <1>4, <1>5, <1>17
  <2>3. b < br1
    BY <1>1, <1>5, <1>10, <2>1
  <2>4. b \in K
    BY <2>2, <2>3 DEF Inserted
  <2>5. CASE b < a
    <3>1. b + 1 + mem[b].size <= a
      BY <1>2, <1>4a, <2>5
    <3> QED
      BY <1>5, <1>6, <2>1, <2>4, <3>1
  <2>6. CASE b = a
    BY <1>1, <1>2, <1>5, <2>1, <2>4, <2>6 DEF to, z
  <2>7. CASE g <= b
    BY <1>1, <1>2, <1>5, <1>6, <2>1, <2>4, <2>7
  <2> QED
    BY <1>5, <2>1, <2>2, <2>5, <2>6, <2>7
<1>18. ASSUME NEW h \in Handles, ptr[h] # 0
       PROVE  Keeps(m1, br1, to, n, K, h) /\ ptr[h] # rs
  <2> DEFINE r == ptr[h]
             b == mem[r].next
             s == mem[b].size
  <2>1. /\ r \in begin_ref .. Size /\ b \in L /\ mem[b].reference = r /\ s \in Sizes
        /\ b + 1 + s <= begin_ref /\ \A i \in 1 .. s : mem[b + i] = Data(h)
    BY <1>3, <1>18 DEF Owned, Owns
  <2>2. s \in Nat /\ s > 0 /\ b \in 1 .. begin_ref - 1
    BY <1>4, <2>1 DEF Usable
  <2>3. r # rs
    <3>1. rs = begin_ref - 1 \/ mem[rs].next = 0
      BY <1>1, RefSpaceIs DEF rs
    <3> QED
      BY <1>1, <1>5, <2>1, <2>2, <3>1
  <2> HIDE DEF r, b, s
  <2>4. b \in K /\ (b + 1 + s <= to \/ to + 1 + n <= b) /\ b + 1 + s <= rs
    BY <1>17, <2>1, <2>2 DEF s
  <2>5. m1[r] = mem[r] /\ r \in br1 .. Size
    <3>1. r \in Cells /\ r \notin {a, to, rs}
      BY <1>1, <1>5, <1>6, <2>1, <2>3
    <3> QED
      BY <1>1, <1>9, <1>10, <2>1, <3>1
  <2>6. m1[b].size = s /\ m1[b].reference = r
    <3>1. CASE b = a
      BY <1>9, <2>1, <3>1 DEF s
    <3>2. CASE b # a
      <4>1. b \in Cells /\ b \notin {a, to, rs}
        BY <1>1, <1>5, <1>6, <2>2, <2>4, <3>2
      <4> QED
        BY <1>9, <2>1, <4>1 DEF s
    <3> QED
      BY <3>1, <3>2
  <2>7. ASSUME NEW i \in 1 .. s PROVE m1[b + i] = Data(h)
    <3>1. b + i \in Cells /\ b + i # to /\ b + i # rs
      BY <1>1, <1>5, <1>6, <2>1, <2>2, <2>4
    <3>2. b + i # a
      <4>1. b < a => b + 1 + s <= a
        BY <1>2, <1>4a, <2>1 DEF s
      <4> QED
        BY <1>5, <2>2, <4>1
    <3> QED
      BY <1>9, <2>1, <3>1, <3>2
  <2>8. b + 1 + s <= br1
    BY <1>5, <1>10, <2>1, <2>2, <2>4
  <2> QED
    BY <2>1, <2>3, <2>4, <2>5, <2>6, <2>7, <2>8 DEF Keeps, r, b, s
<1>19. \A b \in K : b = to \/ m1[b].size = 0 \/ \E h \in Handles : ptr[h] # 0 /\ mem[ptr[h]].next = b
  BY <1>3, <1>16 DEF Owned
<1>20. ASSUME NEW r \in br1 .. Size
       PROVE  m1[r].size = None /\ (r = rs \/ m1[r].next = 0 \/ \E h \in Handles : ptr[h] = r)
  <2>1. CASE r = rs
    BY <1>13, <2>1
  <2>2. CASE r # rs
    <3>1. r \in begin_ref .. Size
      BY <1>1, <1>5, <1>10, <2>2
    <3>2. r \in Cells /\ r \notin {a, to, rs}
      BY <1>1, <1>5, <1>6, <2>2, <3>1
    <3>3. m1[r] = mem[r]
      BY <1>9, <3>2
    <3> QED
      BY <3>1, <3>3 DEF Refs
  <2> QED
    BY <2>1, <2>2
<1>21. Forward(m1)
  <2>1. ASSUME NEW c \in Cells
        PROVE  m1[c].size = None \/ m1[c].next \in c + 1 .. End \/ m1[c] = mem[c]
    BY <1>1, <1>5, <1>6, <1>9, <1>13
  <2> QED
    BY <1>1, <2>1, ForwardKept
<1>23. g \in to + 1 .. End /\ rs \in br1 .. Size /\ br1 \in First .. begin_ref
  BY <1>1, <1>2, <1>5, <1>6, <1>10
<1>24. WellPlaced(m1, br1, top, to, rs, n, g, K)
  BY <1>6, <1>9, <1>10, <1>11, <1>14, <1>18, <1>19, <1>20, <1>21, <1>23 DEF WellPlaced
<1> QED
  BY <1>8, <1>24 DEF m1

LEMMA PlacedFirst ==
  ASSUME Usable, Types, NEW n \in Sizes, Fresh, First + Header + n <= RefSpace
  PROVE  LET new == Placed(n) IN
         \E K, g : WellPlaced(new.mem, new.begin_ref, new.data_end, new.to, new.ref, n, g, K)
<1> USE Numbers
<1> DEFINE rs == RefSpace
           m1 == Placed(n).mem
<1>0. data_end = 1 /\ begin_ref = Size + 1 /\ n \in Nat /\ n > 0
  BY DEF Usable, Fresh
<1>2. rs = Size
  <2>1. {r \in begin_ref .. Size : mem[r].next = 0} = {}
    BY <1>0
  <2> QED
    BY <1>0, <2>1 DEF RefSpace
<1>1. /\ data_end = 1 /\ begin_ref = Size + 1 /\ n \in Nat /\ n > 0 /\ n + 1 < Size
      /\ n \in 0 .. Size /\ mem \in [Cells -> Cell] /\ Forward(mem)
      /\ \A h \in Handles : ptr[h] = 0
  BY <1>0, <1>2 DEF Types, Fresh
<1>3. AllocAfter(n) = 0 /\ Place(AllocAfter(n)) = 1
  BY <1>1 DEF AllocAfter, Place
<1>4. /\ Placed(n).begin_ref = Size /\ Placed(n).data_end = n + 2 /\ Placed(n).to = 1
      /\ Placed(n).ref = Size
  <2>1. Min2(begin_ref, rs) = Size
    BY <1>1, <1>2 DEF Min2
  <2>2. (IF 1 + n + Header > data_end THEN 1 + n + Header ELSE data_end) = n + 2
    BY <1>1
  <2> QED
    BY <1>2, <1>3, <2>1, <2>2, PlacedParts
<1> HIDE DEF m1, rs
<1>5. /\ m1 \in [Cells -> Cell] /\ m1[1] = Info(End, Size, n) /\ m1[Size] = Ref(1)
      /\ \A c \in Cells : c \notin {1, Size} => m1[c] = mem[c]
  <2>1. 1 \in Cells /\ Size \in Cells /\ 1 # Size /\ End \in 0 .. End
    BY <1>1
  <2>2. \A c \in Cells : c \notin {1, Size} => c \notin {0, 1, Size}
    OBVIOUS
  <2>3. End = IF AllocAfter(n) = 0 THEN End ELSE GetNext(mem, AllocAfter(n))
    BY <1>3
  <2> QED
    BY <1>1, <1>2, <1>3, <2>1, <2>2, <2>3, PlacedCells DEF m1, rs
<1>6. m1[1].size = n /\ m1[1].next = Size + 1 /\ m1[Size].size = None
  BY <1>5 DEF Info, Ref
<1>7. Forward(m1)
  <2>1. ASSUME NEW c \in Cells
        PROVE  m1[c].size = None \/ m1[c].next \in c + 1 .. End \/ m1[c] = mem[c]
    BY <1>1, <1>5, <1>6
  <2> QED
    BY <1>1, <2>1, ForwardKept
<1>8. List(m1, Size, {1})
  BY <1>1, <1>6 DEF List
<1>9. WellPlaced(m1, Size, n + 2, 1, Size, n, End, {1})
  BY <1>1, <1>5, <1>6, <1>7, <1>8 DEF WellPlaced
<1> QED
  BY <1>4, <1>9 DEF m1

\* Wherever alloc finds room, the new block is well placed.
LEMMA AllocPlaces ==
  ASSUME Usable, Types, Sound, pc = "idle", NEW n \in Sizes, ~ Fails(n), ~ WalksOff(n), ~ RefInBlock(n)
  PROVE  LET new == Placed(n) IN
         \E K, g : WellPlaced(new.mem, new.begin_ref, new.data_end, new.to, new.ref, n, g, K)
<1>1. CASE Fresh
  <2>1. Place(AllocAfter(n)) = First
    BY <1>1 DEF Fresh, AllocAfter, Place
  <2>2. ~ (First + Header + n > RefSpace)
    BY <2>1 DEF RefInBlock
  <2>3. RefSpace \in Int /\ n \in Nat
    BY Numbers, RefSpaceIs DEF Types
  <2>4. First + Header + n <= RefSpace
    BY <2>2, <2>3, Numbers
  <2> QED
    BY <1>1, <2>4, PlacedFirst
<1>2. CASE ~ Fresh
  <2>0. PICK L : Blocks(L)
    BY <1>2 DEF Sound, Idle
  <2>1. Below(mem, L, RefSpace)
    <3> SUFFICES ASSUME NEW b \in L, mem[b].size # 0
                 PROVE  b + Header + mem[b].size <= RefSpace
      BY DEF Below
    <3>1. PICK h \in Handles : ptr[h] # 0 /\ mem[ptr[h]].next = b
      BY <2>0 DEF Blocks, Owned
    <3>2. ~ (b + Header + mem[b].size > RefSpace)
      BY <3>1 DEF RefInBlock, Live, Block, SizeAt
    <3>3. RefSpace \in Int /\ b \in Nat /\ mem[b].size \in Nat
      BY <2>0, Numbers, RefSpaceIs DEF Types, Blocks, List
    <3> QED
      BY <3>2, <3>3, Numbers
  <2>2. data_end > First /\ data_end <= begin_ref /\ Refs(mem, begin_ref, ptr)
    BY <1>2 DEF Sound, Idle
  <2> QED
    BY <2>0, <2>1, <2>2, PlacedInGap
<1> QED
  BY <1>1, <1>2

--------------------------------------------------------------------------------
(* The cells of the blocks *)

\* Extent and Taken, of any memory and references.
CellsOf(m, p, h) == LET b == m[p[h]].next IN b .. (b + Header + m[b].size - 1)
TakenBy(m, p) == Cardinality(UNION {CellsOf(m, p, h) : h \in {h \in Handles : p[h] # 0}})
Others(m, p, h) == UNION {CellsOf(m, p, g) : g \in {g \in Handles : p[g] # 0 /\ g # h}}

\* The size of the block of h; what an action leaves to the handles other than h;
\* and what alloc and realloc do for h.
SizeOf(m, p, h) == m[m[p[h]].next].size
OthersSame(m, p, m1, p1, h) ==
  \A g \in Handles : g # h => p1[g] = p[g] /\ (p[g] # 0 => SizeOf(m1, p1, g) = SizeOf(m, p, g))
Obtains(h, n) ==
  ptr'[h] # 0 /\ SizeOf(mem', ptr', h) = n /\ OthersSame(mem, ptr, mem', ptr', h)

LEMMA TakenSame == Taken = TakenBy(mem, ptr)
BY DEF Taken, TakenBy, Extent, CellsOf, Live, Block, SizeAt

\* The blocks of two handles lie apart and below the references.
LEMMA OwnersApart ==
  ASSUME NEW m, NEW br \in First .. End, NEW p, NEW L, List(m, br, L), Owned(m, br, p, L),
         NEW h \in Handles, p[h] # 0
  PROVE  /\ CellsOf(m, p, h) \subseteq First .. br - 1
         /\ \A g \in Handles : p[g] # 0 /\ g # h => CellsOf(m, p, g) \cap CellsOf(m, p, h) = {}
<1> USE Numbers
<1>1. \A b \in L : b \in 1 .. br - 1 /\ m[b].size \in Nat
  BY DEF List
<1>2. \A b, c \in L : b < c => b + 1 + m[b].size <= c
  BY DEF List
<1>3. ASSUME NEW g \in Handles, p[g] # 0
      PROVE  Owns(m, br, p[g], L, g)
  BY <1>3 DEF Owned
<1>4. CellsOf(m, p, h) \subseteq First .. br - 1
  <2> DEFINE b == m[p[h]].next
             n == m[b].size
  <2>1. b \in L /\ b + 1 + n <= br
    BY <1>3 DEF Owns
  <2>2. b \in 1 .. br - 1 /\ n \in Nat
    BY <1>1, <2>1
  <2>3. CellsOf(m, p, h) = b .. (b + Header + n - 1)
    BY DEF CellsOf
  <2> HIDE DEF b, n
  <2> QED
    BY <2>1, <2>2, <2>3
<1>5. ASSUME NEW g \in Handles, p[g] # 0, g # h
      PROVE  CellsOf(m, p, g) \cap CellsOf(m, p, h) = {}
  <2> DEFINE b == m[p[h]].next
             c == m[p[g]].next
             j == m[b].size
             k == m[c].size
  <2>1. b \in L /\ c \in L /\ m[b].reference = p[h] /\ m[c].reference = p[g]
    BY <1>3, <1>5 DEF Owns
  <2>2. b # c
    BY <1>5, <2>1 DEF Owned
  <2>3. b \in Nat /\ c \in Nat /\ j \in Nat /\ k \in Nat
    BY <1>1, <2>1, SMTT(30)
  <2>4. b < c => b + 1 + j <= c
    BY <1>2, <2>1
  <2>5. c < b => c + 1 + k <= b
    BY <1>2, <2>1
  <2>6. CellsOf(m, p, h) = b .. (b + Header + j - 1) /\ CellsOf(m, p, g) = c .. (c + Header + k - 1)
    BY DEF CellsOf
  <2> HIDE DEF b, c, j, k
  <2> QED
    BY <2>2, <2>3, <2>4, <2>5, <2>6
<1> QED
  BY <1>4, <1>5

LEMMA TakenSplits ==
  ASSUME NEW m, NEW br \in First .. End, NEW p, NEW L, List(m, br, L), Owned(m, br, p, L),
         NEW h \in Handles, p[h] # 0, NEW b \in Nat, NEW n \in Nat, CellsOf(m, p, h) = b .. b + n
  PROVE  /\ Cardinality(Others(m, p, h)) \in Nat
         /\ TakenBy(m, p) = Cardinality(Others(m, p, h)) + n + 1
<1> USE Numbers
<1> DEFINE V == Others(m, p, h)
           E == b .. b + n
           W == UNION {CellsOf(m, p, g) : g \in {g \in Handles : p[g] # 0}}
<1>1. V \subseteq 1 .. Size
  <2>1. \A g \in Handles : p[g] # 0 => CellsOf(m, p, g) \subseteq First .. br - 1
    BY OwnersApart
  <2> QED
    BY <2>1 DEF Others
<1>2. V \cap E = {}
  <2>1. \A g \in Handles : p[g] # 0 /\ g # h => CellsOf(m, p, g) \cap E = {}
    BY OwnersApart
  <2> HIDE DEF E
  <2> QED
    BY <2>1 DEF Others
<1>3. W = V \cup E
  BY DEF Others
<1>4. IsFiniteSet(V)
  <2>1. 1 \in Int /\ Size \in Int
    OBVIOUS
  <2>2. IsFiniteSet(1 .. Size)
    BY <2>1, FS_Interval
  <2> HIDE DEF V
  <2> QED
    BY <1>1, <2>2, FS_Subset, Zenon
<1>5. IsFiniteSet(E) /\ Cardinality(E) = n + 1
  <2>1. b + n \in Int /\ ~ (b > b + n) /\ (b + n) - b + 1 = n + 1
    OBVIOUS
  <2> QED
    BY <2>1, FS_Interval
<1> HIDE DEF V, E, W
<1>6. Cardinality(V \cup E) = Cardinality(V) + Cardinality(E) - Cardinality({})
  BY <1>2, <1>4, <1>5, FS_Union
<1>7. Cardinality(V) \in Nat /\ Cardinality({}) = 0
  BY <1>4, FS_CardinalityType, FS_EmptySet
<1>8. TakenBy(m, p) = Cardinality(W)
  BY DEF TakenBy, W
<1>9. Cardinality(W) = Cardinality(V) + n + 1
  BY <1>3, <1>5, <1>6, <1>7
<1> QED
  BY <1>7, <1>8, <1>9 DEF V

\* Without a block nothing is taken, with one something is.
LEMMA TakenNone ==
  ASSUME NEW m, NEW p, \A h \in Handles : p[h] = 0
  PROVE  TakenBy(m, p) = 0
<1>1. UNION {CellsOf(m, p, h) : h \in {h \in Handles : p[h] # 0}} = {}
  OBVIOUS
<1> QED
  BY <1>1, FS_EmptySet DEF TakenBy

\* What the other handles take is the same when their references and blocks are.
LEMMA OthersKept ==
  ASSUME NEW m, NEW p, NEW m1, NEW p1, NEW h,
         \A g \in Handles : g # h => p1[g] = p[g] /\ (p[g] # 0 => CellsOf(m1, p1, g) = CellsOf(m, p, g))
  PROVE  Others(m1, p1, h) = Others(m, p, h)
<1>1. {g \in Handles : p1[g] # 0 /\ g # h} = {g \in Handles : p[g] # 0 /\ g # h}
  OBVIOUS
<1>2. \A g \in {g \in Handles : p[g] # 0 /\ g # h} : CellsOf(m1, p1, g) = CellsOf(m, p, g)
  OBVIOUS
<1>3. {CellsOf(m1, p1, g) : g \in {g \in Handles : p[g] # 0 /\ g # h}}
        = {CellsOf(m, p, g) : g \in {g \in Handles : p[g] # 0 /\ g # h}}
  BY <1>2
<1> QED
  BY <1>1, <1>3, Zenon DEF Others

--------------------------------------------------------------------------------
(* Alloc and realloc *)

\* A handle h has got the new block: its reference r names it, the block the
\* handle had before is empty, and the block holds what the program wrote.
Settled(m1, m2, p1, br1, to, rs, n, g, h, r) ==
  LET old == mem[ptr[h]].next IN
  /\ m2 \in [Cells -> Cell]
  /\ p1 = [ptr EXCEPT ![h] = r]
  /\ \/ ptr[h] = 0 /\ r = rs
     \/ ptr[h] # 0 /\ r = ptr[h] /\ m2[rs] = Ref(0)
        /\ m2[old].size = 0 /\ m2[old].next = m1[old].next
  /\ m2[r] = Ref(to) /\ m2[to] = Info(g, r, n) /\ \A i \in 1 .. n : m2[to + i] = Data(h)
  /\ \A c \in Cells :
       c \notin to .. to + n /\ c # r /\ c # rs /\ (ptr[h] = 0 \/ c # old) => m2[c] = m1[c]

LEMMA Settles ==
  ASSUME Usable, Types, data_end <= begin_ref,
         \A f, g \in Handles : ptr[f] # 0 /\ ptr[f] = ptr[g] => f = g,
         NEW n \in Sizes, NEW m1, NEW br1, NEW top, NEW to, NEW rs, NEW x, NEW K,
         WellPlaced(m1, br1, top, to, rs, n, x, K),
         NEW h \in Handles, NEW r, NEW m2, NEW p1, Settled(m1, m2, p1, br1, to, rs, n, x, h, r)
  PROVE  /\ List(m2, br1, K) /\ Owned(m2, br1, p1, K) /\ Refs(m2, br1, p1)
         /\ Forward(m2) /\ p1 \in [Handles -> 0 .. Size]
         /\ CellsOf(m2, p1, h) = to .. to + n
         /\ Others(m2, p1, h) = Others(mem, ptr, h)
         /\ SizeOf(m2, p1, h) = n /\ OthersSame(mem, ptr, m2, p1, h)
<1> USE Numbers
<1> DEFINE old == mem[ptr[h]].next
<1>1. /\ to \in Cells /\ to + 1 + n <= br1 /\ br1 \in 1 .. Size + 1 /\ rs \in br1 .. Size
      /\ m1 \in [Cells -> Cell] /\ Forward(m1) /\ List(m1, br1, K) /\ to \in K
      /\ m1[to] = Info(x, rs, n) /\ m1[rs] = Ref(to) /\ x \in to + 1 .. End
      /\ n \in Nat /\ n > 0 /\ ptr \in [Handles -> 0 .. Size]
  BY DEF WellPlaced, Types, Usable
<1>2. \A f \in Handles : ptr[f] # 0 => Keeps(m1, br1, to, n, K, f) /\ ptr[f] # rs
  BY DEF WellPlaced
<1>3. \A b \in K : b = to \/ m1[b].size = 0 \/ \E f \in Handles : ptr[f] # 0 /\ mem[ptr[f]].next = b
  BY DEF WellPlaced
<1>4. \A q \in br1 .. Size :
         m1[q].size = None /\ (q = rs \/ m1[q].next = 0 \/ \E f \in Handles : ptr[f] = q)
  BY DEF WellPlaced
<1>5. /\ m2 \in [Cells -> Cell] /\ p1 = [ptr EXCEPT ![h] = r]
      /\ m2[r] = Ref(to) /\ m2[to] = Info(x, r, n) /\ \A i \in 1 .. n : m2[to + i] = Data(h)
      /\ \A c \in Cells :
           c \notin to .. to + n /\ c # r /\ c # rs /\ (ptr[h] = 0 \/ c # old) => m2[c] = m1[c]
  BY DEF Settled
<1>6. /\ (ptr[h] = 0 /\ r = rs) \/ (ptr[h] # 0 /\ r = ptr[h] /\ r # rs)
      /\ r \in br1 .. Size
      /\ ptr[h] # 0 => m2[rs] = Ref(0) /\ m2[old].size = 0 /\ m2[old].next = m1[old].next
  <2>1. \/ ptr[h] = 0 /\ r = rs
        \/ ptr[h] # 0 /\ r = ptr[h] /\ m2[rs] = Ref(0) /\ m2[old].size = 0 /\ m2[old].next = m1[old].next
    BY DEF Settled
  <2>2. ptr[h] # 0 => ptr[h] \in br1 .. Size /\ ptr[h] # rs
    BY <1>2 DEF Keeps
  <2> QED
    BY <1>1, <2>1, <2>2
<1>7. \A b \in K : b \in 1 .. br1 - 1 /\ m1[b].size \in Nat /\ m1[b].next \in b + 1 .. End
  BY <1>1 DEF List
<1>8. \A b, c \in K : b < c => b + 1 + m1[b].size <= c
  BY <1>1 DEF List
<1>9. ptr[h] # 0 => old \in K /\ (old < to \/ to + n < old) /\ m1[old].reference = ptr[h]
  <2>1. ptr[h] # 0 => Keeps(m1, br1, to, n, K, h)
    BY <1>2
  <2>2. ptr[h] # 0 => /\ old \in K /\ m1[old].size = mem[old].size /\ m1[old].reference = ptr[h]
                      /\ old + 1 + mem[old].size <= to \/ to + 1 + n <= old
    BY <2>1 DEF Keeps
  <2> HIDE DEF old
  <2>3. ptr[h] # 0 => old \in Nat /\ mem[old].size \in Nat
    BY <1>7, <2>2
  <2>4. to \in Nat /\ n \in Nat
    BY <1>1
  <2> DEFINE z == mem[old].size
  <2>5. ASSUME ptr[h] # 0 PROVE old < to \/ to + n < old
    <3>1. old \in Nat /\ z \in Nat /\ (old + 1 + z <= to \/ to + 1 + n <= old)
      BY <2>2, <2>3, <2>5
    <3> HIDE DEF z
    <3> QED
      BY <2>4, <3>1
  <2> QED
    BY <2>2, <2>5
<1> HIDE DEF old
<1>10. m1[to].size = n /\ m1[to].next = x /\ m2[to].size = n /\ m2[to].next = x /\ m2[to].reference = r
       /\ to \in 1 .. br1 - 1
  BY <1>1, <1>5, <1>7 DEF Info
<1>11. \A b \in K : b # to => b \notin to .. to + n /\ b # r /\ b # rs
  <2> SUFFICES ASSUME NEW b \in K, b # to PROVE b \notin to .. to + n /\ b # r /\ b # rs
    OBVIOUS
  <2>1. b \in 1 .. br1 - 1 /\ (to < b => to + 1 + n <= b)
    BY <1>1, <1>7, <1>8, <1>10
  <2>2. b < to \/ b > to + n
    BY <1>1, <1>10, <2>1
  <2>3. b # r /\ b # rs
    BY <1>1, <1>6, <2>1
  <2>4. to \in Nat /\ n \in Nat /\ b \in Nat
    BY <1>1, <1>10, <2>1
  <2> QED
    BY <2>2, <2>3, <2>4
<1>12. \A b \in K : b # to /\ (ptr[h] = 0 \/ b # old) => m2[b] = m1[b]
  <2>1. \A b \in K : b \in Cells
    BY <1>1, <1>7
  <2> QED
    BY <1>5, <1>11, <2>1
<1>13. ASSUME NEW b \in K PROVE m2[b].next = m1[b].next /\ m2[b].size \in 0 .. m1[b].size
  <2>1. m1[b].size \in Nat
    BY <1>7
  <2>2. CASE b = to
    BY <1>1, <1>10, <2>2
  <2>3. CASE b # to /\ (ptr[h] = 0 \/ b # old)
    BY <1>12, <2>1, <2>3
  <2>4. CASE ptr[h] # 0 /\ b = old
    BY <1>6, <2>1, <2>4
  <2> QED
    BY <2>2, <2>3, <2>4
<1>14. \A i \in 1 .. n : m2[to + i].size = None
  BY <1>5 DEF Data, Info
<1>15. List(m2, br1, K)
  <2>1. ASSUME NEW c \in Cells, c \notin K, c < br1, m1[c].size = None PROVE m2[c].size = None
    <3>1. CASE c \in to .. to + n
      <4>1. c # to
        BY <1>1, <2>1
      <4>2. c - to \in 1 .. n /\ to + (c - to) = c
        BY <1>1, <1>10, <3>1, <4>1
      <4> QED
        BY <1>14, <4>2
    <3>2. CASE c \notin to .. to + n
      <4>1. c # r /\ c # rs /\ (ptr[h] = 0 \/ c # old)
        BY <1>1, <1>6, <1>9, <2>1
      <4> QED
        BY <1>5, <2>1, <3>2, <4>1
    <3> QED
      BY <3>1, <3>2
  <2>2. br1 \in First .. End
    BY <1>1
  <2> QED
    BY <1>1, <1>13, <2>1, <2>2, ListKept DEF ListKeeps
<1>16. ASSUME NEW f \in Handles, ptr[f] # 0, f # h
       PROVE  /\ Owns(m2, br1, ptr[f], K, f) /\ m2[ptr[f]] = mem[ptr[f]]
              /\ CellsOf(m2, p1, f) = CellsOf(mem, ptr, f) /\ p1[f] = ptr[f]
              /\ SizeOf(m2, p1, f) = SizeOf(mem, ptr, f)
  <2> DEFINE q == ptr[f]
             b == mem[q].next
             s == mem[b].size
  <2>1. /\ m1[q] = mem[q] /\ q \in br1 .. Size /\ q # rs
        /\ b \in K /\ m1[b].size = s /\ m1[b].reference = q /\ s \in Sizes /\ b + Header + s <= br1
        /\ \A i \in 1 .. s : m1[b + i] = Data(f)
        /\ b + Header + s <= to \/ to + Header + n <= b
    BY <1>2, <1>16 DEF Keeps
  <2>2. q # r /\ (ptr[h] = 0 \/ b # old)
    BY <1>6, <1>9, <1>16, <2>1
  <2>3. p1[f] = q
    BY <1>5, <1>16
  <2>4. CellsOf(mem, ptr, f) = b .. (b + Header + s - 1)
    BY DEF CellsOf
  <2>5. CellsOf(m2, p1, f) = LET c == m2[q].next IN c .. (c + Header + m2[c].size - 1)
    BY <2>3 DEF CellsOf
  <2>13. SizeOf(m2, p1, f) = m2[m2[q].next].size /\ SizeOf(mem, ptr, f) = s
    BY <2>3 DEF SizeOf
  <2> HIDE DEF q
  <2>6. m2[q] = m1[q]
    <3>1. q \in Cells /\ q \notin to .. to + n /\ (ptr[h] = 0 \/ q # old)
      BY <1>1, <1>7, <1>9, <1>10, <2>1
    <3> QED
      BY <1>5, <2>1, <2>2, <3>1
  <2>7. m2[q].next = b
    BY <2>1, <2>6
  <2> HIDE DEF b
  <2>8. b # to
    BY <1>1, <1>7, <2>1
  <2>9. m2[b] = m1[b]
    BY <1>12, <2>1, <2>2, <2>8
  <2> HIDE DEF s
  <2>10. ASSUME NEW i \in 1 .. s PROVE m2[b + i] = Data(f)
    <3>1. b \in Nat /\ s \in Nat /\ b >= 1
      BY <1>7, <2>1
    <3>2. b + i \in Cells /\ b + i \notin to .. to + n /\ b + i # r /\ b + i # rs
      <4>1. b + 1 + s <= br1 /\ (b + 1 + s <= to \/ to + 1 + n <= b)
        BY <2>1
      <4>2. /\ br1 \in 1 .. Size + 1 /\ r \in br1 .. Size /\ rs \in br1 .. Size
            /\ to \in Nat /\ n \in Nat
        BY <1>1, <1>6, <1>10
      <4>3. b + i > b /\ b + i < b + 1 + s /\ b + i \in Nat
        BY <3>1
      <4>4. b + i < br1 /\ b + i \notin to .. to + n
        BY <3>1, <4>1, <4>2, <4>3
      <4> QED
        BY <3>1, <4>2, <4>3, <4>4
    <3>3. ptr[h] = 0 \/ b + i # old
      <4>1. ptr[h] # 0 => b < old \/ old < b
        BY <1>7, <1>9, <2>1, <2>2
      <4>2. ptr[h] # 0 /\ b < old => b + 1 + s <= old
        BY <1>8, <1>9, <2>1
      <4>3. ptr[h] # 0 => old \in Nat
        BY <1>7, <1>9
      <4> QED
        BY <3>1, <4>1, <4>2, <4>3
    <3>4. m2[b + i] = m1[b + i]
      BY <1>5, <3>2, <3>3
    <3> QED
      BY <2>1, <3>4
  <2>11. CellsOf(m2, p1, f) = CellsOf(mem, ptr, f)
    BY <2>1, <2>4, <2>5, <2>7, <2>9
  <2>12. Owns(m2, br1, q, K, f)
    BY <2>1, <2>7, <2>9, <2>10 DEF Owns
  <2>14. SizeOf(m2, p1, f) = SizeOf(mem, ptr, f)
    BY <2>1, <2>7, <2>9, <2>13
  <2> QED
    BY <2>1, <2>3, <2>6, <2>11, <2>12, <2>14 DEF q
<1>17. p1 \in [Handles -> 0 .. Size] /\ p1[h] = r /\ r # 0 /\ \A f \in Handles : f # h => p1[f] = ptr[f]
  BY <1>1, <1>5, <1>6
<1>18. m2[r].next = to /\ m2[r].size = None
  BY <1>5 DEF Ref, Info
<1>19. Owns(m2, br1, r, K, h)
  BY <1>1, <1>5, <1>6, <1>10, <1>18 DEF Owns
<1>20. Owned(m2, br1, p1, K)
  <2>1. ASSUME NEW f \in Handles, p1[f] # 0 PROVE Owns(m2, br1, p1[f], K, f)
    <3>1. CASE f = h
      BY <1>17, <1>19, <3>1
    <3>2. CASE f # h
      <4>1. ptr[f] # 0 /\ p1[f] = ptr[f]
        BY <1>17, <2>1, <3>2
      <4> QED
        BY <1>16, <3>2, <4>1
    <3> QED
      BY <3>1, <3>2
  <2>2. ASSUME NEW f \in Handles, NEW g \in Handles, p1[f] # 0, p1[f] = p1[g] PROVE f = g
    <3>1. \A e \in Handles : e # h /\ ptr[e] # 0 => ptr[e] # r
      BY <1>2, <1>6
    <3> QED
      BY <1>17, <2>2, <3>1
  <2>3. ASSUME NEW b \in K, m2[b].size # 0 PROVE \E f \in Handles : p1[f] # 0 /\ m2[p1[f]].next = b
    <3>1. CASE b = to
      BY <1>17, <1>18, <3>1
    <3>2. CASE b # to
      <4>1. ptr[h] = 0 \/ b # old
        BY <1>6, <2>3
      <4>2. m1[b].size # 0
        BY <1>12, <2>3, <3>2, <4>1
      <4>3. PICK f \in Handles : ptr[f] # 0 /\ mem[ptr[f]].next = b
        BY <1>3, <3>2, <4>2
      <4>4. f # h
        BY <4>1, <4>3 DEF old
      <4>5. p1[f] = ptr[f] /\ m2[ptr[f]] = mem[ptr[f]]
        BY <1>16, <4>3, <4>4
      <4> QED
        BY <4>3, <4>5
    <3> QED
      BY <3>1, <3>2
  <2> QED
    BY <2>1, <2>2, <2>3 DEF Owned
<1>22. Refs(m2, br1, p1)
  <2>1. ASSUME NEW q \in br1 .. Size
        PROVE  m2[q].size = None /\ (m2[q].next = 0 \/ \E f \in Handles : p1[f] = q)
    <3>1. CASE q = r
      BY <1>17, <1>18, <3>1
    <3>2. CASE q = rs /\ q # r
      BY <1>6, <3>2 DEF Ref, Info
    <3>3. CASE q # rs /\ q # r
      <4>1. q \in Cells /\ q \notin to .. to + n /\ (ptr[h] = 0 \/ q # old)
        BY <1>1, <1>7, <1>9, <1>10
      <4>2. m2[q] = m1[q]
        BY <1>5, <3>3, <4>1
      <4>3. \A f \in Handles : ptr[f] = q => p1[f] = q
        <5>1. q # 0
          BY <1>1
        <5> QED
          BY <1>6, <1>17, <3>3, <5>1
      <4> QED
        BY <1>4, <3>3, <4>2, <4>3
    <3> QED
      BY <3>1, <3>2, <3>3
  <2> QED
    BY <2>1 DEF Refs
<1>23. Forward(m2)
  <2>1. ASSUME NEW c \in Cells
        PROVE  m2[c].size = None \/ m2[c].next \in c + 1 .. End \/ m2[c] = m1[c]
    <3>1. CASE c = to
      BY <1>1, <1>10, <3>1
    <3>2. CASE c \in to .. to + n /\ c # to
      <4>1. c - to \in 1 .. n /\ to + (c - to) = c
        BY <1>1, <1>10, <3>2
      <4> QED
        BY <1>14, <4>1
    <3>3. CASE c = r
      BY <1>18, <3>3
    <3>4. CASE c = rs /\ c # r
      BY <1>6, <3>4 DEF Ref, Info
    <3>5. CASE ptr[h] # 0 /\ c = old
      <4>1. m1[old].size # None
        BY <1>7, <1>9, <3>5
      <4> QED
        BY <1>1, <1>6, <3>5, <4>1 DEF Forward
    <3>6. CASE c \notin to .. to + n /\ c # r /\ c # rs /\ (ptr[h] = 0 \/ c # old)
      BY <1>5, <3>6
    <3> QED
      BY <3>1, <3>2, <3>3, <3>4, <3>5, <3>6
  <2> QED
    BY <1>1, <2>1, ForwardKept
<1>24. CellsOf(m2, p1, h) = to .. to + n
  <2>1. CellsOf(m2, p1, h) = to .. (to + Header + n - 1)
    BY <1>10, <1>17, <1>18 DEF CellsOf
  <2>2. to + Header + n - 1 = to + n
    BY <1>1, <1>10
  <2> QED
    BY <2>1, <2>2
<1>25. Others(m2, p1, h) = Others(mem, ptr, h)
  <2>1. \A g \in Handles : g # h =>
           p1[g] = ptr[g] /\ (ptr[g] # 0 => CellsOf(m2, p1, g) = CellsOf(mem, ptr, g))
    BY <1>16, <1>17
  <2> QED
    BY <2>1, OthersKept
<1>26. SizeOf(m2, p1, h) = n
  BY <1>10, <1>17, <1>18 DEF SizeOf
<1>27. OthersSame(mem, ptr, m2, p1, h)
  BY <1>16, <1>17 DEF OthersSame
<1> QED
  BY <1>15, <1>17, <1>20, <1>22, <1>23, <1>24, <1>25, <1>26, <1>27

\* What `allocated` counts and the cells of the blocks keep their distance.
Balanced == allocated' - Taken' = allocated - Taken

LEMMA LostStep == ASSUME IInv, Lost PROVE IInv' /\ Balanced
<1>1. fate' = "undefined" /\ UNCHANGED <<mem, allocated, data_end, begin_ref, ptr, pc>>
  BY DEF Lost, info
<1>2. Types'
  BY <1>1 DEF IInv, Types, Forward
<1>3. Taken' = Taken
  BY <1>1 DEF Taken, Extent, Live, Block, SizeAt
<1> QED
  BY <1>1, <1>2, <1>3 DEF IInv, Balanced

\* When the new block is settled, the invariant holds again.
LEMMA SettledStep ==
  ASSUME Usable, Types, Sound, pc = "idle", NEW n \in Sizes, NEW h \in Handles, NEW r, NEW x, NEW K,
         WellPlaced(Placed(n).mem, Placed(n).begin_ref, Placed(n).data_end, Placed(n).to,
                    Placed(n).ref, n, x, K),
         Settled(Placed(n).mem, mem', ptr', Placed(n).begin_ref, Placed(n).to, Placed(n).ref,
                 n, x, h, r),
         data_end' = Placed(n).data_end, begin_ref' = Placed(n).begin_ref,
         pc' = pc, fate' = fate,
         allocated' \in Int
  PROVE  IInv' /\ Obtains(h, n) /\ Taken' = Cardinality(Others(mem, ptr, h)) + n + 1
<1> USE Numbers
<1> DEFINE m1 == Placed(n).mem
           br1 == Placed(n).begin_ref
           top == Placed(n).data_end
           to == Placed(n).to
           rs == Placed(n).ref
<1>1. WellPlaced(m1, br1, top, to, rs, n, x, K) /\ Settled(m1, mem', ptr', br1, to, rs, n, x, h, r)
  OBVIOUS
<1>2. data_end <= begin_ref /\ \A f, g \in Handles : ptr[f] # 0 /\ ptr[f] = ptr[g] => f = g
  <2>1. CASE Fresh
    BY <2>1 DEF Sound, Fresh
  <2>2. CASE ~ Fresh
    BY <2>2 DEF Sound, Idle, Blocks, Owned
  <2> QED
    BY <2>1, <2>2
<1>3. data_end' = top /\ begin_ref' = br1
  OBVIOUS
<1> HIDE DEF m1, br1, top, to, rs
<1>4. /\ List(mem', br1, K) /\ Owned(mem', br1, ptr', K) /\ Refs(mem', br1, ptr')
      /\ Forward(mem') /\ ptr' \in [Handles -> 0 .. Size]
      /\ CellsOf(mem', ptr', h) = to .. to + n
      /\ Others(mem', ptr', h) = Others(mem, ptr, h)
      /\ SizeOf(mem', ptr', h) = n /\ OthersSame(mem, ptr, mem', ptr', h)
  BY <1>1, <1>2, Settles, SMTT(60)
<1>5. /\ br1 \in First .. begin_ref /\ top \in First + 1 .. br1 /\ to \in Cells /\ rs \in br1 .. Size
      /\ begin_ref \in First .. End /\ n \in Nat
  BY <1>1 DEF WellPlaced, Types
<1>6. mem' \in [Cells -> Cell] /\ ptr'[h] # 0
  <2>1. mem' \in [Cells -> Cell] /\ ptr' = [ptr EXCEPT ![h] = r] /\ (r = rs \/ (r = ptr[h] /\ r # 0))
    BY <1>1 DEF Settled
  <2>2. ptr'[h] = r
    BY <2>1 DEF Types
  <2> QED
    BY <1>5, <2>1, <2>2
<1>7. Taken' = Cardinality(Others(mem, ptr, h)) + n + 1
  <2>1. Taken' = TakenBy(mem', ptr')
    BY DEF Taken, TakenBy, Extent, CellsOf, Live, Block, SizeAt
  <2>2. br1 \in First .. End /\ to \in Nat
    BY <1>5
  <2>3. TakenBy(mem', ptr') = Cardinality(Others(mem', ptr', h)) + n + 1
    BY <1>4, <1>5, <1>6, <2>2, TakenSplits
  <2> QED
    BY <1>4, <1>5, <2>1, <2>3
<1>8. Types'
  BY <1>3, <1>4, <1>5, <1>6 DEF Types
<1>9. Idle'
  <2>1. K \in SUBSET Cells
    BY <1>4, <1>5 DEF List
  <2>2. Blocks(K)'
    BY <1>3, <1>4 DEF Blocks
  <2>3. (data_end > First)'
    BY <1>3, <1>5
  <2> QED
    BY <2>1, <2>2, <2>3 DEF Idle
<1>10. Sound'
  <2>1. (data_end <= begin_ref)' /\ Refs(mem, begin_ref, ptr)'
    BY <1>3, <1>4, <1>5
  <2> QED
    BY <1>9, <2>1 DEF Sound
<1> QED
  BY <1>4, <1>6, <1>7, <1>8, <1>10 DEF IInv, Obtains

LEMMA AllocStep ==
  ASSUME Usable, IInv, NEW h \in Handles, NEW n \in Sizes, Alloc(h, n),
         ~ (fate' = "ok" /\ RefInBlock(n))
  PROVE  IInv' /\ (Lost \/ Obtains(h, n)) /\ Balanced
<1> USE Numbers
<1>1. /\ Types /\ Sound /\ pc = "idle" /\ fate = "ok" /\ ptr[h] = 0 /\ ~ Fails(n)
      /\ allocated \in Int
  BY DEF Alloc, IInv, Types
<1>2. CASE Lost
  BY <1>2, LostStep
<1>3. CASE ~ Lost
  <2> DEFINE m1 == Placed(n).mem
             br1 == Placed(n).begin_ref
             top == Placed(n).data_end
             to == Placed(n).to
             rs == Placed(n).ref
  <2>1. /\ ~ WalksOff(n)
        /\ mem' = Write(m1, h, to + Header, to + Header + n - 1)
        /\ allocated' = Placed(n).allocated /\ data_end' = top /\ begin_ref' = br1
        /\ ptr' = [ptr EXCEPT ![h] = rs] /\ pc' = pc /\ fate' = fate
    BY <1>3, Zenon DEF Alloc
  <2>2. PICK K, x : WellPlaced(m1, br1, top, to, rs, n, x, K)
    <3>1. ~ RefInBlock(n)
      BY <1>1, <2>1
    <3> QED
      BY <1>1, <2>1, <3>1, AllocPlaces
  <2>3. allocated' = allocated + (n + Header)
    BY <2>1, PlacedParts
  <2> HIDE DEF m1, br1, top, to, rs
  <2>4. /\ to \in Cells /\ to + 1 + n <= br1 /\ rs \in br1 .. Size /\ br1 \in Nat
        /\ m1 \in [Cells -> Cell] /\ m1[to] = Info(x, rs, n) /\ m1[rs] = Ref(to) /\ n \in Nat
    BY <2>2 DEF WellPlaced
  <2>5. mem' = [c \in Cells |-> IF c \in to + 1 .. to + n THEN Data(h) ELSE m1[c]]
    <3>1. to + Header = to + 1 /\ to + Header + n - 1 = to + n
      BY <2>4
    <3> QED
      BY <2>1, <3>1 DEF Write
  <2>6. Data(h) \in Cell
    BY DEF Data, Info, Cell
  <2>7. mem' \in [Cells -> Cell]
    BY <2>4, <2>5, <2>6
  <2>8. mem'[rs] = Ref(to) /\ mem'[to] = Info(x, rs, n)
    <3>1. rs \in Cells /\ rs \notin to + 1 .. to + n /\ to \notin to + 1 .. to + n
      BY <2>4
    <3> QED
      BY <2>4, <2>5, <3>1
  <2>9. \A i \in 1 .. n : mem'[to + i] = Data(h)
    <3>1. \A i \in 1 .. n : to + i \in Cells /\ to + i \in to + 1 .. to + n
      BY <2>4
    <3> QED
      BY <2>5, <3>1
  <2>10. \A c \in Cells : c \notin to .. to + n => mem'[c] = m1[c]
    <3>1. \A c \in Cells : c \notin to .. to + n => c \notin to + 1 .. to + n
      BY <2>4
    <3> QED
      BY <2>5, <3>1
  <2>11. Settled(m1, mem', ptr', br1, to, rs, n, x, h, rs)
    BY <1>1, <2>1, <2>7, <2>8, <2>9, <2>10 DEF Settled
  <2>12. Taken = Cardinality(Others(mem, ptr, h)) /\ Taken \in Nat
    <3>1. Others(mem, ptr, h) = UNION {CellsOf(mem, ptr, g) : g \in {g \in Handles : ptr[g] # 0}}
      <4>1. {g \in Handles : ptr[g] # 0 /\ g # h} = {g \in Handles : ptr[g] # 0}
        BY <1>1
      <4> QED
        BY <4>1, Zenon DEF Others
    <3>2. Others(mem, ptr, h) \subseteq 1 .. Size
      <4>1. ASSUME NEW g \in Handles, ptr[g] # 0 PROVE CellsOf(mem, ptr, g) \subseteq 1 .. Size
        <5>1. PICK L : Blocks(L)
          BY <1>1, <4>1 DEF Sound, Idle, Fresh
        <5>2. begin_ref \in First .. End
          BY <1>1 DEF Types
        <5>3. CellsOf(mem, ptr, g) \subseteq First .. begin_ref - 1
          BY <4>1, <5>1, <5>2, OwnersApart DEF Blocks
        <5> QED
          BY <5>2, <5>3
      <4> QED
        BY <4>1 DEF Others
    <3>3. IsFiniteSet(1 .. Size)
      BY FS_Interval
    <3>4. IsFiniteSet(Others(mem, ptr, h))
      BY <3>2, <3>3, FS_Subset, Zenon
    <3> QED
      BY <3>1, <3>4, TakenSame, FS_CardinalityType DEF TakenBy
  <2>13. allocated' \in Int
    BY <1>1, <2>3, <2>4
  <2>14. data_end' = top /\ begin_ref' = br1 /\ pc' = pc /\ fate' = fate
    BY <2>1
  <2>15. IInv' /\ Obtains(h, n) /\ Taken' = Cardinality(Others(mem, ptr, h)) + n + 1
    BY <1>1, <2>2, <2>11, <2>13, <2>14, SettledStep, Zenon DEF m1, br1, top, to, rs
  <2>16. Balanced
    BY <1>1, <2>3, <2>4, <2>12, <2>15 DEF Balanced
  <2> QED
    BY <2>15, <2>16
<1> QED
  BY <1>2, <1>3

LEMMA TakenWithout ==
  ASSUME NEW m, NEW p, NEW h, p[h] = 0
  PROVE  TakenBy(m, p) = Cardinality(Others(m, p, h))
<1>1. {g \in Handles : p[g] # 0 /\ g # h} = {g \in Handles : p[g] # 0}
  OBVIOUS
<1> QED
  BY <1>1, Zenon DEF Others, TakenBy

\* What handle h names, in a region that is not fresh.
LEMMA LiveBlock ==
  ASSUME Usable, Types, Sound, pc = "idle", NEW h \in Handles, ptr[h] # 0
  PROVE  LET r == ptr[h]
             b == mem[r].next
             s == mem[b].size IN
         /\ data_end > First /\ data_end <= begin_ref /\ Refs(mem, begin_ref, ptr)
         /\ r \in begin_ref .. Size /\ r \in Cells /\ b \in Cells /\ b < begin_ref /\ b # r
         /\ mem[b].reference = r /\ s \in Sizes /\ s \in Nat /\ s > 0
         /\ CellsOf(mem, ptr, h) = b .. b + s
         /\ Cardinality(Others(mem, ptr, h)) \in Nat
         /\ Taken = Cardinality(Others(mem, ptr, h)) + s + 1
         /\ \E L \in SUBSET Cells : Blocks(L) /\ b \in L
<1> USE Numbers
<1> DEFINE r == ptr[h]
           b == mem[r].next
           s == mem[b].size
<1>1. ~ Fresh
  BY DEF Fresh
<1>2. PICK L \in SUBSET Cells : Blocks(L)
  BY <1>1 DEF Sound, Idle
<1>3. begin_ref \in 1 .. Size + 1
  BY DEF Types
<1>4. r \in begin_ref .. Size /\ b \in L /\ mem[b].reference = r /\ s \in Sizes
  BY <1>2 DEF Blocks, Owned, Owns
<1>5. b \in 1 .. begin_ref - 1
  BY <1>2, <1>4 DEF Blocks, List
<1>6. s \in Nat /\ s > 0
  BY <1>4 DEF Usable
<1>7. CellsOf(mem, ptr, h) = b .. (b + Header + s - 1)
  BY DEF CellsOf
<1> HIDE DEF b, s, r
<1>8. b + Header + s - 1 = b + s
  BY <1>5, <1>6
<1>9. begin_ref \in First .. End /\ b \in Nat /\ ptr[h] # 0 /\ CellsOf(mem, ptr, h) = b .. b + s
  BY <1>3, <1>5, <1>7, <1>8
<1>10. Cardinality(Others(mem, ptr, h)) \in Nat
       /\ TakenBy(mem, ptr) = Cardinality(Others(mem, ptr, h)) + s + 1
  <2>1. List(mem, begin_ref, L) /\ Owned(mem, begin_ref, ptr, L)
    BY <1>2 DEF Blocks
  <2> QED
    BY <1>6, <1>9, <2>1, TakenSplits
<1>11. data_end > First /\ data_end <= begin_ref /\ Refs(mem, begin_ref, ptr)
  BY <1>1 DEF Sound, Idle
<1>12. r \in Cells /\ b \in Cells /\ b < begin_ref /\ b # r
  BY <1>3, <1>4, <1>5
<1> QED
  BY <1>2, <1>4, <1>6, <1>9, <1>10, <1>11, <1>12, TakenSame DEF b, s, r

\* The block of h is cut to k cells, or given up.
LEMMA Shrinks ==
  ASSUME Usable, Types, Sound, pc = "idle", NEW h \in Handles, ptr[h] # 0,
         NEW r, r = ptr[h], NEW b, b = mem[r].next, NEW k \in 0 .. mem[b].size,
         NEW m2 \in [Cells -> Cell], NEW p1,
         m2[b].size = k, m2[b].next = mem[b].next, m2[b].reference = mem[b].reference,
         \A c \in Cells : c # b /\ c # r => m2[c] = mem[c],
         \/ k \in Sizes /\ m2[r] = mem[r] /\ p1 = ptr
         \/ k = 0 /\ m2[r] = Ref(0) /\ p1 = [ptr EXCEPT ![h] = 0]
  PROVE  /\ \E L \in SUBSET Cells :
              List(m2, begin_ref, L) /\ Owned(m2, begin_ref, p1, L)
         /\ Refs(m2, begin_ref, p1) /\ Forward(m2) /\ p1 \in [Handles -> 0 .. Size]
         /\ TakenBy(m2, p1) = Cardinality(Others(mem, ptr, h)) + (IF p1[h] = 0 THEN 0 ELSE k + 1)
         /\ p1[h] # 0 => SizeOf(m2, p1, h) = k
         /\ OthersSame(mem, ptr, m2, p1, h)
<1> USE Numbers
<1> DEFINE s == mem[b].size
<1>1. /\ Refs(mem, begin_ref, ptr) /\ r \in begin_ref .. Size /\ r \in Cells /\ b \in Cells
      /\ b < begin_ref /\ b # r /\ mem[b].reference = r /\ s \in Sizes /\ s \in Nat /\ s > 0
  BY LiveBlock
<1>2. PICK L \in SUBSET Cells : Blocks(L) /\ b \in L
  BY LiveBlock
<1>3. begin_ref \in First .. End /\ Forward(mem) /\ ptr \in [Handles -> 0 .. Size] /\ begin_ref \in Nat
      /\ mem \in [Cells -> Cell] /\ data_end \in Nat
  BY DEF Types
<1>4. List(mem, begin_ref, L) /\ Owned(mem, begin_ref, ptr, L)
  BY <1>2 DEF Blocks
<1>5. \A c \in L : c \in 1 .. begin_ref - 1 /\ mem[c].size \in Nat /\ c # r
  BY <1>1, <1>3, <1>4 DEF List
<1>6. \A c \in L : c # b => m2[c] = mem[c]
  BY <1>2, <1>5
<1>7. m2[r].size = None /\ mem[r].size = None
  BY <1>1 DEF Refs, Ref, Info
<1>8. List(m2, begin_ref, L)
  <2>1. \A c \in L : m2[c].next = mem[c].next /\ m2[c].size \in 0 .. mem[c].size
    BY <1>5, <1>6
  <2>2. \A c \in Cells : c \notin L /\ c < begin_ref /\ mem[c].size = None => m2[c].size = None
    BY <1>2, <1>7
  <2> QED
    <3>1. ListKeeps(mem, m2, begin_ref, L)
      BY <2>1, <2>2 DEF ListKeeps
    <3> QED
      BY <1>3, <1>4, <3>1, ListKept
<1>9. p1 \in [Handles -> 0 .. Size] /\ \A f \in Handles : f # h => p1[f] = ptr[f]
  BY <1>3
<1>10. ASSUME NEW f \in Handles, ptr[f] # 0, f # h
       PROVE  /\ Owns(m2, begin_ref, ptr[f], L, f) /\ m2[ptr[f]] = mem[ptr[f]] /\ p1[f] = ptr[f]
              /\ CellsOf(m2, p1, f) = CellsOf(mem, ptr, f)
              /\ SizeOf(m2, p1, f) = SizeOf(mem, ptr, f)
  <2> DEFINE q == ptr[f]
             c == mem[q].next
             z == mem[c].size
  <2>1. /\ q \in begin_ref .. Size /\ c \in L /\ mem[c].reference = q
        /\ z \in Sizes /\ c + Header + z <= begin_ref
        /\ \A i \in 1 .. z : mem[c + i] = Data(f)
    BY <1>4, <1>10 DEF Owned, Owns
  <2>2. q # r
    BY <1>4, <1>10 DEF Owned
  <2>3. CellsOf(mem, ptr, f) = c .. (c + Header + z - 1)
    BY DEF CellsOf
  <2>4. CellsOf(m2, p1, f) = LET d == m2[q].next IN d .. (d + Header + m2[d].size - 1)
    BY <1>9, <1>10 DEF CellsOf
  <2>5. p1[f] = q
    BY <1>9, <1>10
  <2>12. SizeOf(m2, p1, f) = m2[m2[q].next].size /\ SizeOf(mem, ptr, f) = z
    BY <2>5 DEF SizeOf
  <2> HIDE DEF q
  <2>6. m2[q] = mem[q]
    BY <1>1, <1>3, <2>1, <2>2
  <2>7. m2[q].next = c
    BY <2>6
  <2> HIDE DEF c
  <2>8. m2[c] = mem[c] /\ c # b
    BY <1>1, <1>6, <2>1, <2>2
  <2> HIDE DEF z
  <2>9. ASSUME NEW i \in 1 .. z PROVE m2[c + i] = Data(f)
    <3>1. c + i \in Cells /\ c + i # r
      BY <1>1, <1>3, <1>5, <2>1
    <3>2. c + i # b
      <4>1. c < b => c + 1 + z <= b
        BY <1>2, <1>4, <2>1 DEF List, z
      <4>2. b \in Nat /\ c \in Nat /\ z \in Nat
        <5>1. \A y \in L : y \in Nat /\ mem[y].size \in Nat
          BY <1>5
        <5> QED
          BY <1>2, <2>1, <5>1 DEF z
      <4> QED
        BY <2>8, <4>1, <4>2
    <3> QED
      BY <2>1, <3>1, <3>2
  <2>10. CellsOf(m2, p1, f) = CellsOf(mem, ptr, f)
    BY <2>3, <2>4, <2>7, <2>8 DEF z
  <2>11. Owns(m2, begin_ref, q, L, f)
    BY <2>1, <2>7, <2>8, <2>9 DEF Owns, z
  <2>13. SizeOf(m2, p1, f) = SizeOf(mem, ptr, f)
    BY <2>7, <2>8, <2>12 DEF z
  <2> QED
    BY <2>5, <2>6, <2>10, <2>11, <2>13 DEF q
<1>11. p1[h] # 0 => p1[h] = r /\ m2[r].next = b /\ k \in Sizes
  BY <1>3
<1>12. p1[h] # 0 => Owns(m2, begin_ref, r, L, h)
  <2>1. Owns(mem, begin_ref, r, L, h)
    BY <1>4 DEF Owned
  <2>2. /\ b + Header + s <= begin_ref /\ \A i \in 1 .. s : mem[b + i] = Data(h)
    BY <2>1 DEF Owns
  <2>3. ASSUME NEW i \in 1 .. k PROVE m2[b + i] = Data(h)
    <3>1. i \in 1 .. s /\ b + i \in Cells /\ b + i # b /\ b + i # r
      BY <1>1, <1>3, <1>5, <2>2, SMTT(30)
    <3> QED
      BY <2>2, <3>1
  <2>4. b + Header + k <= begin_ref
    BY <1>1, <1>3, <2>2
  <2> QED
    BY <1>1, <1>2, <1>11, <2>3, <2>4 DEF Owns
<1>13. Owned(m2, begin_ref, p1, L)
  <2>1. ASSUME NEW f \in Handles, p1[f] # 0 PROVE Owns(m2, begin_ref, p1[f], L, f)
    <3>1. CASE f = h
      BY <1>11, <1>12, <2>1, <3>1
    <3>2. CASE f # h
      BY <1>9, <1>10, <2>1, <3>2
    <3> QED
      BY <3>1, <3>2
  <2>2. ASSUME NEW f \in Handles, NEW g \in Handles, p1[f] # 0, p1[f] = p1[g] PROVE f = g
    BY <1>4, <1>9, <1>11, <2>2 DEF Owned
  <2>3. ASSUME NEW c \in L, m2[c].size # 0 PROVE \E f \in Handles : p1[f] # 0 /\ m2[p1[f]].next = c
    <3>1. CASE c = b
      <4>1. p1[h] # 0
        BY <1>1, <2>3, <3>1
      <4> QED
        BY <1>11, <3>1, <4>1
    <3>2. CASE c # b
      <4>1. PICK f \in Handles : ptr[f] # 0 /\ mem[ptr[f]].next = c
        BY <1>4, <1>6, <2>3, <3>2 DEF Owned
      <4>2. f # h
        BY <3>2, <4>1
      <4> QED
        BY <1>10, <4>1, <4>2
    <3> QED
      BY <3>1, <3>2
  <2> QED
    BY <2>1, <2>2, <2>3 DEF Owned
<1>15. Refs(m2, begin_ref, p1)
  <2>1. ASSUME NEW q \in begin_ref .. Size
        PROVE  m2[q].size = None /\ (m2[q].next = 0 \/ \E f \in Handles : p1[f] = q)
    <3>1. CASE q = r
      <4>1. m2[r].next = 0 \/ p1[h] = r
        BY DEF Ref, Info
      <4> QED
        BY <1>7, <3>1, <4>1
    <3>2. CASE q # r
      <4>1. q \in Cells /\ q # b
        BY <1>1, <1>3
      <4>2. m2[q] = mem[q]
        BY <3>2, <4>1
      <4> QED
        BY <1>1, <1>9, <3>2, <4>2 DEF Refs
    <3> QED
      BY <3>1, <3>2
  <2> QED
    BY <2>1 DEF Refs
<1>16. Forward(m2)
  <2>1. mem[b].next \in b + 1 .. End
    <3>1. mem[b].size # None
      BY <1>1
    <3> QED
      BY <1>1, <1>3, <3>1 DEF Forward
  <2>2. ASSUME NEW c \in Cells
        PROVE  m2[c].size = None \/ m2[c].next \in c + 1 .. End \/ m2[c] = mem[c]
    BY <1>7, <2>1
  <2> QED
    BY <1>3, <2>2 DEF Forward
<1>17. Others(m2, p1, h) = Others(mem, ptr, h)
  <2>1. \A g \in Handles : g # h =>
           p1[g] = ptr[g] /\ (ptr[g] # 0 => CellsOf(m2, p1, g) = CellsOf(mem, ptr, g))
    BY <1>9, <1>10
  <2> QED
    BY <2>1, OthersKept
<1>18. TakenBy(m2, p1) = Cardinality(Others(mem, ptr, h)) + (IF p1[h] = 0 THEN 0 ELSE k + 1)
  <2>1. Cardinality(Others(mem, ptr, h)) \in Nat
    BY LiveBlock
  <2>2. CASE p1[h] = 0
    <3>1. TakenBy(m2, p1) = Cardinality(Others(m2, p1, h))
      BY <2>2, TakenWithout
    <3> QED
      BY <1>17, <2>1, <2>2, <3>1
  <2>3. CASE p1[h] # 0
    <3>1. CellsOf(m2, p1, h) = b .. (b + Header + k - 1)
      BY <1>11, <2>3 DEF CellsOf
    <3>2. b + Header + k - 1 = b + k /\ k \in Nat /\ b \in Nat
      BY <1>1
    <3>3. TakenBy(m2, p1) = Cardinality(Others(m2, p1, h)) + k + 1
      BY <1>3, <1>8, <1>13, <2>3, <3>1, <3>2, TakenSplits
    <3> QED
      BY <1>17, <2>1, <2>3, <3>2, <3>3
  <2> QED
    BY <2>2, <2>3
<1>19. p1[h] # 0 => SizeOf(m2, p1, h) = k
  BY <1>11 DEF SizeOf
<1>20. OthersSame(mem, ptr, m2, p1, h)
  BY <1>9, <1>10 DEF OthersSame
<1> QED
  BY <1>8, <1>9, <1>13, <1>15, <1>16, <1>18, <1>19, <1>20

\* After a block has been resized or given up the invariant holds again.
LEMMA ResizedStep ==
  ASSUME Usable, Types, Sound, pc = "idle", NEW h \in Handles, ptr[h] # 0,
         \E L \in SUBSET Cells : List(mem', begin_ref, L) /\ Owned(mem', begin_ref, ptr', L),
         Refs(mem', begin_ref, ptr'), Forward(mem'), ptr' \in [Handles -> 0 .. Size],
         mem' \in [Cells -> Cell],
         allocated' \in Int,
         data_end' = data_end, begin_ref' = begin_ref, pc' = pc, fate' = fate
  PROVE  IInv'
<1>1. data_end > First /\ data_end <= begin_ref
  BY LiveBlock
<1>3. Types'
  BY DEF Types
<1>4. Idle'
  <2>1. PICK L \in SUBSET Cells : List(mem', begin_ref, L) /\ Owned(mem', begin_ref, ptr', L)
    OBVIOUS
  <2>2. Blocks(L)'
    BY <2>1 DEF Blocks
  <2>3. (data_end > First)'
    BY <1>1
  <2> QED
    BY <2>2, <2>3 DEF Idle
<1>5. Sound'
  <2>1. (data_end <= begin_ref)' /\ Refs(mem, begin_ref, ptr)'
    BY <1>1
  <2> QED
    BY <1>4, <2>1 DEF Sound
<1> QED
  BY <1>3, <1>5 DEF IInv

LEMMA SetSize ==
  ASSUME NEW c \in Cell, NEW k \in 0 .. Size
  PROVE  LET q == [c EXCEPT !.size = k] IN
         q \in Cell /\ q.next = c.next /\ q.size = k /\ q.reference = c.reference
BY DEF Cell

LEMMA FreeStep ==
  ASSUME Usable, IInv, NEW h \in Handles, Free(h)
  PROVE  IInv' /\ ptr'[h] = 0 /\ OthersSame(mem, ptr, mem', ptr', h) /\ Balanced
<1> USE Numbers
<1> DEFINE r == ptr[h]
           b == mem[r].next
           s == mem[b].size
           q == [mem[b] EXCEPT !.size = 0]
<1>1. Types /\ Sound /\ pc = "idle" /\ ptr[h] # 0
  BY DEF Free, IInv, Live
<1>2. /\ mem' = [mem EXCEPT ![b].size = 0, ![r] = Ref(0)]
      /\ ptr' = [ptr EXCEPT ![h] = 0] /\ allocated' = allocated - (s + Header)
      /\ data_end' = data_end /\ begin_ref' = begin_ref /\ pc' = pc /\ fate' = fate
  BY DEF Free, Block, SizeAt, Released
<1>3. /\ r \in Cells /\ b \in Cells /\ b # r /\ s \in Nat
      /\ Cardinality(Others(mem, ptr, h)) \in Nat /\ Taken = Cardinality(Others(mem, ptr, h)) + s + 1
  BY <1>1, LiveBlock
<1>4. mem \in [Cells -> Cell] /\ ptr \in [Handles -> 0 .. Size] /\ allocated \in Int
  BY <1>1 DEF Types
<1>5. q \in Cell /\ q.size = 0 /\ q.next = mem[b].next /\ q.reference = mem[b].reference
  <2>1. mem[b] \in Cell /\ 0 \in 0 .. Size
    BY <1>3, <1>4
  <2> QED
    BY <2>1, SetSize
<1>6. mem' = [mem EXCEPT ![b] = q, ![r] = Ref(0)]
  BY <1>2
<1>7. Ref(0) \in Cell
  BY DEF Ref, Info, Cell
<1> HIDE DEF q, s, b, r
<1>8. /\ mem' \in [Cells -> Cell] /\ mem'[b] = q /\ mem'[r] = Ref(0)
      /\ \A c \in Cells : c # b /\ c # r => mem'[c] = mem[c]
  BY <1>3, <1>4, <1>5, <1>6, <1>7
<1>9. ptr'[h] = 0
  BY <1>2, <1>4
<1>10. r = ptr[h] /\ b = mem[r].next /\ 0 \in 0 .. mem[b].size
  BY <1>3 DEF r, b, s
<1> DEFINE k == 0
<1>14. /\ k \in 0 .. mem[b].size /\ mem'[b].size = k
       /\ mem'[b].next = mem[b].next /\ mem'[b].reference = mem[b].reference
       /\ \/ k \in Sizes /\ mem'[r] = mem[r] /\ ptr' = ptr
          \/ k = 0 /\ mem'[r] = Ref(0) /\ ptr' = [ptr EXCEPT ![h] = 0]
  BY <1>2, <1>5, <1>8, <1>10
<1> HIDE DEF k
<1>11. /\ \E L \in SUBSET Cells :
              List(mem', begin_ref, L) /\ Owned(mem', begin_ref, ptr', L)
       /\ Refs(mem', begin_ref, ptr') /\ Forward(mem') /\ ptr' \in [Handles -> 0 .. Size]
       /\ TakenBy(mem', ptr') = Cardinality(Others(mem, ptr, h)) + (IF ptr'[h] = 0 THEN 0 ELSE k + 1)
       /\ ptr'[h] # 0 => SizeOf(mem', ptr', h) = k
       /\ OthersSame(mem, ptr, mem', ptr', h)
  <2>1. \A c \in Cells : c # b /\ c # r => mem'[c] = mem[c]
    BY <1>8
  <2>2. mem' \in [Cells -> Cell] /\ r = ptr[h] /\ b = mem[r].next
    BY <1>8, <1>10
  <2> QED
    BY <1>1, <1>14, <2>1, <2>2, Shrinks, SMTT(30)
<1>12. allocated' \in Int /\ allocated' - TakenBy(mem', ptr') = allocated - Taken
  BY <1>2, <1>3, <1>4, <1>9, <1>11
<1>13. Taken' = TakenBy(mem', ptr')
  BY DEF Taken, TakenBy, Extent, CellsOf, Live, Block, SizeAt
<1> QED
  <2>1. IInv'
    BY <1>1, <1>2, <1>8, <1>11, <1>12, ResizedStep
  <2> QED
    BY <1>9, <1>11, <1>12, <1>13, <2>1 DEF Balanced

\* The reference and the block of h, and its size.
Named(h, r, b, s) == r = ptr[h] /\ b = mem[r].next /\ s = mem[b].size

\* The memory m2 after block b of h has been enlarged from s to n cells.
Enlarged(m, m2, h, b, s, n) ==
  /\ m2 \in [Cells -> Cell]
  /\ m2[b].size = n /\ m2[b].next = m[b].next /\ m2[b].reference = m[b].reference
  /\ \A c \in b + 1 + s .. b + n : c \in Cells => m2[c] = Data(h)
  /\ \A c \in Cells : c # b /\ c \notin b + 1 + s .. b + n => m2[c] = m[c]

\* The block of h is enlarged to n cells: the empty blocks it grows over leave
\* the list, and its own next may name one of its cells, where a walk ends.
LEMMA Grows ==
  ASSUME Usable, Types, Sound, pc = "idle", NEW h \in Handles, ptr[h] # 0,
         NEW r, NEW b, NEW s, Named(h, r, b, s),
         NEW n \in Sizes, s < n, FitsInPlace(b, n),
         NEW m2, Enlarged(mem, m2, h, b, s, n)
  PROVE  /\ \E L \in SUBSET Cells : List(m2, begin_ref, L) /\ Owned(m2, begin_ref, ptr, L)
         /\ Refs(m2, begin_ref, ptr) /\ Forward(m2)
         /\ SizeOf(m2, ptr, h) = n /\ OthersSame(mem, ptr, m2, ptr, h)
<1> USE Numbers
<1>0. /\ m2 \in [Cells -> Cell]
      /\ m2[b].size = n /\ m2[b].next = mem[b].next /\ m2[b].reference = mem[b].reference
      /\ \A c \in Cells : c # b /\ c \notin b + 1 + s .. b + n => m2[c] = mem[c]
  BY DEF Enlarged
<1>a. \A c \in Cells : c \in b + 1 + s .. b + n => m2[c] = Data(h)
  BY DEF Enlarged
<1>b. r = ptr[h] /\ b = mem[r].next /\ s = mem[b].size
  BY DEF Named
<1>1. /\ Refs(mem, begin_ref, ptr) /\ r \in begin_ref .. Size /\ r \in Cells /\ b \in Cells
      /\ b < begin_ref /\ mem[b].reference = r /\ s \in Sizes /\ s \in Nat /\ s > 0
  BY <1>b, LiveBlock
<1>2. PICK L \in SUBSET Cells : Blocks(L) /\ b \in L
  BY <1>b, LiveBlock
<1>3. begin_ref \in First .. End /\ Forward(mem) /\ begin_ref \in Nat /\ n \in Nat
  BY DEF Types
<1>4. List(mem, begin_ref, L) /\ Owned(mem, begin_ref, ptr, L)
  BY <1>2 DEF Blocks
<1>5. \A x \in L : x \in 1 .. begin_ref - 1 /\ mem[x].size \in Nat /\ mem[x].next \in x + 1 .. End
                   /\ mem[x].size # None
  BY <1>4 DEF List
<1>6. \A x, y \in L : x < y => mem[x].next <= y /\ x + 1 + mem[x].size <= y
  BY <1>4 DEF List
<1>7. \A x \in L : mem[x].next \in L \/ mem[x].next >= begin_ref \/ mem[mem[x].next].size = None
  BY <1>4 DEF List
<1>8. b + n < begin_ref /\ \A x \in L : b < x /\ mem[x].size # 0 => b + n < x
  <2> DEFINE g == GetNext(mem, b)
             d == Min2(g, begin_ref) - b
  <2>1. Reaches(mem, begin_ref, L, mem[b].next, g)
    BY <1>2, <1>3, <1>4, NextReaches
  <2>2. g # 0 /\ d % Word >= n + Header
    BY Zenon DEF FitsInPlace
  <2>3. g = begin_ref \/ (g \in L /\ mem[b].next <= g)
    BY <2>1, <2>2 DEF Reaches
  <2> HIDE DEF g
  <2>4. g \in Nat /\ b < g /\ g <= begin_ref /\ b \in Nat /\ b >= 1
    <3>1. mem[b].next \in b + 1 .. End /\ b \in 1 .. begin_ref - 1
      BY <1>2, <1>5
    <3>2. g = begin_ref \/ (g \in 1 .. begin_ref - 1 /\ mem[b].next <= g)
      BY <1>5, <2>3
    <3> QED
      BY <1>3, <3>1, <3>2
  <2>5. d = g - b
    BY <1>3, <2>4 DEF Min2
  <2>6. d \in Nat /\ d < Word
    <3> HIDE DEF d
    <3> QED
      BY <1>3, <2>4, <2>5
  <2>7. g - b >= n + 1
    <3>1. d % Word = d
      BY <2>6, ModSmall
    <3> HIDE DEF d
    <3> QED
      BY <1>3, <2>2, <2>5, <3>1
  <2>8. ASSUME NEW x \in L, b < x, mem[x].size # 0 PROVE g <= x
    <3>1. mem[b].next <= x /\ x \in Nat /\ x < begin_ref
      BY <1>2, <1>3, <1>5, <1>6, <2>8
    <3> QED
      BY <1>3, <2>1, <2>2, <2>4, <2>8, <3>1 DEF Reaches
  <2> QED
    BY <1>3, <1>5, <2>4, <2>7, <2>8
<1> DEFINE K == {x \in L : x <= b \/ x > b + n}
<1>9. b \in Nat /\ b >= 1 /\ b + n < begin_ref /\ b \in K /\ K \subseteq L
  BY <1>1, <1>2, <1>8
<1>10. \A x \in K : x < b \/ x = b \/ x > b + n
  BY <1>5, <1>9
<1>11. \A x \in K : x # b => m2[x] = mem[x]
  <2> SUFFICES ASSUME NEW x \in K, x # b PROVE m2[x] = mem[x]
    OBVIOUS
  <2>1. x \in Cells /\ x \in Nat
    BY <1>3, <1>5
  <2>2. x \notin b + 1 + s .. b + n
    <3> HIDE DEF K
    <3> QED
      BY <1>1, <1>3, <1>9, <1>10, <2>1
  <2> QED
    BY <1>0, <2>1, <2>2
<1>12. \A x \in L : mem[x].size # 0 => x \in K
  BY <1>5, <1>8, <1>9
<1>13. List(m2, begin_ref, K)
  <2>1. First \in K /\ K \subseteq First .. begin_ref - 1
    BY <1>4, <1>5, <1>9 DEF List
  <2>2. \A x \in K : m2[x].size \in Nat /\ m2[x].next = mem[x].next /\ m2[x].next \in x + 1 .. End
    BY <1>0, <1>3, <1>5, <1>9, <1>11
  <2>3. ASSUME NEW x \in K, NEW y \in K, x < y
        PROVE  m2[x].next <= y /\ x + Header + m2[x].size <= y
    <3>1. mem[x].next <= y /\ x + 1 + mem[x].size <= y
      BY <1>6, <2>3
    <3>2. CASE x = b
      <4>1. y > b + n /\ y \in Nat
        BY <1>5, <1>9, <1>10, <2>3, <3>2
      <4> HIDE DEF K
      <4> QED
        BY <1>0, <1>3, <1>9, <3>1, <3>2, <4>1
    <3>3. CASE x # b
      BY <1>11, <3>1, <3>3
    <3> QED
      BY <3>2, <3>3
  <2>4. ASSUME NEW x \in K
        PROVE  m2[x].next \in K \/ m2[x].next >= begin_ref \/ m2[m2[x].next].size = None
    <3> DEFINE e == mem[x].next
    <3>1. m2[x].next = e /\ e \in Nat /\ e > x /\ x \in Nat /\ x >= 1
      <4>1. m2[x].next = e /\ e \in x + 1 .. End /\ x \in 1 .. begin_ref - 1
        BY <1>5, <1>9, <2>2
      <4> HIDE DEF e
      <4> QED
        BY <4>1
    <3>2. e \in L \/ e >= begin_ref \/ mem[e].size = None
      BY <1>7
    <3>3. x < b => e <= b
      BY <1>6, <1>9
    <3> HIDE DEF e
    <3>4. CASE e \in b + 1 + s .. b + n
      <4>1. e \in Cells
        BY <1>1, <1>3, <1>9, <3>1, <3>4
      <4>2. m2[e].size = None
        BY <1>a, <3>4, <4>1 DEF Data, Info
      <4> QED
        BY <3>1, <4>2
    <3>5. CASE e \notin b + 1 + s .. b + n /\ e < begin_ref
      <4>1. e \in Cells
        BY <1>3, <3>1, <3>5
      <4>2. CASE e \in L
        <5>1. x >= b => e > b + n
          <6>1. x >= b => e > b
            BY <1>9, <3>1
          <6>2. e > b => b + 1 + s <= e
            BY <1>2, <1>6, <1>b, <4>2
          <6> QED
            BY <1>1, <1>9, <3>1, <3>5, <6>1, <6>2
        <5>2. e \in K
          BY <1>9, <3>1, <3>3, <4>2, <5>1
        <5> QED
          BY <3>1, <5>2
      <4>3. CASE e \notin L
        <5>1. mem[e].size = None /\ e # b
          BY <1>2, <1>3, <3>1, <3>2, <3>5, <4>3
        <5> QED
          BY <1>0, <3>1, <3>5, <4>1, <5>1
      <4> QED
        BY <4>2, <4>3
    <3>6. CASE e >= begin_ref
      BY <3>1, <3>6
    <3> QED
      BY <1>3, <3>1, <3>4, <3>5, <3>6
  <2> HIDE DEF K
  <2> QED
    BY <2>1, <2>2, <2>3, <2>4 DEF List
<1>14. \A q \in begin_ref .. Size : m2[q] = mem[q]
  <2> SUFFICES ASSUME NEW q \in begin_ref .. Size PROVE m2[q] = mem[q]
    OBVIOUS
  <2>1. q \in Cells /\ q # b /\ q \notin b + 1 + s .. b + n
    BY <1>1, <1>3, <1>9
  <2> QED
    BY <1>0, <2>1
<1>15. ASSUME NEW f \in Handles, ptr[f] # 0, f # h
       PROVE  /\ Owns(m2, begin_ref, ptr[f], K, f)
              /\ SizeOf(m2, ptr, f) = SizeOf(mem, ptr, f)
  <2> DEFINE q == ptr[f]
             c == mem[q].next
             z == mem[c].size
  <2>1. /\ q \in begin_ref .. Size /\ c \in L /\ mem[c].reference = q
        /\ z \in Sizes /\ c + Header + z <= begin_ref
        /\ \A i \in 1 .. z : mem[c + i] = Data(f)
    BY <1>4, <1>15 DEF Owned, Owns
  <2>2. q # r
    BY <1>b, <1>4, <1>15 DEF Owned
  <2>3. SizeOf(m2, ptr, f) = m2[m2[q].next].size /\ SizeOf(mem, ptr, f) = z
    BY DEF SizeOf
  <2> HIDE DEF q
  <2>4. m2[q] = mem[q] /\ m2[q].next = c
    BY <1>14, <2>1
  <2> HIDE DEF c
  <2>5. z \in Nat /\ z > 0 /\ c \in K /\ c # b
    BY <1>1, <1>5, <1>12, <2>1, <2>2 DEF Usable
  <2>6. m2[c] = mem[c]
    BY <1>11, <2>5
  <2>7. c < b => c + 1 + z <= b
    BY <1>2, <1>6, <2>1
  <2>8. c \in Nat /\ c >= 1
    BY <1>5, <2>1
  <2> HIDE DEF z
  <2>9. ASSUME NEW i \in 1 .. z PROVE m2[c + i] = Data(f)
    <3>1. c + i \in Cells
      BY <1>3, <2>1, <2>5, <2>8
    <3>2. c < b \/ c > b + n
      BY <1>10, <2>5
    <3>3. c + i # b /\ c + i \notin b + 1 + s .. b + n
      <4> HIDE DEF K
      <4>1. CASE c < b
        BY <1>1, <1>3, <1>9, <2>5, <2>7, <2>8, <4>1
      <4>2. CASE c > b + n
        BY <1>1, <1>3, <1>9, <2>5, <2>8, <4>2
      <4> QED
        BY <3>2, <4>1, <4>2
    <3> QED
      BY <1>0, <2>1, <3>1, <3>3
  <2>10. Owns(m2, begin_ref, q, K, f)
    BY <2>1, <2>4, <2>5, <2>6, <2>9 DEF Owns, z
  <2>11. SizeOf(m2, ptr, f) = SizeOf(mem, ptr, f)
    BY <2>3, <2>4, <2>6 DEF z
  <2> QED
    BY <2>10, <2>11 DEF q
<1>16. m2[r] = mem[r] /\ m2[r].next = b
  BY <1>b, <1>1, <1>14
<1>17. Owns(m2, begin_ref, r, K, h)
  <2> HIDE DEF K
  <2>1. \A i \in 1 .. s : mem[b + i] = Data(h)
    BY <1>b, <1>4 DEF Owned, Owns
  <2>2. ASSUME NEW i \in 1 .. n PROVE m2[b + i] = Data(h)
    <3>1. b + i \in Cells /\ b + i # b
      BY <1>3, <1>9
    <3>2. CASE i <= s
      <4>1. b + i \notin b + 1 + s .. b + n /\ i \in 1 .. s
        BY <1>1, <1>3, <1>9, <3>2
      <4> QED
        BY <1>0, <2>1, <3>1, <4>1
    <3>3. CASE i > s
      <4>1. b + i \in b + 1 + s .. b + n
        BY <1>1, <1>3, <1>9, <3>3
      <4> QED
        BY <1>a, <3>1, <4>1
    <3> QED
      BY <1>1, <1>3, <3>2, <3>3
  <2>3. b + Header + n <= begin_ref
    BY <1>3, <1>9
  <2> QED
    BY <1>0, <1>1, <1>9, <1>16, <2>2, <2>3 DEF Owns
<1> HIDE DEF K
<1>18. Owned(m2, begin_ref, ptr, K)
  <2>1. \A f \in Handles : ptr[f] # 0 => Owns(m2, begin_ref, ptr[f], K, f)
    BY <1>b, <1>15, <1>17
  <2>2. \A f, g \in Handles : ptr[f] # 0 /\ ptr[f] = ptr[g] => f = g
    BY <1>4 DEF Owned
  <2>3. ASSUME NEW x \in K, m2[x].size # 0 PROVE \E f \in Handles : ptr[f] # 0 /\ m2[ptr[f]].next = x
    <3>1. CASE x = b
      BY <1>b, <1>16, <3>1
    <3>2. CASE x # b
      <4>1. PICK f \in Handles : ptr[f] # 0 /\ mem[ptr[f]].next = x
        BY <1>4, <1>9, <1>11, <2>3, <3>2 DEF Owned
      <4>2. ptr[f] \in begin_ref .. Size
        BY <1>4, <4>1 DEF Owned, Owns
      <4> QED
        BY <1>14, <4>1, <4>2
    <3> QED
      BY <3>1, <3>2
  <2> QED
    BY <2>1, <2>2, <2>3 DEF Owned
<1>19. Refs(m2, begin_ref, ptr)
  BY <1>1, <1>14 DEF Refs
<1>20. Forward(m2)
  <2>1. ASSUME NEW c \in Cells
        PROVE  m2[c].size = None \/ m2[c].next \in c + 1 .. End \/ m2[c] = mem[c]
    <3>1. CASE c = b
      BY <1>0, <1>2, <1>5, <3>1
    <3>2. CASE c \in b + 1 + s .. b + n
      BY <1>a, <3>2 DEF Data, Info
    <3>3. CASE c # b /\ c \notin b + 1 + s .. b + n
      BY <1>0, <3>3
    <3> QED
      BY <3>1, <3>2, <3>3
  <2> QED
    BY <1>3, <2>1, ForwardKept
<1>21. SizeOf(m2, ptr, h) = n
  BY <1>0, <1>b, <1>16 DEF SizeOf
<1>22. OthersSame(mem, ptr, m2, ptr, h)
  BY <1>15 DEF OthersSame
<1>23. K \in SUBSET Cells
  BY <1>2, <1>9
<1> QED
  BY <1>13, <1>18, <1>19, <1>20, <1>21, <1>22, <1>23

LEMMA ReallocInPlaceStep ==
  ASSUME Usable, IInv, NEW h \in Handles, NEW n \in Sizes, ReallocInPlace(h, n)
  PROVE  IInv' /\ Obtains(h, n)
<1> USE Numbers
<1> DEFINE r == ptr[h]
           b == mem[r].next
           s == mem[b].size
           q == [mem[b] EXCEPT !.size = n]
           more == b + 1 + s .. b + n
<1>1. Types /\ Sound /\ pc = "idle" /\ ptr[h] # 0 /\ FitsInPlace(b, n)
  BY DEF ReallocInPlace, IInv, Live, Block, SizeAt
<1>2. /\ mem' = Write([mem EXCEPT ![b].size = n], h, b + Header + s, b + Header + n - 1)
      /\ UNCHANGED <<ptr, allocated, data_end, begin_ref, pc, fate>>
  BY DEF ReallocInPlace, Block, SizeAt, info
<1>3. /\ r \in begin_ref .. Size /\ r \in Cells /\ b \in Cells /\ b < begin_ref /\ b # r
      /\ s \in Nat
  BY <1>1, LiveBlock
<1>4. /\ mem \in [Cells -> Cell] /\ ptr \in [Handles -> 0 .. Size] /\ allocated \in Int
      /\ begin_ref \in First .. End
  BY <1>1 DEF Types
<1>5. n \in 0 .. Size /\ n \in Nat
  <2>1. (Min2(GetNext(mem, b), begin_ref) - b) % Word >= n + Header /\ GetNext(mem, b) # 0
    BY <1>1 DEF FitsInPlace
  <2>2. PICK L \in SUBSET Cells : Blocks(L) /\ b \in L
    BY <1>1, LiveBlock
  <2>3. b < GetNext(mem, b) /\ GetNext(mem, b) \in Nat
    <3>1. Forward(mem) /\ List(mem, begin_ref, L)
      BY <1>1, <2>2 DEF Types, Blocks
    <3>2. IsInfo(mem, b)
      BY <1>3 DEF IsInfo
    <3> HIDE DEF b
    <3>3. GetNext(mem, b) \in b + 1 .. End
      BY <1>3, <1>4, <2>1, <3>1, <3>2, NextGoesUp
    <3> QED
      BY <1>3, <3>3
  <2> DEFINE g == GetNext(mem, b)
             d == Min2(g, begin_ref) - b
  <2>4. d \in 0 .. Size /\ d % Word = d
    <3>1. d \in 0 .. Size
      <4> HIDE DEF g, b
      <4> QED
        BY <1>3, <1>4, <2>3 DEF Min2, g
    <3> HIDE DEF d
    <3> QED
      BY <3>1, ModSmall
  <2>5. d >= n + 1
    BY <2>1, <2>4
  <2> HIDE DEF d
  <2> QED
    BY <2>4, <2>5
<1>6. q \in Cell /\ q.size = n /\ q.next = mem[b].next /\ q.reference = mem[b].reference
  <2>1. mem[b] \in Cell
    BY <1>3, <1>4
  <2>2. n \in 0 .. Size
    BY <1>3, <1>4, <1>5
  <2> QED
    BY <2>1, <2>2, SetSize
<1>7. mem' = [c \in Cells |-> IF c \in more THEN Data(h) ELSE IF c = b THEN q ELSE mem[c]]
  <2> DEFINE m1 == [mem EXCEPT ![b] = q]
  <2>1. [mem EXCEPT ![b].size = n] = m1
    OBVIOUS
  <2>2. b + Header + s .. b + Header + n - 1 = more
    <3> HIDE DEF b, s
    <3> QED
      BY <1>3, <1>5
  <2>3. \A c \in Cells : m1[c] = IF c = b THEN q ELSE mem[c]
    <3> HIDE DEF q
    <3> QED
      BY <1>3, <1>4
  <2>4. mem' = [c \in Cells |-> IF c \in more THEN Data(h) ELSE m1[c]]
    <3>1. mem' = Write(m1, h, b + Header + s, b + Header + n - 1)
      BY <1>2, <2>1
    <3> HIDE DEF m1, more, q, b, s
    <3> QED
      BY <2>2, <3>1, Zenon DEF Write
  <2> HIDE DEF m1, more, q
  <2> QED
    BY <2>3, <2>4
<1>8. Data(h) \in Cell
  BY DEF Data, Info, Cell
<1> HIDE DEF q, s, b, r
<1>9. b \notin more
  BY <1>3, <1>5
<1>10. r = ptr[h] /\ b = mem[r].next /\ s = mem[b].size
  BY DEF r, b, s
<1> DEFINE m2 == [c \in Cells |-> IF c \in more THEN Data(h) ELSE IF c = b THEN q ELSE mem[c]]
<1>11. /\ m2 \in [Cells -> Cell] /\ m2[b] = q
       /\ \A c \in more : c \in Cells => m2[c] = Data(h)
       /\ \A c \in Cells : c # b /\ c \notin more => m2[c] = mem[c]
  <2> HIDE DEF more
  <2> QED
    BY <1>3, <1>4, <1>6, <1>8, <1>9
<1> HIDE DEF m2
<1>12. /\ m2[b].size = n /\ m2[b].next = mem[b].next /\ m2[b].reference = mem[b].reference
       /\ \A c \in b + 1 + s .. b + n : c \in Cells => m2[c] = Data(h)
       /\ \A c \in Cells : c # b /\ c \notin b + 1 + s .. b + n => m2[c] = mem[c]
  BY <1>6, <1>11
<1>13. /\ \E L \in SUBSET Cells : List(m2, begin_ref, L) /\ Owned(m2, begin_ref, ptr, L)
       /\ Refs(m2, begin_ref, ptr) /\ Forward(m2)
       /\ SizeOf(m2, ptr, h) = n /\ OthersSame(mem, ptr, m2, ptr, h)
  <2>1. CASE s < n
    <3>1. Enlarged(mem, m2, h, b, s, n) /\ Named(h, r, b, s)
      BY <1>10, <1>11, <1>12 DEF Enlarged, Named
    <3> HIDE DEF more
    <3> QED
      BY <1>1, <2>1, <3>1, Grows
  <2>2. CASE ~ (s < n)
    <3>1. n \in 0 .. mem[b].size
      BY <1>3, <1>5, <1>10, <2>2
    <3>2. \A c \in Cells : c # b => m2[c] = mem[c]
      <4>1. more = {}
        BY <1>3, <1>5, <2>2
      <4> HIDE DEF more
      <4> QED
        BY <1>11, <4>1
    <3>3. m2[r] = mem[r] /\ \A c \in Cells : c # b /\ c # r => m2[c] = mem[c]
      BY <1>3, <3>2
    <3>4. ptr[h] # 0 => SizeOf(m2, ptr, h) = n
      BY <1>1, <1>10, <1>11, <1>12, <3>1, <3>3, Shrinks, SMTT(30)
    <3> HIDE DEF more
    <3>5. /\ \E L \in SUBSET Cells : List(m2, begin_ref, L) /\ Owned(m2, begin_ref, ptr, L)
          /\ Refs(m2, begin_ref, ptr) /\ Forward(m2)
          /\ OthersSame(mem, ptr, m2, ptr, h)
      BY <1>1, <1>10, <1>11, <1>12, <3>1, <3>3, Shrinks, SMTT(30)
    <3> QED
      BY <1>1, <3>4, <3>5
  <2> QED
    BY <2>1, <2>2
<1>14. mem' = m2 /\ ptr' = ptr /\ allocated' \in Int
  BY <1>2, <1>4, <1>7 DEF m2
<1> QED
  <2>1. IInv'
    BY <1>1, <1>2, <1>4, <1>11, <1>13, <1>14, ResizedStep
  <2> QED
    BY <1>1, <1>13, <1>14, <2>1 DEF Obtains

LEMMA SetReference ==
  ASSUME NEW c \in Cell, NEW r \in 0 .. Size
  PROVE  LET q == [c EXCEPT !.reference = r] IN q \in Cell /\ q = Info(c.next, r, c.size)
BY DEF Cell, Info

\* The memory after realloc has copied the old block, freed its place and let the
\* old reference name the new block.
Copying(m1, h, n, s, r, rs, b, to, x) ==
  /\ m1 \in [Cells -> Cell] /\ n \in Nat /\ s \in Nat
  /\ r \in Cells /\ rs \in Cells /\ b \in Cells /\ to \in Cells
  /\ r # rs /\ b # to /\ b < r /\ b < rs /\ to + 1 + n <= r /\ to + 1 + n <= rs
  /\ to + n < b \/ b < to
  /\ m1[to] = Info(x, rs, n) /\ m1[b].size = s /\ \A i \in 1 .. s : m1[b + i] = Data(h)
  /\ Placed(n).mem = m1 /\ Placed(n).to = to /\ Placed(n).ref = rs /\ Block(h) = b /\ ptr[h] = r

LEMMA MovedCopies ==
  ASSUME NEW h \in Handles, NEW m1, NEW n, NEW s, NEW r, NEW rs, NEW b, NEW to, NEW x,
         Copying(m1, h, n, s, r, rs, b, to, x),
         NEW m2, m2 = Write(Moved(h, n), h, to + Header + s, to + Header + n - 1)
  PROVE  /\ m2 \in [Cells -> Cell]
         /\ m2[rs] = Ref(0) /\ m2[b].size = 0 /\ m2[b].next = m1[b].next
         /\ m2[r] = Ref(to) /\ m2[to] = Info(x, r, n) /\ \A i \in 1 .. n : m2[to + i] = Data(h)
         /\ \A c \in Cells :
              c \notin to .. to + n /\ c # r /\ c # rs /\ c # b => m2[c] = m1[c]
<1> USE Numbers
<1>0. /\ m1 \in [Cells -> Cell] /\ n \in Nat /\ s \in Nat
      /\ r \in Cells /\ rs \in Cells /\ b \in Cells /\ to \in Cells
      /\ r # rs /\ b # to /\ b < r /\ b < rs /\ to + 1 + n <= r /\ to + 1 + n <= rs
      /\ to + n < b \/ b < to
      /\ m1[to] = Info(x, rs, n) /\ m1[b].size = s /\ \A i \in 1 .. s : m1[b + i] = Data(h)
      /\ Placed(n).mem = m1 /\ Placed(n).to = to /\ Placed(n).ref = rs /\ Block(h) = b /\ ptr[h] = r
  BY DEF Copying
<1> USE <1>0
<1> DEFINE kept == Min2(m1[b].size, n)
           copied == [c \in Cells |-> IF c - to - Header \in 0 .. (kept - 1)
                                      THEN m1[c - to + b] ELSE m1[c]]
           q == [m1[b] EXCEPT !.size = 0]
           z == [m1[to] EXCEPT !.reference = r]
           m3 == [copied EXCEPT ![b] = q, ![r] = Ref(to), ![rs] = Ref(0), ![to] = z]
<1>1. Data(h) \in Cell /\ Ref(0) \in Cell /\ Ref(to) \in Cell
  BY SMTT(30) DEF Data, Ref, Info, Cell
<1>2. kept \in Nat /\ kept <= s /\ kept <= n /\ (kept = s \/ kept = n)
  BY DEF Min2
<1> HIDE DEF kept
<1>3. \A c \in Cells : c - to - Header \in 0 .. (kept - 1) <=> c \in to + 1 .. to + kept
  BY <1>2
<1>4. ASSUME NEW c \in to + 1 .. to + kept PROVE m1[c - to + b] = Data(h)
  <2>1. c - to \in 1 .. s /\ c - to + b = b + (c - to)
    BY <1>2
  <2> QED
    BY <2>1
<1>5. copied = [c \in Cells |-> IF c \in to + 1 .. to + kept THEN Data(h) ELSE m1[c]]
  BY <1>3, <1>4
<1> HIDE DEF copied
<1>6. /\ copied \in [Cells -> Cell]
      /\ \A c \in Cells : c \in to + 1 .. to + kept => copied[c] = Data(h)
      /\ \A c \in Cells : c \notin to + 1 .. to + kept => copied[c] = m1[c]
  BY <1>1, <1>5
<1>7. b \notin to + 1 .. to + kept /\ to \notin to + 1 .. to + kept
  BY <1>2
<1>8. copied[b] = m1[b] /\ copied[to] = m1[to]
  BY <1>6, <1>7
<1>9. q \in Cell /\ q.size = 0 /\ q.next = m1[b].next
  <2>1. m1[b] \in Cell /\ 0 \in 0 .. Size
    OBVIOUS
  <2> QED
    BY <2>1, SetSize
<1>10. z \in Cell /\ z = Info(x, r, n)
  <2>1. m1[to].next = x /\ m1[to].size = n
    BY DEF Info
  <2>2. m1[to] \in Cell /\ r \in 0 .. Size
    OBVIOUS
  <2> QED
    BY <2>1, <2>2, SetReference, SMTT(30)
<1>11. Moved(h, n) = m3
  <2>1. Moved(h, n) = [copied EXCEPT ![b].size = 0, ![r] = Ref(to), ![rs] = Ref(0), ![to].reference = r]
    BY Zenon DEF Moved, copied, kept
  <2>2. [copied EXCEPT ![b].size = 0] = [copied EXCEPT ![b] = q]
    BY <1>8
  <2> DEFINE m4 == [copied EXCEPT ![b] = q, ![r] = Ref(to), ![rs] = Ref(0)]
  <2>3. [copied EXCEPT ![b].size = 0, ![r] = Ref(to), ![rs] = Ref(0)] = m4
    BY <2>2
  <2>4. m4[to] = m1[to]
    <3>1. to # b /\ to # r /\ to # rs
      OBVIOUS
    <3> HIDE DEF q
    <3> QED
      BY <1>6, <1>8, <1>9, <1>1, <3>1
  <2>5. Moved(h, n) = [m4 EXCEPT ![to].reference = r]
    BY <2>1, <2>3
  <2>6. [m4 EXCEPT ![to].reference = r] = [m4 EXCEPT ![to] = z]
    BY <2>4
  <2> QED
    BY <2>5, <2>6
<1> HIDE DEF q, z
<1>12. /\ m3 \in [Cells -> Cell] /\ m3[b] = q /\ m3[r] = Ref(to) /\ m3[rs] = Ref(0) /\ m3[to] = z
       /\ \A c \in Cells : c \notin {b, r, rs, to} => m3[c] = copied[c]
  <2>1. to # b /\ to # r /\ to # rs /\ b # r /\ b # rs
    OBVIOUS
  <2> QED
    BY <1>1, <1>6, <1>9, <1>10, <2>1
<1> HIDE DEF m3
<1>13. m2 = [c \in Cells |-> IF c \in to + 1 + s .. to + n THEN Data(h) ELSE m3[c]]
  <2>1. to + Header + s = to + 1 + s /\ to + Header + n - 1 = to + n
    OBVIOUS
  <2> QED
    BY <1>11, <2>1 DEF Write
<1>14. m2 \in [Cells -> Cell]
  BY <1>1, <1>12, <1>13
<1>15. \A c \in Cells : c \notin to + 1 .. to + n => m2[c] = m3[c]
  <2>1. \A c \in Cells : c \notin to + 1 .. to + n => c \notin to + 1 + s .. to + n
    OBVIOUS
  <2> QED
    BY <1>13, <2>1
<1>16. /\ m2[rs] = Ref(0) /\ m2[b] = q /\ m2[r] = Ref(to) /\ m2[to] = z
  <2>1. rs \notin to + 1 .. to + n /\ r \notin to + 1 .. to + n /\ b \notin to + 1 .. to + n
        /\ to \notin to + 1 .. to + n
    OBVIOUS
  <2> QED
    BY <1>12, <1>15, <2>1
<1>17. ASSUME NEW i \in 1 .. n PROVE m2[to + i] = Data(h)
  <2>1. to + i \in Cells /\ to + i \notin {b, r, rs, to}
    OBVIOUS
  <2>2. CASE i > s
    BY <1>13, <2>1, <2>2
  <2>3. CASE i <= s
    <3>1. to + i \notin to + 1 + s .. to + n
      BY <2>3
    <3>2. to + i \in to + 1 .. to + kept
      BY <1>2, <2>3
    <3>3. m2[to + i] = m3[to + i]
      BY <1>13, <2>1, <3>1
    <3> QED
      BY <1>6, <1>12, <2>1, <3>2, <3>3
  <2> QED
    BY <2>2, <2>3
<1>18. \A c \in Cells : c \notin to .. to + n /\ c # r /\ c # rs /\ c # b => m2[c] = m1[c]
  <2> SUFFICES ASSUME NEW c \in Cells, c \notin to .. to + n, c # r, c # rs, c # b PROVE m2[c] = m1[c]
    OBVIOUS
  <2>1. c \notin to + 1 .. to + n /\ c \notin to + 1 .. to + kept /\ c # to
    BY <1>2
  <2> QED
    BY <1>6, <1>12, <1>15, <2>1
<1> QED
  BY <1>9, <1>10, <1>14, <1>16, <1>17, <1>18

LEMMA ReallocMovesStep ==
  ASSUME Usable, IInv, NEW h \in Handles, NEW n \in Sizes, ReallocMoves(h, n),
         ~ (fate' = "ok" /\ RefInBlock(n))
  PROVE  IInv' /\ (Lost \/ Obtains(h, n)) /\ Balanced
<1> USE Numbers
<1> DEFINE r == ptr[h]
           b == mem[r].next
           s == mem[b].size
<1>1. /\ Types /\ Sound /\ pc = "idle" /\ fate = "ok" /\ ptr[h] # 0 /\ ~ Fails(n)
      /\ allocated \in Int
  BY DEF ReallocMoves, IInv, Types, Live
<1>2. CASE Lost
  BY <1>2, LostStep
<1>3. CASE ~ Lost
  <2> DEFINE m1 == Placed(n).mem
             br1 == Placed(n).begin_ref
             top == Placed(n).data_end
             to == Placed(n).to
             rs == Placed(n).ref
  <2>1. /\ ~ WalksOff(n)
        /\ mem' = Write(Moved(h, n), h, to + Header + s, to + Header + n - 1)
        /\ allocated' = Placed(n).allocated - Released(s) /\ data_end' = top /\ begin_ref' = br1
        /\ ptr' = ptr /\ pc' = pc /\ fate' = fate
    BY <1>3, Zenon DEF ReallocMoves, Block, SizeAt
  <2>2. PICK K, x : WellPlaced(m1, br1, top, to, rs, n, x, K)
    <3>1. ~ RefInBlock(n)
      BY <1>1, <2>1
    <3> QED
      BY <1>1, <2>1, <3>1, AllocPlaces
  <2>3. allocated' = allocated + (n + Header) - (s + Header)
    <3>1. Placed(n).allocated = allocated + (n + Header)
      BY PlacedParts
    <3>2. Released(s) = s + Header
      BY DEF Released
    <3>3. allocated' = Placed(n).allocated - Released(s)
      BY <2>1
    <3>4. s \in Nat /\ n \in Nat /\ allocated \in Int
      BY <1>1, LiveBlock
    <3> HIDE DEF s
    <3> QED
      BY <3>1, <3>2, <3>3, <3>4
  <2>4. /\ Cardinality(Others(mem, ptr, h)) \in Nat
        /\ Taken = Cardinality(Others(mem, ptr, h)) + s + 1 /\ r \in Cells /\ b \in Cells /\ s \in Nat
    BY <1>1, LiveBlock
  <2>5. Block(h) = b
    BY DEF Block
  <2>6. Placed(n).mem = m1 /\ Placed(n).to = to /\ Placed(n).ref = rs /\ ptr[h] = r
    OBVIOUS
  <2> HIDE DEF m1, br1, top, to, rs
  <2>7. /\ to \in Cells /\ to + 1 + n <= br1 /\ rs \in br1 .. Size /\ br1 \in 1 .. Size + 1
        /\ m1 \in [Cells -> Cell] /\ m1[to] = Info(x, rs, n) /\ n \in Nat /\ to \in K
        /\ List(m1, br1, K) /\ rs \in Cells
    <3>1. begin_ref \in First .. End
      BY <1>1 DEF Types
    <3> QED
      BY <2>2, <3>1 DEF WellPlaced
  <2>8. /\ r # rs /\ r \in br1 .. Size /\ b \in K /\ m1[b].size = s
        /\ \A i \in 1 .. s : m1[b + i] = Data(h)
        /\ b + 1 + s <= to \/ to + 1 + n <= b
    <3>1. Keeps(m1, br1, to, n, K, h) /\ ptr[h] # rs
      BY <1>1, <2>2 DEF WellPlaced
    <3> QED
      BY <3>1 DEF Keeps
  <2> HIDE DEF r, s, b
  <2>9. b < br1
    <3>1. K \subseteq First .. br1 - 1
      BY <2>7 DEF List
    <3> QED
      BY <2>7, <2>8, <3>1
  <2>10. /\ b # to /\ b < r /\ b < rs /\ to + 1 + n <= r /\ to + 1 + n <= rs
         /\ to + n < b \/ b < to
    BY <2>4, <2>7, <2>8, <2>9
  <2>11. /\ mem' \in [Cells -> Cell]
         /\ mem'[rs] = Ref(0) /\ mem'[b].size = 0 /\ mem'[b].next = m1[b].next
         /\ mem'[r] = Ref(to) /\ mem'[to] = Info(x, r, n) /\ \A i \in 1 .. n : mem'[to + i] = Data(h)
         /\ \A c \in Cells :
              c \notin to .. to + n /\ c # r /\ c # rs /\ c # b => mem'[c] = m1[c]
    <3>1. mem' = Write(Moved(h, n), h, to + Header + s, to + Header + n - 1)
      BY <2>1
    <3>2. m1 \in [Cells -> Cell] /\ n \in Nat /\ s \in Nat /\ r \in Cells /\ rs \in Cells
          /\ b \in Cells /\ to \in Cells /\ m1[to] = Info(x, rs, n) /\ r # rs
      BY <2>4, <2>7, <2>8
    <3>3. m1[b].size = s /\ \A i \in 1 .. s : m1[b + i] = Data(h)
      BY <2>8
    <3>4. Copying(m1, h, n, s, r, rs, b, to, x)
      BY <2>5, <2>6, <2>10, <3>2, <3>3 DEF Copying
    <3> QED
      BY <3>1, <3>4, MovedCopies
  <2>12. ptr' = [ptr EXCEPT ![h] = r]
    BY <1>1, <2>1 DEF Types, r
  <2>13. Settled(m1, mem', ptr', br1, to, rs, n, x, h, r)
    BY <1>1, <2>11, <2>12 DEF Settled, r, b
  <2>14. allocated' \in Int
    BY <1>1, <2>3, <2>4, <2>7
  <2>15. data_end' = top /\ begin_ref' = br1 /\ pc' = pc /\ fate' = fate
    BY <2>1
  <2>16. IInv' /\ Obtains(h, n) /\ Taken' = Cardinality(Others(mem, ptr, h)) + n + 1
    BY <1>1, <2>2, <2>13, <2>14, <2>15, SettledStep, Zenon DEF m1, br1, top, to, rs
  <2>17. Balanced
    BY <1>1, <2>3, <2>4, <2>7, <2>16 DEF Balanced
  <2> QED
    BY <2>16, <2>17
<1> QED
  BY <1>2, <1>3

--------------------------------------------------------------------------------
(* Defrag *)

LEMMA DefragEmptyStep ==
  ASSUME Usable, IInv, DefragEmpty, Live = {}
  PROVE  IInv' /\ Balanced
<1> USE Numbers
<1>1. /\ Types /\ Sound /\ pc = "idle" /\ allocated % Word = 0
      /\ data_end' = First /\ begin_ref' = End /\ UNCHANGED <<mem, allocated, ptr, pc, cur, prev, fate>>
  BY DEF DefragEmpty, IInv
<1>2. \A h \in Handles : ptr[h] = 0
  BY DEF Live
<1>3. Types'
  BY <1>1 DEF Types, Forward
<1>4. Fresh' /\ (allocated % Word = 0)'
  BY <1>1, <1>2 DEF Fresh
<1>5. Taken' = Taken
  BY <1>1 DEF Taken, Extent, Live, Block, SizeAt
<1>6. Sound'
  <2>1. Refs(mem, begin_ref, ptr)'
    BY <1>1 DEF Refs
  <2>2. Idle'
    BY <1>4 DEF Idle
  <2> QED
    BY <1>1, <2>1, <2>2 DEF Sound
<1> QED
  BY <1>1, <1>3, <1>5, <1>6 DEF IInv, Balanced

LEMMA DefragStep ==
  ASSUME Usable, IInv, Defrag
  PROVE  IInv' /\ Balanced
<1> USE Numbers
<1>1. /\ Types /\ Sound /\ pc = "idle" /\ fate = "ok" /\ allocated % Word # 0
  BY DEF Defrag, IInv
<1>2. CASE Lost
  BY <1>2, LostStep
<1>3. CASE ~ Lost
  <2> DEFINE from == IF SizeAt(First) = 0 THEN GetNext(mem, First) ELSE First
  <2>1. /\ from # 0 /\ cur' = from /\ prev' = 0 /\ pc' = "moving" /\ data_end' = First
        /\ UNCHANGED <<mem, allocated, begin_ref, ptr, fate>>
    BY <1>3 DEF Defrag
  <2>2. PICK L \in SUBSET Cells : Blocks(L)
    BY <1>1 DEF Sound, Idle
  <2>3. /\ begin_ref \in First .. End /\ Forward(mem) /\ List(mem, begin_ref, L) /\ First \in L
        /\ begin_ref \in 1 .. Size + 1
    BY <1>1, <2>2 DEF Types, Blocks, List
  <2>4. \A b \in L : b \in 1 .. begin_ref - 1
    BY <2>3 DEF List
  <2>5. /\ from >= begin_ref \/ (from \in L /\ mem[from].size # 0)
        /\ from \in Nat /\ 0 < from /\ \A b \in L : b < from => mem[b].size = 0
    <3>1. CASE SizeAt(First) = 0
      <4>1. from = GetNext(mem, First) /\ mem[First].size = 0
        BY <3>1 DEF SizeAt
      <4>2. Reaches(mem, begin_ref, L, mem[First].next, from)
        BY <2>3, <4>1, NextReaches
      <4> HIDE DEF from
      <4>3. \A b \in L : b = First \/ mem[First].next <= b
        <5>1. \A b \in L : First < b => mem[First].next <= b
          BY <2>3 DEF List
        <5> QED
          BY <2>4, <5>1
      <4>4. \A b \in L : b < begin_ref
        BY <2>3, <2>4
      <4>5. from # 0
        BY <2>1
      <4>6. CASE from = begin_ref
        <5>1. from \notin L
          BY <2>3, <4>4, <4>6
        <5>2. \A b \in L : mem[First].next <= b => mem[b].size = 0
          BY <4>2, <4>5, <5>1 DEF Reaches
        <5> QED
          BY <2>3, <4>1, <4>3, <4>6, <5>2
      <4>7. CASE from # begin_ref
        <5>1. /\ from \in L /\ mem[from].size # 0
              /\ \A b \in L : mem[First].next <= b /\ b < from => mem[b].size = 0
          BY <4>2, <4>5, <4>7 DEF Reaches
        <5>2. from \in Nat /\ 0 < from
          BY <2>4, <5>1
        <5> QED
          BY <4>1, <4>3, <5>1, <5>2
      <4> QED
        BY <4>6, <4>7
    <3>2. CASE SizeAt(First) # 0
      BY <2>3, <2>4, <3>2 DEF SizeAt
    <3> QED
      BY <3>1, <3>2
  <2> HIDE DEF from
  <2>6. (Blocks(L) /\ Moving(L))'
    <3>1. Blocks(L)'
      BY <2>1, <2>2 DEF Blocks, List, Owned, Owns
    <3>2. Moving(L)'
      BY <2>1, <2>5 DEF Moving
    <3> QED
      BY <3>1, <3>2
  <2>7. Types'
    BY <1>1, <2>1 DEF Types, Forward
  <2>8. Taken' = Taken
    BY <2>1 DEF Taken, Extent, Live, Block, SizeAt
  <2>9. Sound'
    <3>1. Refs(mem, begin_ref, ptr)' /\ (data_end <= begin_ref)'
      BY <1>1, <2>1, <2>3 DEF Sound, Refs
    <3> QED
      BY <2>1, <2>6, <3>1 DEF Sound
  <2> QED
    BY <1>1, <2>1, <2>7, <2>8, <2>9 DEF IInv, Balanced
<1> QED
  BY <1>2, <1>3

LEMMA TrimStep ==
  ASSUME Usable, IInv, Trim, \A h \in Live : ~ (ptr[h] < begin_ref')
  PROVE  IInv' /\ Balanced
<1> USE Numbers
<1> DEFINE S == {End} \cup {r \in begin_ref .. Size : ~ LooksNull(r)}
           br == Min(S)
<1>1. /\ Types /\ Sound /\ pc = "moving" /\ fate = "ok" /\ cur >= begin_ref
      /\ pc' = "idle" /\ UNCHANGED <<mem, allocated, data_end, ptr, fate>>
  BY DEF Trim, IInv
<1>2. begin_ref' = br
  BY DEF Trim
<1>3. begin_ref \in 1 .. Size + 1 /\ data_end \in 1 .. Size + 1
  BY <1>1 DEF Types
<1>4. br \in S /\ \A r \in S : br <= r
  <2>1. S \subseteq Nat /\ S # {}
    BY <1>3
  <2> HIDE DEF S
  <2> QED
    BY <2>1, MinIs
<1>5. br \in begin_ref .. Size + 1
  BY <1>3, <1>4
<1>6. PICK L \in SUBSET Cells : Blocks(L) /\ Moving(L)
  BY <1>1 DEF Sound
<1>7. List(mem, begin_ref, L) /\ Owned(mem, begin_ref, ptr, L) /\ Refs(mem, begin_ref, ptr)
  BY <1>1, <1>6 DEF Blocks, Sound
<1>8. \A b \in L : b \in 1 .. begin_ref - 1 /\ mem[b].size \in Nat /\ mem[b].next \in Nat
  <2> HIDE DEF S, br
  <2>1. \A b \in L : b \in First .. begin_ref - 1 /\ mem[b].size \in Nat
                     /\ mem[b].next \in b + 1 .. End
    BY <1>7 DEF List
  <2> QED
    BY <1>3, <2>1
<1>9. \A h \in Handles : ptr[h] # 0 => ptr[h] >= br
  <2>1. ASSUME NEW h \in Handles, ptr[h] # 0 PROVE ptr[h] >= br
    <3>1. h \in Live /\ ptr[h] \in Int
      BY <1>1, <2>1 DEF Live, Types
    <3>2. ~ (ptr[h] < begin_ref')
      BY <3>1
    <3> HIDE DEF S, br
    <3> QED
      BY <1>2, <1>5, <3>1, <3>2
  <2> QED
    BY <2>1
<1>10. prev = 0 => br = End /\ \A h \in Handles : ptr[h] = 0
  <2> SUFFICES ASSUME prev = 0 PROVE br = End /\ \A h \in Handles : ptr[h] = 0
    OBVIOUS
  <2>1. \A b \in L : mem[b].size = 0
    BY <1>1, <1>3, <1>6, <1>8 DEF Moving
  <2>2. ASSUME NEW h \in Handles, ptr[h] # 0 PROVE FALSE
    <3>1. Owns(mem, begin_ref, ptr[h], L, h)
      BY <1>7, <2>2 DEF Owned
    <3>2. mem[ptr[h]].next \in L /\ mem[mem[ptr[h]].next].size \in Sizes
      BY <3>1 DEF Owns
    <3>3. 0 \notin Sizes
      BY DEF Usable
    <3> HIDE DEF S, br
    <3> QED
      BY <2>1, <3>2, <3>3
  <2>3. \A r \in begin_ref .. Size : mem[r].next = 0
    <3>1. \A r \in begin_ref .. Size : r # 0
      BY <1>3
    <3> QED
      BY <1>7, <2>2, <3>1 DEF Refs
  <2>4. S = {End}
    BY <2>3 DEF LooksNull
  <2> HIDE DEF S, br
  <2> QED
    BY <1>4, <2>2, <2>4
<1> HIDE DEF S, br
<1>11. Blocks(L)'
  <2>1. List(mem, br, L)
    <3>1. First \in L /\ L \subseteq First .. br - 1
      BY <1>3, <1>5, <1>7, <1>8 DEF List
    <3>2. \A b \in L : mem[b].next \in L \/ mem[b].next >= br \/ mem[mem[b].next].size = None
      <4>1. \A b \in L : mem[b].next \in L \/ mem[b].next >= begin_ref \/ mem[mem[b].next].size = None
        BY <1>7 DEF List
      <4>2. \A e \in Nat : e >= begin_ref /\ ~ (e >= br) => mem[e].size = None
        BY <1>3, <1>5, <1>7 DEF Refs
      <4> QED
        BY <1>8, <4>1, <4>2
    <3> QED
      BY <1>7, <3>1, <3>2 DEF List
  <2>2. Owned(mem, br, ptr, L)
    <3>1. ASSUME NEW h \in Handles, ptr[h] # 0 PROVE Owns(mem, br, ptr[h], L, h)
      <4> DEFINE r == ptr[h]
                 b == mem[r].next
                 n == mem[b].size
      <4>1. /\ r \in begin_ref .. Size /\ b \in L /\ mem[b].reference = r
            /\ n \in Sizes /\ b + Header + n <= begin_ref
            /\ \A i \in 1 .. n : mem[b + i] = Data(h)
        BY <1>7, <3>1 DEF Owned, Owns
      <4>2. r >= br
        BY <1>9, <3>1
      <4> HIDE DEF r, b, n
      <4>3. n \in Nat /\ b \in Nat
        BY <1>8, <4>1
      <4>4. r \in br .. Size /\ b + Header + n <= br
        BY <1>3, <1>5, <4>1, <4>2, <4>3
      <4> QED
        BY <4>1, <4>4 DEF Owns, r, b, n
    <3> QED
      BY <1>7, <3>1 DEF Owned
  <2> QED
    BY <1>1, <1>2, <2>1, <2>2 DEF Blocks, List, Owned, Owns
<1>12. Idle'
  <2>1. CASE prev = 0
    <3>1. Fresh'
      BY <1>1, <1>2, <1>6, <1>10, <2>1 DEF Fresh, Moving
    <3> QED
      BY <1>11, <3>1 DEF Idle
  <2>2. CASE prev # 0
    <3>1. data_end > First
      <4>1. prev \in L /\ data_end = prev + Header + mem[prev].size
        BY <1>6, <2>2 DEF Moving
      <4> QED
        BY <1>8, <4>1
    <3> QED
      BY <1>1, <1>11, <3>1 DEF Idle
  <2> QED
    BY <2>1, <2>2
<1>13. Sound'
  <2>1. Refs(mem, br, ptr)
    BY <1>3, <1>5, <1>7 DEF Refs
  <2>2. Refs(mem, begin_ref, ptr)'
    BY <1>1, <1>2, <2>1 DEF Refs
  <2>3. (data_end <= begin_ref)'
    BY <1>1, <1>2, <1>3, <1>5 DEF Sound
  <2> QED
    BY <1>1, <1>12, <2>2, <2>3 DEF Sound
<1>14. Types'
  BY <1>1, <1>2, <1>3, <1>5 DEF Types, Forward
<1>15. Taken' = Taken
  BY <1>1 DEF Taken, Extent, Live, Block, SizeAt
<1> QED
  BY <1>1, <1>13, <1>14, <1>15 DEF IInv, Balanced

\* A block is moved down to `to`, behind the block moved before, and the blocks
\* between them leave the list.
MovedList(L, prv, to, b) == {x \in L : x <= prv} \cup {to} \cup {x \in L : b < x}

\* The memory m2 after block b of list L, with s cells, has been moved to `to` and
\* linked behind prv, or to First when there is no block before it (prv = 0);
\* r is its reference.
Shifted(m, m2, br, L, prv, to, b, s, r) ==
  /\ m2 \in [Cells -> Cell] /\ br \in First .. End
  /\ b \in L /\ to \in Nat /\ to < b /\ s = m[b].size
  /\ \/ prv = 0 /\ to = First
     \/ /\ prv \in L /\ to = prv + Header + m[prv].size
        /\ m2[prv].next = to /\ m2[prv].size = m[prv].size
        /\ m2[prv].reference = m[prv].reference
  /\ r \in br .. Size /\ r = m[b].reference
  /\ \A x \in L : prv < x /\ x < b => m[x].size = 0
  /\ \A c \in to .. to + s : m2[c] = m[c + (b - to)]
  /\ m2[r] = Ref(to)
  /\ \A c \in Cells : c \notin to .. to + s /\ c # r /\ c # prv => m2[c] = m[c]

LEMMA Dims ==
  Size \in Nat /\ First = 1 /\ Header = 1 /\ End = Size + 1 /\ Cells = 1 .. Size
BY Numbers

\* A block of the list lies below br and points behind itself.
Entry(m, br, x) ==
  x \in 1 .. br - 1 /\ m[x].size \in Nat /\ m[x].next \in x + 1 .. End

LEMMA Entries ==
  ASSUME NEW m, NEW br, NEW L, List(m, br, L), NEW x \in L
  PROVE  Entry(m, br, x)
<1> USE Dims
<1> QED
  BY DEF List, Entry

LEMMA ShiftedParts ==
  ASSUME NEW m, NEW br, NEW L, List(m, br, L), NEW m2, NEW prv, NEW to, NEW b, NEW s, NEW r,
         Shifted(m, m2, br, L, prv, to, b, s, r)
  PROVE  /\ br \in 1 .. Size + 1 /\ b \in L /\ r \in br .. Size
         /\ prv \in 0 .. br - 1 /\ b \in 1 .. br - 1 /\ s \in Nat /\ prv < to /\ to < b /\ to \in Nat
         /\ b < m[b].next /\ b + 1 + s \in Nat /\ s = m[b].size /\ m2[to] = m[b]
         /\ prv = 0 => to = 1
         /\ prv # 0 => /\ prv \in L /\ to = prv + 1 + m[prv].size
                       /\ m2[prv].next = to /\ m2[prv].size = m[prv].size
<1> USE Dims
<1>1. br \in 1 .. Size + 1 /\ b \in L /\ to \in Nat /\ to < b /\ s = m[b].size /\ r \in br .. Size
  BY DEF Shifted
<1>2. Entry(m, br, b)
  BY <1>1, Entries
<1>3. b \in 1 .. br - 1 /\ s \in Nat /\ b + 1 + s \in Nat
  BY <1>1, <1>2 DEF Entry
<1>4. b < m[b].next
  BY <1>1, <1>2 DEF Entry
<1>5. m2[to] = m[b]
  <2>1. to \in to .. to + s /\ to + (b - to) = b
    BY <1>1, <1>3
  <2> QED
    BY <2>1 DEF Shifted
<1>6. CASE prv = 0
  <2>1. 0 \notin L
    BY Entries DEF Entry
  <2>2. to = 1
    BY <1>6, <2>1 DEF Shifted
  <2> QED
    BY <1>1, <1>3, <1>4, <1>5, <1>6, <2>2
<1>7. CASE prv # 0
  <2>1. /\ prv \in L /\ to = prv + 1 + m[prv].size
        /\ m2[prv].next = to /\ m2[prv].size = m[prv].size
    BY <1>7 DEF Shifted
  <2>2. Entry(m, br, prv)
    BY <2>1, Entries
  <2>3. prv \in 0 .. br - 1 /\ prv < to
    BY <1>1, <2>1, <2>2 DEF Entry
  <2> QED
    BY <1>1, <1>3, <1>4, <1>5, <1>7, <2>1, <2>3
<1> QED
  BY <1>6, <1>7

LEMMA ShiftedOthers ==
  ASSUME NEW m, NEW br, NEW L, List(m, br, L), NEW m2, NEW prv, NEW to, NEW b, NEW s, NEW r,
         Shifted(m, m2, br, L, prv, to, b, s, r), NEW x \in L
  PROVE  /\ x < prv => x + 1 + m[x].size <= prv /\ m[x].next <= prv /\ m2[x] = m[x]
         /\ b < x => b + 1 + s <= x /\ m[b].next <= x /\ m2[x] = m[x]
<1> USE Dims
<1>1. /\ br \in 1 .. Size + 1 /\ b \in L /\ r \in br .. Size /\ (prv # 0 => prv \in L)
      /\ prv \in 0 .. br - 1 /\ b \in 1 .. br - 1 /\ s \in Nat /\ prv < to /\ to < b /\ to \in Nat
      /\ b + 1 + s \in Nat /\ s = m[b].size
  BY ShiftedParts
<1>2. Entry(m, br, x) /\ Entry(m, br, b)
  BY <1>1, Entries
<1>3. x \in Cells /\ x < r
  BY <1>1, <1>2, SMTT(30) DEF Entry
<1>4. x \notin to .. to + s /\ x # prv => m2[x] = m[x]
  <2>1. \A c \in Cells : c \notin to .. to + s /\ c # r /\ c # prv => m2[c] = m[c]
    BY DEF Shifted
  <2>2. x # r
    BY <1>1, <1>2, <1>3 DEF Entry
  <2> QED
    BY <1>3, <2>1, <2>2
<1>5. ASSUME x < prv PROVE x + 1 + m[x].size <= prv /\ m[x].next <= prv /\ m2[x] = m[x]
  <2>0. prv \in L
    BY <1>1, <1>3, <1>5
  <2>1. m[x].next <= prv
    BY <1>5, <2>0 DEF List
  <2>2. x + 1 + m[x].size <= prv
    BY <1>5, <2>0 DEF List
  <2>3. x \notin to .. to + s /\ x # prv
    BY <1>1, <1>3, <1>5
  <2> QED
    BY <1>4, <2>1, <2>2, <2>3
<1>6. ASSUME b < x PROVE b + 1 + s <= x /\ m[b].next <= x /\ m2[x] = m[x]
  <2>1. m[b].next <= x
    BY <1>1, <1>6 DEF List
  <2>2. b + 1 + s <= x
    BY <1>1, <1>6 DEF List
  <2>3. x \notin to .. to + s /\ x # prv
    BY <1>1, <1>3, <2>2
  <2> QED
    BY <1>4, <2>1, <2>2, <2>3
<1> QED
  BY <1>5, <1>6

LEMMA ListShifted ==
  ASSUME NEW m, NEW br, NEW L, List(m, br, L), NEW m2, NEW prv, NEW to, NEW b, NEW s, NEW r,
         Shifted(m, m2, br, L, prv, to, b, s, r), \A i \in 1 .. s : m[b + i].size = None
  PROVE  List(m2, br, MovedList(L, prv, to, b))
<1> USE Dims
<1> DEFINE K == MovedList(L, prv, to, b)
<1>1. /\ br \in 1 .. Size + 1 /\ b \in L /\ r \in br .. Size
      /\ prv \in 0 .. br - 1 /\ b \in 1 .. br - 1 /\ s \in Nat /\ prv < to /\ to < b /\ to \in Nat
      /\ b < m[b].next /\ b + 1 + s \in Nat /\ s = m[b].size /\ m2[to] = m[b]
  BY ShiftedParts
<1>0. /\ prv = 0 => to = 1
      /\ prv # 0 => /\ prv \in L /\ to = prv + 1 + m[prv].size
                    /\ m2[prv].next = to /\ m2[prv].size = m[prv].size
  BY ShiftedParts
<1>2. /\ \A c \in Cells : c \notin to .. to + s /\ c # r /\ c # prv => m2[c] = m[c]
      /\ \A c \in to .. to + s : m2[c] = m[c + (b - to)]
  BY DEF Shifted
<1>3. ASSUME NEW x \in K
      PROVE  x = to \/ (x = prv /\ x # 0) \/ (x \in L /\ x < prv) \/ (x \in L /\ b < x)
  <2>1. x = to \/ (x \in L /\ x <= prv) \/ (x \in L /\ b < x)
    BY <1>3 DEF MovedList
  <2>2. x \in L => x \in Nat /\ x > 0
    BY Entries DEF Entry
  <2> QED
    BY <1>1, <2>1, <2>2
<1>4. ASSUME NEW x \in K PROVE Entry(m2, br, x)
  <2>1. CASE x = to
    <3> DEFINE e == m[b].next
    <3>1. e \in b + 1 .. End
      BY <1>1, Entries DEF Entry
    <3>2. m2[to].size = s /\ m2[to].next = e
      BY <1>1
    <3> HIDE DEF e
    <3>3. e \in to + 1 .. End
      BY <1>1, <3>1
    <3>4. to \in 1 .. br - 1
      BY <1>0, <1>1
    <3>5. Entry(m2, br, to)
      BY <1>1, <3>2, <3>3, <3>4 DEF Entry
    <3> QED
      BY <2>1, <3>5
  <2>2. CASE x = prv /\ x # 0
    <3>1. Entry(m, br, prv)
      BY <1>0, <2>2, Entries
    <3> DEFINE n == m[prv].size
    <3>2. prv \in 1 .. br - 1 /\ n \in Nat
      BY <2>2, <3>1 DEF Entry
    <3>3. m2[prv].size = n /\ m2[prv].next = to
      BY <1>0, <2>2
    <3> HIDE DEF n
    <3>4. to \in prv + 1 .. End
      BY <1>1, <3>2
    <3>5. Entry(m2, br, prv)
      BY <3>2, <3>3, <3>4 DEF Entry
    <3> QED
      BY <2>2, <3>5
  <2>3. CASE x \in L /\ (x < prv \/ b < x)
    <3>1. Entry(m, br, x) /\ m2[x] = m[x]
      BY <2>3, Entries, ShiftedOthers
    <3> QED
      BY <3>1 DEF Entry
  <2> QED
    BY <1>3, <1>4, <2>1, <2>2, <2>3
<1>5. First \in K
  <2>1. First \in L
    BY DEF List
  <2> QED
    BY <1>0, <1>1, <2>1 DEF MovedList
<1> HIDE DEF K
<1>6. ASSUME NEW x \in K, NEW y \in K, x < y
      PROVE  m2[x].next <= y /\ x + 1 + m2[x].size <= y
  <2>1. CASE x = to
    <3>1. y \in L /\ b < y
      BY <1>1, <1>3, <1>6, <2>1
    <3>2. m[b].next <= y /\ b + 1 + s <= y /\ y \in Nat
      BY <3>1, ShiftedOthers, Entries DEF Entry
    <3>3. m2[x].next = m[b].next /\ m2[x].size = s
      BY <1>1, <2>1
    <3>4. to + 1 + s <= y
      BY <1>1, <3>2
    <3> QED
      BY <2>1, <3>2, <3>3, <3>4
  <2>2. CASE x = prv /\ x # 0
    <3>1. y = to \/ (y \in L /\ b < y)
      <4>1. y \in Nat
        BY <1>4 DEF Entry
      <4>2. y = to \/ y = prv \/ (y \in L /\ y < prv) \/ (y \in L /\ b < y)
        BY <1>3
      <4> QED
        BY <1>1, <1>6, <2>2, <4>1, <4>2
    <3>2. m2[x].next = to /\ x + 1 + m2[x].size = to
      BY <1>0, <2>2
    <3>3. to <= y
      BY <1>1, <1>4, <3>1 DEF Entry
    <3> QED
      BY <3>2, <3>3
  <2>3. CASE x \in L /\ x < prv
    <3>1. m2[x] = m[x] /\ m[x].next <= prv /\ x + 1 + m[x].size <= prv
      BY <2>3, ShiftedOthers
    <3>2. m[x].next \in Nat /\ m[x].size \in Nat /\ x \in Nat
      BY <2>3, Entries DEF Entry
    <3>3. CASE y \in L
      BY <1>6, <2>3, <3>1, <3>3 DEF List
    <3>4. CASE y = to
      <4>1. m2[x].next \in Nat /\ m2[x].size \in Nat /\ m2[x].next <= prv
            /\ x + 1 + m2[x].size <= prv
        BY <3>1, <3>2
      <4>2. prv < y /\ prv \in Nat /\ y \in Nat
        BY <1>1, <3>4
      <4> QED
        BY <3>2, <4>1, <4>2
    <3> QED
      BY <1>0, <1>3, <3>3, <3>4
  <2>4. CASE x \in L /\ b < x
    <3>1. m2[x] = m[x] /\ x \in Nat
      BY <2>4, ShiftedOthers, Entries DEF Entry
    <3>2. y \in L
      BY <1>1, <1>3, <1>6, <2>4, <3>1
    <3> QED
      BY <1>6, <2>4, <3>1, <3>2 DEF List
  <2> QED
    BY <1>3, <2>1, <2>2, <2>3, <2>4
\* Where the walk has gone on from a block of the new list, it does so in m2: the
\* cells that b takes along are none that it goes on from.
<1>7. ASSUME NEW e \in Nat, e > 0, e <= prv \/ e > b,
             e \in L \/ e >= br \/ m[e].size = None
      PROVE  e \in K \/ e >= br \/ m2[e].size = None
  <2>1. CASE e \in L
    BY <1>1, <1>7, <2>1, SMTT(30) DEF K, MovedList
  <2>2. CASE e < br /\ m[e].size = None
    <3>1. prv # 0 => m[prv].size # None
      BY <1>0, Entries, Numbers DEF Entry
    <3>2. e # prv
      BY <1>7, <2>2, <3>1
    <3>3. CASE e \in to .. to + s
      <4> DEFINE i == e - to
      <4>1. i \in 1 .. s /\ e + (b - to) = b + i
        BY <1>1, <1>7, <3>3
      <4>2. m2[e] = m[e + (b - to)]
        BY <1>2, <3>3
      <4> HIDE DEF i
      <4> QED
        BY <4>1, <4>2
    <3>4. CASE e \notin to .. to + s
      <4>1. e \in Cells /\ e # r
        BY <1>1, <1>7, <2>2, SMTT(30)
      <4> QED
        BY <1>2, <2>2, <3>2, <3>4, <4>1
    <3> QED
      BY <3>3, <3>4
  <2> QED
    BY <1>1, <1>7, <2>1, <2>2
<1>8. ASSUME NEW x \in K PROVE m2[x].next \in K \/ m2[x].next >= br \/ m2[m2[x].next].size = None
  <2>0. \A y \in L : m[y].next \in L \/ m[y].next >= br \/ m[m[y].next].size = None
    BY DEF List
  <2>1. CASE x = prv /\ x # 0
    BY <1>0, <2>1 DEF K, MovedList
  <2>2. CASE x \in L /\ x < prv
    <3>1. m2[x] = m[x] /\ m[x].next <= prv /\ Entry(m, br, x)
      BY <2>2, ShiftedOthers, Entries
    <3>2. m[x].next \in Nat /\ m[x].next > 0
      BY <3>1 DEF Entry
    <3> QED
      BY <1>7, <2>0, <2>2, <3>1, <3>2
  <2>3. CASE x = to
    <3>1. m[b].next \in Nat /\ m[b].next > 0 /\ m[b].next > b
      BY <1>1, Entries DEF Entry
    <3>2. m2[x].next = m[b].next
      BY <1>1, <2>3
    <3>3. m[b].next \in L \/ m[b].next >= br \/ m[m[b].next].size = None
      BY <1>1, <2>0
    <3> QED
      BY <1>7, <3>1, <3>2, <3>3
  <2>4. CASE x \in L /\ b < x
    <3>1. m2[x] = m[x] /\ Entry(m, br, x)
      BY <2>4, ShiftedOthers, Entries
    <3>2. m[x].next \in Nat /\ m[x].next > 0 /\ m[x].next > b
      <4>1. x \in Nat /\ m[x].next \in Nat /\ x < m[x].next
        BY <3>1 DEF Entry
      <4>2. b \in Nat /\ b < x
        BY <1>1, <2>4
      <4> QED
        BY <4>1, <4>2
    <3> QED
      BY <1>7, <2>0, <2>4, <3>1, <3>2
  <2> QED
    BY <1>3, <1>8, <2>1, <2>2, <2>3, <2>4
<1>9. K \subseteq First .. br - 1
  BY <1>4 DEF Entry
<1>10. \A x \in K : m2[x].size \in Nat /\ m2[x].next \in x + 1 .. End
  BY <1>4 DEF Entry
<1> QED
  BY <1>5, <1>6, <1>8, <1>9, <1>10 DEF List, K

\* After the move the handle's block is at `to`, and those of the others are where
\* they were.
LEMMA OwnedShifted ==
  ASSUME Usable,
         NEW m, NEW br, NEW L, List(m, br, L), NEW m2, NEW prv, NEW to, NEW b, NEW s, NEW r,
         Shifted(m, m2, br, L, prv, to, b, s, r),
         NEW p, Owned(m, br, p, L), NEW h \in Handles, p[h] = r, m[r].next = b
  PROVE  /\ Owned(m2, br, p, MovedList(L, prv, to, b))
         /\ CellsOf(m2, p, h) = to .. to + s
         /\ \A f \in Handles : f # h /\ p[f] # 0 => CellsOf(m2, p, f) = CellsOf(m, p, f)
         /\ \A f \in Handles : p[f] # 0 => SizeOf(m2, p, f) = SizeOf(m, p, f)
         /\ to + 1 + s <= br
<1> USE Dims
<1> DEFINE K == MovedList(L, prv, to, b)
<1>1. /\ br \in 1 .. Size + 1 /\ b \in L /\ r \in br .. Size
      /\ prv \in 0 .. br - 1 /\ b \in 1 .. br - 1 /\ s \in Nat /\ prv < to /\ to < b /\ to \in Nat
      /\ b + 1 + s \in Nat /\ s = m[b].size /\ m2[to] = m[b]
  BY ShiftedParts
<1>2. prv # 0 => /\ prv \in L /\ to = prv + 1 + m[prv].size
                 /\ m2[prv].size = m[prv].size /\ m2[prv].reference = m[prv].reference
  BY DEF Shifted
<1>3. /\ \A c \in Cells : c \notin to .. to + s /\ c # r /\ c # prv => m2[c] = m[c]
      /\ \A c \in to .. to + s : m2[c] = m[c + (b - to)]
      /\ \A x \in L : prv < x /\ x < b => m[x].size = 0
      /\ m2[r] = Ref(to)
  BY DEF Shifted
<1>4. /\ m[b].reference = r /\ s \in Sizes /\ b + 1 + s <= br
      /\ \A i \in 1 .. s : m[b + i] = Data(h)
  <2>1. Owns(m, br, p[h], L, h)
    BY <1>1 DEF Owned
  <2> QED
    BY <1>1, <2>1 DEF Owns
<1>5. m2[r].next = to /\ m2[to].size = s /\ m2[to].reference = r
  BY <1>1, <1>3, <1>4 DEF Ref, Info
<1>6. CellsOf(m2, p, h) = to .. to + s
  <2>1. to + Header + s - 1 = to + s
    BY <1>1
  <2> QED
    BY <1>5, <2>1 DEF CellsOf
<1>7. Owns(m2, br, p[h], K, h)
  <2>1. to \in K
    BY DEF MovedList
  <2>2. to + 1 + s <= br
    BY <1>1, <1>4
  <2>3. ASSUME NEW i \in 1 .. s PROVE m2[to + i] = Data(h)
    <3>1. to + i \in to .. to + s /\ (to + i) + (b - to) = b + i
      BY <1>1
    <3>2. m2[to + i] = m[(to + i) + (b - to)]
      BY <1>3, <3>1
    <3> QED
      BY <1>4, <3>1, <3>2
  <2> HIDE DEF K
  <2> QED
    BY <1>1, <1>4, <1>5, <2>1, <2>2, <2>3 DEF Owns
<1>8. ASSUME NEW f \in Handles, f # h, p[f] # 0
      PROVE  /\ Owns(m2, br, p[f], K, f) /\ m2[p[f]].next = m[p[f]].next
             /\ CellsOf(m2, p, f) = CellsOf(m, p, f) /\ SizeOf(m2, p, f) = SizeOf(m, p, f)
  <2> DEFINE q == p[f]
             c == m[q].next
             n == m[c].size
  <2>1. /\ q \in br .. Size /\ c \in L /\ m[c].reference = q
        /\ n \in Sizes /\ c + Header + n <= br
        /\ \A i \in 1 .. n : m[c + i] = Data(f)
    BY <1>8 DEF Owned, Owns
  <2>2. q # r
    BY <1>1, <1>8 DEF Owned
  <2> HIDE DEF q
  <2>3. m2[q] = m[q]
    <3>1. q \in Cells /\ q \notin to .. to + s /\ q # prv
      BY <1>1, <1>4, <2>1
    <3> QED
      BY <1>3, <2>2, <3>1
  <2>4. c # b
    BY <1>4, <2>1, <2>2
  <2>5. n > 0 /\ n \in Nat
    BY <2>1, Numbers DEF Usable
  <2>6. m2[q].next = c
    BY <2>3
  <2> HIDE DEF c
  <2>7. c \in 1 .. br - 1
    BY <2>1, Entries DEF Entry
  <2>8. c < prv \/ c = prv \/ b < c
    <3>1. ~ (prv < c /\ c < b)
      BY <1>3, <2>1, <2>5
    <3> QED
      BY <1>1, <2>4, <2>7, <3>1
  <2>9. m2[c].size = n /\ m2[c].reference = q
    <3>1. CASE c = prv
      BY <1>2, <2>1, <2>7, <3>1
    <3>2. CASE c # prv
      BY <2>1, <2>8, <3>2, ShiftedOthers
    <3> QED
      BY <3>1, <3>2
  <2>10. c \in K
    BY <1>1, <2>1, <2>7, <2>8 DEF MovedList
  <2>11. ASSUME NEW i \in 1 .. n PROVE m2[c + i] = Data(f)
    <3>1. m[c + i] = Data(f)
      BY <2>1
    <3> HIDE DEF n
    <3>2. c + i \in Cells /\ c + i # r
      BY <1>1, <2>1, <2>5, <2>7
    <3>3. c + i \notin to .. to + s /\ c + i # prv
      <4>1. CASE b < c
        <5>1. b + 1 + s <= c
          BY <2>1, <4>1, ShiftedOthers
        <5> QED
          BY <1>1, <2>5, <2>7, <5>1
      <4>2. CASE c < prv
        <5>1. c + 1 + n <= prv
          BY <2>1, <4>2, ShiftedOthers DEF n
        <5> QED
          BY <1>1, <2>5, <2>7, <5>1
      <4>3. CASE c = prv
        <5>1. to = prv + 1 + n
          BY <1>2, <2>7, <4>3 DEF n
        <5> QED
          BY <1>1, <2>5, <2>7, <4>3, <5>1
      <4> QED
        BY <2>8, <4>1, <4>2, <4>3
    <3> QED
      BY <1>3, <3>1, <3>2, <3>3
  <2> HIDE DEF n, K
  <2>12. Owns(m2, br, q, K, f)
    BY <2>1, <2>6, <2>9, <2>10, <2>11 DEF Owns
  <2>13. CellsOf(m2, p, f) = CellsOf(m, p, f)
    BY <2>6, <2>9 DEF CellsOf, q, c, n
  <2>14. SizeOf(m2, p, f) = SizeOf(m, p, f)
    BY <2>6, <2>9 DEF SizeOf, q, c, n
  <2> QED
    BY <2>6, <2>12, <2>13, <2>14 DEF q, c
<1>9. ASSUME NEW x \in K, m2[x].size # 0 PROVE \E f \in Handles : p[f] # 0 /\ m2[p[f]].next = x
  <2>1. CASE x = to
    BY <1>1, <1>5, <2>1
  <2>2. CASE x # to
    <3>1. x \in L /\ (x < prv \/ x = prv \/ b < x) /\ x \in 1 .. br - 1
      <4>1. x \in L /\ (x <= prv \/ b < x)
        BY <1>9, <2>2 DEF MovedList
      <4>2. x \in 1 .. br - 1
        BY <4>1, Entries DEF Entry
      <4> QED
        BY <1>1, <4>1, <4>2
    <3>2. m2[x].size = m[x].size
      <4>1. CASE x = prv
        BY <1>2, <3>1, <4>1
      <4>2. CASE x # prv
        BY <3>1, <4>2, ShiftedOthers
      <4> QED
        BY <4>1, <4>2
    <3>3. PICK f \in Handles : p[f] # 0 /\ m[p[f]].next = x
      BY <1>9, <3>1, <3>2 DEF Owned
    <3>4. f # h
      BY <1>1, <3>1, <3>3
    <3> QED
      BY <1>8, <3>3, <3>4
  <2> QED
    BY <2>1, <2>2
<1>10. \A f, g \in Handles : p[f] # 0 /\ p[f] = p[g] => f = g
  BY DEF Owned
<1>11. \A f \in Handles : p[f] # 0 => Owns(m2, br, p[f], K, f)
  BY <1>7, <1>8
<1>12. to + 1 + s <= br
  BY <1>1, <1>4
<1> HIDE DEF K
<1>13. Owned(m2, br, p, K)
  BY <1>9, <1>10, <1>11 DEF Owned
<1>14. SizeOf(m2, p, h) = s /\ SizeOf(m, p, h) = s
  BY <1>1, <1>5 DEF SizeOf
<1>15. \A f \in Handles : p[f] # 0 => SizeOf(m2, p, f) = SizeOf(m, p, f)
  BY <1>8, <1>14
<1> QED
  BY <1>6, <1>8, <1>12, <1>13, <1>15 DEF K

\* References and data stay what they are.
LEMMA ShiftedKinds ==
  ASSUME Usable, NEW m, Forward(m),
         NEW br, NEW L, List(m, br, L), NEW m2, NEW prv, NEW to, NEW b, NEW s, NEW r,
         Shifted(m, m2, br, L, prv, to, b, s, r), NEW p, Refs(m, br, p), Owned(m, br, p, L),
         NEW h \in Handles, p[h] = r, m[r].next = b
  PROVE  Refs(m2, br, p) /\ Forward(m2)
<1> USE Dims
<1>1. /\ br \in 1 .. Size + 1 /\ b \in L /\ r \in br .. Size
      /\ prv \in 0 .. br - 1 /\ b \in 1 .. br - 1 /\ s \in Nat /\ prv < to /\ to < b /\ to \in Nat
      /\ b < m[b].next /\ s = m[b].size /\ m2[to] = m[b]
  BY ShiftedParts
<1>2. /\ \A c \in Cells : c \notin to .. to + s /\ c # r /\ c # prv => m2[c] = m[c]
      /\ \A c \in to .. to + s : m2[c] = m[c + (b - to)]
      /\ m2[r] = Ref(to)
  BY DEF Shifted
<1>3. b + 1 + s <= br /\ \A i \in 1 .. s : m[b + i] = Data(h)
  <2>1. Owns(m, br, p[h], L, h)
    BY <1>1 DEF Owned
  <2> QED
    BY <1>1, <2>1 DEF Owns
<1>4. Refs(m2, br, p)
  <2>1. ASSUME NEW q \in br .. Size
        PROVE  m2[q].size = None /\ (m2[q].next = 0 \/ \E f \in Handles : p[f] = q)
    <3>1. CASE q = r
      BY <1>2, <3>1 DEF Ref, Info
    <3>2. CASE q # r
      <4>1. q \in Cells /\ q \notin to .. to + s /\ q # prv
        BY <1>1, <1>3
      <4>2. m2[q] = m[q]
        BY <1>2, <3>2, <4>1
      <4> QED
        BY <4>2 DEF Refs
    <3> QED
      BY <3>1, <3>2
  <2> QED
    BY <2>1 DEF Refs
<1>5. ASSUME NEW c \in Cells
      PROVE  m2[c].size = None \/ m2[c].next \in c + 1 .. End \/ m2[c] = m[c]
  <2>1. CASE c = to
    <3>1. m[b].next \in b + 1 .. End
      BY <1>1, Entries DEF Entry
    <3>2. m2[c].next = m[b].next
      BY <1>1, <2>1
    <3>3. m[b].next \in c + 1 .. End
      BY <1>1, <2>1, <3>1
    <3> QED
      BY <3>2, <3>3
  <2>2. CASE c \in to .. to + s /\ c # to
    <3> DEFINE i == c - to
    <3>1. i \in 1 .. s /\ c + (b - to) = b + i
      BY <1>1, <2>2
    <3>2. m2[c] = m[c + (b - to)]
      BY <1>2, <2>2
    <3> HIDE DEF i
    <3> QED
      BY <1>3, <3>1, <3>2 DEF Data, Info
  <2>3. CASE c = r
    BY <1>2, <2>3 DEF Ref, Info
  <2>4. CASE c = prv
    <3>1. m2[c].next = to
      <4>1. prv # 0
        BY <2>4
      <4> QED
        BY <2>4, <4>1 DEF Shifted
    <3> QED
      BY <1>1, <2>4, <3>1
  <2>5. CASE c \notin to .. to + s /\ c # r /\ c # prv
    BY <1>2, <2>5
  <2> QED
    BY <2>1, <2>2, <2>3, <2>4, <2>5
<1> QED
  BY <1>4, <1>5, ForwardKept

\* One iteration of defrag ends with the walk at the next block.
LEMMA Advances ==
  ASSUME NEW m, Forward(m), begin_ref \in First .. End, NEW K, List(m, begin_ref, K),
         NEW to \in K, NEW w, w = GetNext(m, to), w # 0
  PROVE  /\ w >= begin_ref \/ (w \in K /\ m[w].size # 0)
         /\ w \in Nat /\ to \in Nat /\ to < w
         /\ \A x \in K : to < x /\ x < w => m[x].size = 0
<1> USE Dims
<1>1. /\ Reaches(m, begin_ref, K, m[to].next, w)
      /\ to \in Nat /\ m[to].next \in to + 1 .. End
  BY NextReaches
<1>2. \A x \in K : to < x => m[to].next <= x
  BY DEF List
<1>3. \A x \in K : x \in 1 .. begin_ref - 1
  BY DEF List
<1>4. begin_ref \in 1 .. Size + 1
  OBVIOUS
<1>5. CASE w = begin_ref
  <2>1. w \notin K
    BY <1>3, <1>4, <1>5
  <2>2. \A x \in K : m[to].next <= x => m[x].size = 0
    BY <1>1, <2>1 DEF Reaches
  <2>3. to < w
    BY <1>3, <1>4, <1>5
  <2> QED
    BY <1>1, <1>2, <1>4, <1>5, <2>2, <2>3
<1>6. CASE w # begin_ref
  <2>1. /\ w \in K /\ m[to].next <= w /\ m[w].size # 0
        /\ \A x \in K : m[to].next <= x /\ x < w => m[x].size = 0
    BY <1>1, <1>6 DEF Reaches
  <2>2. w \in Nat /\ to < w
    BY <1>1, <1>3, <2>1
  <2> QED
    BY <1>1, <1>2, <2>1, <2>2
<1> QED
  BY <1>5, <1>6

\* What is known of the block that defrag has come to.
LEMMA Current ==
  ASSUME Usable, Types, data_end <= begin_ref, NEW L, Blocks(L), Moving(L), cur < begin_ref
  PROVE  /\ cur \in L /\ cur \in 1 .. begin_ref - 1 /\ begin_ref \in 1 .. Size + 1
         /\ data_end \in Nat /\ data_end <= cur
         /\ mem[cur].size \in Sizes /\ mem[cur].size \in Nat
         /\ cur + 1 + mem[cur].size <= begin_ref
         /\ mem[cur].reference \in begin_ref .. Size
         /\ \E h \in Handles : ptr[h] = mem[cur].reference /\ ptr[h] # 0 /\ mem[ptr[h]].next = cur
         /\ prev = 0 => data_end = 1
         /\ prev # 0 => prev \in L /\ data_end = prev + 1 + mem[prev].size
<1> USE Dims
<1>1. List(mem, begin_ref, L) /\ Owned(mem, begin_ref, ptr, L)
  BY DEF Blocks
<1>2. begin_ref \in 1 .. Size + 1 /\ data_end \in Nat
  BY DEF Types
<1>3. cur \in L /\ mem[cur].size # 0 /\ prev < cur /\ cur \in Nat /\ prev \in Nat
  BY <1>2 DEF Moving
<1>4. PICK h \in Handles : ptr[h] # 0 /\ mem[ptr[h]].next = cur
  BY <1>1, <1>3 DEF Owned
<1>5. /\ mem[cur].size \in Sizes /\ cur + 1 + mem[cur].size <= begin_ref
      /\ mem[cur].reference = ptr[h] /\ ptr[h] \in begin_ref .. Size
  <2>1. Owns(mem, begin_ref, ptr[h], L, h)
    BY <1>1, <1>4 DEF Owned
  <2> QED
    BY <1>4, <2>1 DEF Owns
<1>6. cur \in 1 .. begin_ref - 1 /\ mem[cur].size \in Nat
  BY <1>1, <1>3, Entries DEF Entry
<1>7. prev = 0 => data_end = 1
  <2>1. 0 \notin L
    BY <1>1, Entries DEF Entry
  <2> QED
    BY <2>1 DEF Moving
<1>8. prev # 0 => prev \in L /\ data_end = prev + 1 + mem[prev].size
  BY DEF Moving
<1>9. data_end <= cur
  <2>1. CASE prev = 0
    BY <1>6, <1>7, <2>1
  <2>2. CASE prev # 0
    <3>1. prev + Header + mem[prev].size <= cur
      BY <1>1, <1>3, <1>8, <2>2 DEF List
    <3> QED
      BY <1>8, <2>2, <3>1
  <2> QED
    BY <2>1, <2>2
<1> QED
  BY <1>2, <1>3, <1>4, <1>5, <1>6, <1>7, <1>8, <1>9

\* The memory after memmove, the change of the reference and prev->next.
LEMMA MovesDown ==
  ASSUME Usable, Types, data_end <= begin_ref, NEW L \in SUBSET Cells, Blocks(L), Moving(L),
         cur < begin_ref, cur # data_end, NEW r, r = mem[cur].reference,
         NEW m2, m2 = IF prev # 0 THEN [MovedDown(cur, data_end) EXCEPT ![prev].next = data_end]
                                  ELSE MovedDown(cur, data_end)
  PROVE  Shifted(mem, m2, begin_ref, L, prev, data_end, cur, mem[cur].size, r)
<1> USE Dims
<1> DEFINE to == data_end
           s == mem[cur].size
           gap == cur - to
           sh == [c \in Cells |-> IF c - to \in 0 .. (MovedCells(cur) - 1) THEN mem[c + gap]
                                  ELSE mem[c]]
           m1 == [sh EXCEPT ![r] = Ref(to)]
<1>1. /\ cur \in L /\ cur \in 1 .. begin_ref - 1 /\ begin_ref \in 1 .. Size + 1
      /\ to \in Nat /\ to < cur /\ s \in Nat /\ cur + 1 + s <= begin_ref /\ r \in begin_ref .. Size
      /\ prev = 0 => to = 1
      /\ prev # 0 => prev \in L /\ to = prev + 1 + mem[prev].size
  BY Current
<1>2. MovedDown(cur, to) = m1
  BY DEF MovedDown
<1>3. MovedCells(cur) - 1 = s
  BY <1>1 DEF MovedCells, SizeAt
<1>4. mem \in [Cells -> Cell]
  BY DEF Types
<1>5. to > 0
  <2>1. prev # 0 => prev \in 1 .. begin_ref - 1 /\ mem[prev].size \in Nat
    BY <1>1, Entries DEF Blocks, Entry
  <2> QED
    BY <1>1, <2>1
<1> HIDE DEF s, to
<1>6. /\ sh \in [Cells -> Cell]
      /\ \A c \in to .. to + s : sh[c] = mem[c + (cur - to)]
      /\ \A c \in Cells : c \notin to .. to + s => sh[c] = mem[c]
  <2>1. \A c \in Int : c - to \in 0 .. s <=> c \in to .. to + s
    BY <1>1
  <2>2. \A c \in to .. to + s : c \in Cells /\ c + (cur - to) \in Cells
    BY <1>1, <1>5, SMTT(30)
  <2>3. sh = [c \in Cells |-> IF c \in to .. to + s THEN mem[c + (cur - to)] ELSE mem[c]]
    BY <1>3, <2>1
  <2> HIDE DEF sh
  <2> QED
    BY <1>4, <2>2, <2>3
<1> HIDE DEF sh
<1>7. r \in Cells /\ Ref(to) \in Cell /\ to + s < begin_ref
  <2>1. to \in 0 .. End
    BY <1>1
  <2> QED
    BY <1>1, <2>1, Numbers DEF Ref, Info, Cell
<1>8. /\ m1 \in [Cells -> Cell] /\ m1[r] = Ref(to)
      /\ \A c \in to .. to + s : m1[c] = mem[c + (cur - to)]
      /\ \A c \in Cells : c \notin to .. to + s /\ c # r => m1[c] = mem[c]
  BY <1>1, <1>6, <1>7
<1> HIDE DEF m1
<1>9. \A x \in L : prev < x /\ x < cur => mem[x].size = 0
  BY DEF Moving
<1>10. CASE prev = 0
  <2>1. m2 = m1
    BY <1>2, <1>10 DEF to
  <2> QED
    BY <1>1, <1>8, <1>9, <1>10, <2>1 DEF Shifted, s, to
<1>11. CASE prev # 0
  <2>1. m2 = [m1 EXCEPT ![prev].next = to]
    BY <1>2, <1>11 DEF to
  <2>2. prev \in 1 .. begin_ref - 1 /\ mem[prev].size \in Nat
    BY <1>1, <1>11, Entries DEF Blocks, Entry
  <2>3. prev \in Cells /\ prev # r /\ prev \notin to .. to + s
    BY <1>1, <1>11, <2>2, SMTT(30)
  <2>4. m1[prev] = mem[prev] /\ m1[prev] \in Cell /\ to \in 0 .. End
    BY <1>1, <1>8, <2>3
  <2> DEFINE q == [m1[prev] EXCEPT !.next = to]
  <2>5. q \in Cell /\ q.next = to /\ q.size = mem[prev].size /\ q.reference = mem[prev].reference
    BY <2>4, SetNext
  <2>6. m2 = [m1 EXCEPT ![prev] = q]
    BY <2>1
  <2> HIDE DEF q
  <2>7. /\ m2 \in [Cells -> Cell] /\ m2[prev] = q
        /\ \A c \in Cells : c # prev => m2[c] = m1[c]
    BY <1>8, <2>3, <2>5, <2>6
  <2>8. m2[r] = Ref(to)
    BY <1>7, <1>8, <2>3, <2>7
  <2>9. \A c \in to .. to + s : m2[c] = mem[c + (cur - to)]
    <3>1. \A c \in to .. to + s : c \in Cells /\ c # prev
      BY <1>1, <1>5, <1>7, <2>3
    <3> QED
      BY <1>8, <2>7, <3>1
  <2>10. \A c \in Cells : c \notin to .. to + s /\ c # r /\ c # prev => m2[c] = mem[c]
    BY <1>8, <2>7
  <2> QED
    BY <1>1, <1>9, <1>11, <2>5, <2>7, <2>8, <2>9, <2>10 DEF Shifted, s, to
<1> QED
  BY <1>10, <1>11

\* What an iteration of defrag leaves: the block it has come to is now the block
\* of K at `to`.
Compacted(m2, K, to, s) ==
  /\ m2 \in [Cells -> Cell] /\ Forward(m2) /\ Refs(m2, begin_ref, ptr)
  /\ List(m2, begin_ref, K) /\ Owned(m2, begin_ref, ptr, K)
  /\ to \in K /\ m2[to].size = s /\ TakenBy(m2, ptr) = TakenBy(mem, ptr)
  /\ \A f \in Handles : ptr[f] # 0 => SizeOf(m2, ptr, f) = SizeOf(mem, ptr, f)

SameBlocks ==
  ptr' = ptr /\ \A f \in Handles : ptr[f] # 0 => SizeOf(mem', ptr', f) = SizeOf(mem, ptr, f)

LEMMA MoveBlockStep ==
  ASSUME Usable, IInv, MoveBlock
  PROVE  IInv' /\ (Lost \/ SameBlocks) /\ Balanced
<1> USE Dims
<1> DEFINE to == data_end
           moves == cur # to
           unlinked == IF moves THEN MovedDown(cur, to) ELSE mem
           m2 == IF moves /\ prev # 0 THEN [unlinked EXCEPT ![prev].next = to] ELSE unlinked
           w == GetNext(m2, to)
           s == mem[cur].size
           r == mem[cur].reference
<1>1. /\ Types /\ Sound /\ pc = "moving" /\ fate = "ok" /\ cur < begin_ref
  BY DEF MoveBlock, IInv
<1>2. CASE Lost
  BY <1>2, LostStep
<1>3. CASE ~ Lost
  <2>1. /\ w # 0 /\ mem' = m2 /\ prev' = to /\ data_end' = to + Header + SizeAt(cur) /\ cur' = w
        /\ UNCHANGED <<allocated, begin_ref, ptr, pc, fate>>
    BY <1>3 DEF MoveBlock
  <2>2. PICK L \in SUBSET Cells : Blocks(L) /\ Moving(L)
    BY <1>1 DEF Sound
  <2>3. /\ cur \in L /\ cur \in 1 .. begin_ref - 1 /\ begin_ref \in 1 .. Size + 1
        /\ to \in Nat /\ to <= cur /\ s \in Sizes /\ s \in Nat /\ cur + 1 + s <= begin_ref
        /\ r \in begin_ref .. Size
        /\ \E h \in Handles : ptr[h] = r /\ ptr[h] # 0 /\ mem[ptr[h]].next = cur
    BY <1>1, <2>2, Current DEF Sound
  <2>4. PICK h \in Handles : ptr[h] = r /\ ptr[h] # 0 /\ mem[ptr[h]].next = cur
    BY <2>3
  <2>5. /\ List(mem, begin_ref, L) /\ Owned(mem, begin_ref, ptr, L) /\ begin_ref \in First .. End
        /\ Refs(mem, begin_ref, ptr) /\ Forward(mem) /\ mem \in [Cells -> Cell]
    BY <1>1, <2>2 DEF Blocks, Types, Sound
  <2> DEFINE K == IF moves THEN MovedList(L, prev, to, cur) ELSE L
  <2>6. ASSUME ~ moves PROVE Compacted(m2, K, to, s)
    <3>1. m2 = mem /\ K = L /\ to = cur
      BY <2>6
    <3>2. Compacted(mem, L, cur, s)
      BY <2>3, <2>5 DEF Compacted
    <3> HIDE DEF m2, K, to
    <3> QED
      BY <3>1, <3>2
  <2>7. ASSUME moves PROVE Compacted(m2, K, to, s)
    <3>1. Shifted(mem, m2, begin_ref, L, prev, to, cur, s, r)
      <4>1. m2 = IF prev # 0 THEN [MovedDown(cur, to) EXCEPT ![prev].next = to]
                             ELSE MovedDown(cur, to)
        BY <2>7
      <4>2. to <= begin_ref
        BY <1>1 DEF Sound
      <4> HIDE DEF m2
      <4> QED
        BY <1>1, <2>2, <2>7, <4>1, <4>2, MovesDown
    <3>2. K = MovedList(L, prev, to, cur)
      BY <2>7
    <3> HIDE DEF m2, to, s, r, K
    <3>3. List(m2, begin_ref, K)
      <4>1. \A i \in 1 .. s : mem[cur + i].size = None
        <5>1. Owns(mem, begin_ref, ptr[h], L, h)
          BY <2>4, <2>5 DEF Owned
        <5> QED
          BY <2>4, <5>1 DEF Owns, Data, Info, s
      <4> QED
        BY <2>5, <3>1, <3>2, <4>1, ListShifted
    <3>4. m2 \in [Cells -> Cell]
      BY <3>1 DEF Shifted
    <3>5. m2[to].size = s
      BY <2>5, <3>1, ShiftedParts
    <3>6. to \in K
      BY <3>2 DEF MovedList
    <3>7. /\ Owned(m2, begin_ref, ptr, K) /\ CellsOf(m2, ptr, h) = to .. to + s
          /\ \A f \in Handles : f # h /\ ptr[f] # 0 => CellsOf(m2, ptr, f) = CellsOf(mem, ptr, f)
          /\ \A f \in Handles : ptr[f] # 0 => SizeOf(m2, ptr, f) = SizeOf(mem, ptr, f)
      BY <2>4, <2>5, <3>1, <3>2, OwnedShifted
    <3>8. Forward(m2) /\ Refs(m2, begin_ref, ptr)
      BY <2>4, <2>5, <3>1, ShiftedKinds
    <3>9. TakenBy(m2, ptr) = TakenBy(mem, ptr)
      <4>1. Others(m2, ptr, h) = Others(mem, ptr, h)
        BY <3>7, OthersKept
      <4>2. TakenBy(m2, ptr) = Cardinality(Others(m2, ptr, h)) + s + 1
        BY <2>3, <2>4, <2>5, <3>3, <3>7, TakenSplits
      <4>3. CellsOf(mem, ptr, h) = cur .. cur + s
        <5>1. cur + Header + s - 1 = cur + s
          BY <2>3
        <5> QED
          BY <2>4, <5>1 DEF CellsOf, s
      <4>4. TakenBy(mem, ptr) = Cardinality(Others(mem, ptr, h)) + s + 1
        BY <2>3, <2>4, <2>5, <4>3, TakenSplits
      <4> QED
        BY <4>1, <4>2, <4>4
    <3> QED
      BY <3>3, <3>4, <3>5, <3>6, <3>7, <3>8, <3>9 DEF Compacted
  <2>8. data_end' = to + 1 + s
    BY <2>1 DEF SizeAt
  <2> HIDE DEF m2, K, to, s, r, w
  <2>9. PICK m1, J : m1 = m2 /\ Compacted(m1, J, to, s)
    BY <2>6, <2>7
  <2>10. /\ m1 \in [Cells -> Cell] /\ Forward(m1) /\ Refs(m1, begin_ref, ptr)
         /\ List(m1, begin_ref, J) /\ Owned(m1, begin_ref, ptr, J)
         /\ to \in J /\ m1[to].size = s /\ TakenBy(m1, ptr) = TakenBy(mem, ptr)
         /\ \A f \in Handles : ptr[f] # 0 => SizeOf(m1, ptr, f) = SizeOf(mem, ptr, f)
         /\ mem' = m1
    BY <2>1, <2>9 DEF Compacted
  <2>11. /\ w >= begin_ref \/ (w \in J /\ m1[w].size # 0)
         /\ w \in Nat /\ to \in Nat /\ to < w
         /\ \A x \in J : to < x /\ x < w => m1[x].size = 0
    <3>1. w = GetNext(m1, to)
      BY <2>9 DEF w
    <3> QED
      BY <2>1, <2>5, <2>10, <3>1, Advances
  <2>12. s # 0
    BY <2>3 DEF Usable
  <2>13. J \in SUBSET Cells
    BY <2>5, <2>10 DEF List
  <2>14. Moving(J)'
    BY <2>1, <2>8, <2>10, <2>11, <2>12 DEF Moving
  <2>15. Blocks(J)'
    BY <2>1, <2>10 DEF Blocks, List, Owned, Owns
  <2>16. data_end' \in Nat /\ data_end' <= begin_ref /\ data_end' \in First .. End
    BY <2>3, <2>8
  <2>17. Refs(mem, begin_ref, ptr)'
    BY <2>1, <2>10 DEF Refs
  <2>18. Sound'
    BY <1>1, <2>1, <2>13, <2>14, <2>15, <2>16, <2>17 DEF Sound
  <2>19. Types'
    BY <1>1, <2>1, <2>10, <2>16 DEF Types, Forward
  <2>20. Taken' = Taken
    <3>1. TakenBy(mem, ptr)' = TakenBy(m1, ptr)
      BY <2>1, <2>10 DEF TakenBy, CellsOf
    <3>2. Taken' = TakenBy(mem, ptr)'
      BY DEF Taken, TakenBy, Extent, CellsOf, Live, Block, SizeAt
    <3> QED
      BY <2>10, <3>1, <3>2, TakenSame
  <2>21. IInv'
    BY <1>1, <2>1, <2>18, <2>19, <2>20 DEF IInv
  <2>22. SameBlocks
    BY <2>1, <2>10 DEF SameBlocks, SizeOf
  <2>23. Balanced
    BY <2>1, <2>20 DEF Balanced
  <2> QED
    BY <2>21, <2>22, <2>23
<1> QED
  BY <1>2, <1>3

--------------------------------------------------------------------------------
(* The theorems *)

LEMMA InitIInv == ASSUME Init PROVE IInv
<1> USE Numbers
<1>1. /\ mem = [a \in Cells |-> Ref(0)] /\ allocated = 0 /\ data_end = First /\ begin_ref = End
      /\ ptr = [h \in Handles |-> 0] /\ pc = "idle" /\ fate = "ok"
  BY DEF Init
<1>2. Ref(0) \in Cell /\ Ref(0).size = None
  BY DEF Ref, Info, Cell
<1>3. mem \in [Cells -> Cell] /\ \A c \in Cells : mem[c].size = None
  BY <1>1, <1>2
<1>4. Types
  BY <1>1, <1>3 DEF Types, Forward
<1>5. Sound
  <2>1. Idle
    BY <1>1 DEF Idle, Fresh
  <2>2. Refs(mem, begin_ref, ptr)
    BY <1>1 DEF Refs
  <2> QED
    BY <1>1, <2>1, <2>2 DEF Sound
<1> QED
  BY <1>4, <1>5 DEF IInv

LEMMA StutterStep == ASSUME IInv, UNCHANGED vars PROVE IInv'
<1>1. UNCHANGED <<mem, allocated, data_end, begin_ref, ptr, pc, cur, prev, fate>>
  BY DEF vars
<1>2. Types' <=> Types
  BY <1>1 DEF Types, Forward
<1>3. Sound' <=> Sound
  <2>1. Idle' <=> Idle
    BY <1>1 DEF Idle, Fresh, Blocks, List, Owned, Owns
  <2>2. \A L : (Blocks(L) /\ Moving(L))' <=> (Blocks(L) /\ Moving(L))
    BY <1>1 DEF Blocks, Moving, List, Owned, Owns
  <2>3. Refs(mem, begin_ref, ptr)' <=> Refs(mem, begin_ref, ptr)
    BY <1>1 DEF Refs
  <2> QED
    BY <1>1, <2>1, <2>2, <2>3 DEF Sound
<1> QED
  BY <1>1, <1>2, <1>3 DEF IInv

\* The steps of CarefulSpec: those that are not misled keep the invariant, and
\* all of them but a realloc in place keep the totals and the blocks in step.
LEMMA CarefulIs ==
  ASSUME ~ Misled
  PROVE  /\ \A h \in Handles, n \in Sizes :
              Alloc(h, n) \/ ReallocMoves(h, n) => ~ (fate' = "ok" /\ RefInBlock(n))
         /\ DefragEmpty => Live = {}
         /\ Trim => \A h \in Live : ~ (ptr[h] < begin_ref')
BY Zenon DEF Misled

LEMMA StepIInv ==
  ASSUME Usable, IInv, [Next /\ ~ Misled]_vars
  PROVE  IInv' /\ [Balanced \/ \E h \in Handles, n \in Sizes : ReallocInPlace(h, n)]_vars
<1>1. CASE UNCHANGED vars
  BY <1>1, StutterStep
<1>2. CASE Next /\ ~ Misled
  <2> DEFINE Moves == \E h \in Handles, n \in Sizes : ReallocInPlace(h, n)
  <2> SUFFICES IInv' /\ (Balanced \/ Moves)
    OBVIOUS
  <2>1. ASSUME NEW h \in Handles, Free(h) PROVE IInv' /\ Balanced
    BY <2>1, FreeStep
  <2>2. ASSUME NEW h \in Handles, NEW n \in Sizes, Alloc(h, n) PROVE IInv' /\ Balanced
    <3>1. ~ (fate' = "ok" /\ RefInBlock(n))
      BY <1>2, <2>2, CarefulIs
    <3> QED
      BY <2>2, <3>1, AllocStep
  <2>3. ASSUME NEW h \in Handles, NEW n \in Sizes, ReallocInPlace(h, n) PROVE IInv' /\ Moves
    BY <2>3, ReallocInPlaceStep
  <2>4. ASSUME NEW h \in Handles, NEW n \in Sizes, ReallocMoves(h, n) PROVE IInv' /\ Balanced
    <3>1. ~ (fate' = "ok" /\ RefInBlock(n))
      BY <1>2, <2>4, CarefulIs
    <3> QED
      BY <2>4, <3>1, ReallocMovesStep
  <2>5. CASE DefragEmpty
    BY <1>2, <2>5, CarefulIs, DefragEmptyStep
  <2>6. CASE Defrag
    BY <2>6, DefragStep
  <2>7. CASE MoveBlock
    BY <2>7, MoveBlockStep
  <2>8. CASE Trim
    BY <1>2, <2>8, CarefulIs, TrimStep
  <2> HIDE DEF Moves
  <2> QED
    BY <1>2, <2>1, <2>2, <2>3, <2>4, <2>5, <2>6, <2>7, <2>8 DEF Next
<1> QED
  BY <1>1, <1>2

\* What every state of alloc, realloc, free and defrag keeps to: a list of blocks
\* from First on, none reaching into the next; every handle's reference and block
\* naming each other; and, inside defrag, no living block between the one moved
\* last and the one to be moved.  A block enlarged in place takes the empty blocks
\* it grows over off the list.
THEOREM Inductive == Usable => (CarefulSpec => []IInv)
<1> SUFFICES ASSUME Usable PROVE CarefulSpec => []IInv
  OBVIOUS
<1>1. Init => IInv
  BY InitIInv
<1>2. IInv /\ [Next /\ ~ Misled]_vars => IInv'
  BY StepIInv
<1> QED
  BY <1>1, <1>2, PTL DEF CarefulSpec

LEMMA IInvTypeOK == ASSUME IInv PROVE TypeOK
BY DEF IInv, Types, TypeOK, Cell

\* A handle that names something has a block of a list of blocks.
LEMMA LiveOwns ==
  ASSUME IInv, fate = "ok"
  PROVE  \E L \in SUBSET Cells :
           \/ Blocks(L)
           \/ Live = {}
<1>1. Sound /\ pc \in {"idle", "moving"}
  BY DEF IInv, Types
<1>2. Fresh => Live = {}
  BY DEF Fresh, Live
<1> QED
  BY <1>1, <1>2 DEF Sound, Idle

LEMMA IInvBlocksApart == ASSUME Usable, IInv PROVE BlocksApart
<1> USE Dims
<1> SUFFICES ASSUME fate = "ok"
             PROVE  /\ \A h \in Live :
                         /\ ptr[h] >= begin_ref /\ IsInfo(mem, Block(h))
                         /\ mem[Block(h)].reference = ptr[h]
                         /\ SizeAt(Block(h)) \in Sizes
                         /\ Extent(h) \subseteq First .. (begin_ref - 1)
                    /\ \A g, h \in Live : g # h => Extent(g) \cap Extent(h) = {}
  BY DEF BlocksApart
<1>1. PICK L \in SUBSET Cells : Blocks(L) \/ Live = {}
  BY LiveOwns
<1>2. CASE Live = {}
  BY <1>2
<1>3. CASE Live # {}
  <2>1. List(mem, begin_ref, L) /\ Owned(mem, begin_ref, ptr, L) /\ begin_ref \in First .. End
    BY <1>1, <1>3 DEF Blocks, IInv, Types
  <2>2. \A h : Extent(h) = CellsOf(mem, ptr, h)
    BY DEF Extent, CellsOf, Block, SizeAt
  <2>3. \A h \in Live : h \in Handles /\ ptr[h] # 0
    BY DEF Live
  <2>4. ASSUME NEW h \in Live
        PROVE  /\ ptr[h] >= begin_ref /\ IsInfo(mem, Block(h))
               /\ mem[Block(h)].reference = ptr[h]
               /\ SizeAt(Block(h)) \in Sizes
    <3>1. Owns(mem, begin_ref, ptr[h], L, h)
      BY <2>1, <2>3 DEF Owned
    <3>2. /\ ptr[h] \in begin_ref .. Size /\ Block(h) \in L /\ mem[Block(h)].reference = ptr[h]
          /\ mem[Block(h)].size \in Sizes
      BY <3>1 DEF Owns, Block
    <3>3. mem[Block(h)].size # None
      BY <3>2, Numbers
    <3>4. ptr[h] >= begin_ref /\ begin_ref \in Nat
      BY <2>1, <3>2
    <3>5. Block(h) \in Cells
      BY <1>1, <3>2
    <3> QED
      BY <3>2, <3>3, <3>4, <3>5 DEF IsInfo, SizeAt
  <2>5. \A h \in Live : CellsOf(mem, ptr, h) \subseteq First .. begin_ref - 1
    BY <2>1, <2>3, OwnersApart
  <2>6. \A g, h \in Live : g # h => CellsOf(mem, ptr, g) \cap CellsOf(mem, ptr, h) = {}
    BY <2>1, <2>3, OwnersApart
  <2> QED
    BY <2>2, <2>4, <2>5, <2>6
<1> QED
  BY <1>2, <1>3

\* Addresses stay in the region and sizes in what can be asked for, through every
\* call of allocator.cpp.
THEOREM TypeCorrect == Usable => (CarefulSpec => []TypeOK)
<1> SUFFICES ASSUME Usable PROVE CarefulSpec => []TypeOK
  OBVIOUS
<1>1. CarefulSpec => []IInv
  BY Inductive
<1>2. IInv => TypeOK
  BY IInvTypeOK
<1> QED
  BY <1>1, <1>2, PTL

\* alloc (lines 39-98), realloc (100-127) and defrag (141-167) never lead one
\* handle's block into another's cells or into the references, for any number of
\* handles and any sizes.
THEOREM BlocksLieApart == Usable => (CarefulSpec => []BlocksApart)
<1> SUFFICES ASSUME Usable PROVE CarefulSpec => []BlocksApart
  OBVIOUS
<1>1. CarefulSpec => []IInv
  BY Inductive
<1>2. IInv => BlocksApart
  BY IInvBlocksApart
<1> QED
  BY <1>1, <1>2, PTL

\* alloc, free, a realloc that moves its block and every step of defrag change
\* `allocated` by what they change the cells of the living blocks: the totals that
\* defrag (line 143) and alloc (line 44) decide on drift only by realloc in place.
THEOREM TotalsDriftInPlace == Usable => (CarefulSpec => TotalsFollow)
<1> SUFFICES ASSUME Usable PROVE CarefulSpec => TotalsFollow
  OBVIOUS
<1> DEFINE Follows == \/ allocated' - Taken' = allocated - Taken
                      \/ \E h \in Handles, n \in Sizes : ReallocInPlace(h, n)
<1>1. IInv /\ [Next /\ ~ Misled]_vars => [Follows]_vars
  BY StepIInv DEF Balanced
<1>2. CarefulSpec => []IInv
  BY Inductive
<1> HIDE DEF Follows
<1>3. CarefulSpec => [][Follows]_vars
  BY <1>1, <1>2, PTL DEF CarefulSpec
<1> QED
  BY <1>3 DEF Follows, TotalsFollow

--------------------------------------------------------------------------------
(* Refinement: the cells behind the handles are those of the abstract heap *)

\* What handle h holds in the abstract heap.
Holds(h) ==
  /\ ptr[h] = 0 => content[h] = None
  /\ ptr[h] # 0 => /\ content[h] = TheHeap!Filled(h, SizeOf(mem, ptr, h))
                   /\ SizeOf(mem, ptr, h) \in Sizes

LEMMA ContentIs == Usable => (IInv /\ fate = "ok" => \A h \in Handles : Holds(h))
<1> SUFFICES ASSUME Usable, IInv, fate = "ok", NEW h \in Handles PROVE Holds(h)
  OBVIOUS
<1> DEFINE b == Block(h)
           n == SizeAt(b)
<1>1. content[h] = IF ptr[h] # 0 THEN [i \in 1 .. n |-> mem[b + i].next] ELSE None
  BY DEF content, Live
<1>2. SizeOf(mem, ptr, h) = n
  BY DEF SizeOf, SizeAt, Block
<1>3. ASSUME ptr[h] # 0
      PROVE  /\ n \in Sizes
             /\ [i \in 1 .. n |-> mem[b + i].next] = [i \in 1 .. n |-> h]
  <2>1. PICK L \in SUBSET Cells : Blocks(L)
    BY <1>3, LiveOwns DEF Live
  <2>2. Owns(mem, begin_ref, ptr[h], L, h)
    BY <1>3, <2>1 DEF Blocks, Owned
  <2>3. n \in Sizes /\ \A i \in 1 .. n : mem[b + i] = Data(h)
    BY <2>2 DEF Owns, Block, SizeAt
  <2>4. Data(h).next = h
    BY DEF Data, Info
  <2> HIDE DEF n, b
  <2> QED
    BY <2>3, <2>4
<1> HIDE DEF n, b
<1> QED
  BY <1>1, <1>2, <1>3 DEF TheHeap!Filled, Holds

LEMMA ContentWillBe == Usable => (IInv' /\ fate' = "ok" => (\A h \in Handles : Holds(h))')
<1> SUFFICES ASSUME Usable PROVE IInv' /\ fate' = "ok" => (\A h \in Handles : Holds(h))'
  OBVIOUS
<1>1. IInv /\ fate = "ok" => \A h \in Handles : Holds(h)
  BY ContentIs
<1>2. (IInv /\ fate = "ok" => \A h \in Handles : Holds(h))'
  BY <1>1, PTL
<1> QED
  BY <1>2

LEMMA Contents ==
  /\ content = [h \in Handles |-> content[h]]
  /\ content' = [h \in Handles |-> content'[h]]
BY DEF content

\* What is known of a step, before and after, while its effects are defined.
LEMMA OthersKeepContent ==
  ASSUME Usable, IInv, IInv', fate = "ok", fate' = "ok", NEW h,
         OthersSame(mem, ptr, mem', ptr', h)
  PROVE  \A g \in Handles : g # h => content'[g] = content[g]
<1> SUFFICES ASSUME NEW g \in Handles, g # h PROVE content'[g] = content[g]
  OBVIOUS
<1>1. ptr'[g] = ptr[g] /\ (ptr[g] # 0 => SizeOf(mem', ptr', g) = SizeOf(mem, ptr, g))
  BY DEF OthersSame
<1>2. Holds(g)
  BY ContentIs
<1>3. Holds(g)'
  BY ContentWillBe
<1>4. content'[g] = IF ptr'[g] = 0 THEN None ELSE TheHeap!Filled(g, SizeOf(mem', ptr', g))
  BY <1>3 DEF Holds, SizeOf, TheHeap!Filled
<1>5. content[g] = IF ptr[g] = 0 THEN None ELSE TheHeap!Filled(g, SizeOf(mem, ptr, g))
  BY <1>2 DEF Holds
<1> QED
  BY <1>1, <1>4, <1>5

LEMMA ObtainsImplements ==
  ASSUME Usable, IInv, IInv', fate = "ok", fate' = "ok", NEW h \in Handles, NEW n \in Sizes,
         Obtains(h, n)
  PROVE  TheHeap!Next
<1>1. \A g \in Handles : g # h => content'[g] = content[g]
  BY OthersKeepContent DEF Obtains
<1>2. content'[h] = TheHeap!Filled(h, n)
  <2>1. Holds(h)'
    BY ContentWillBe
  <2>2. ptr'[h] # 0 /\ SizeOf(mem', ptr', h) = n
    BY DEF Obtains
  <2> QED
    BY <2>1, <2>2 DEF Holds, SizeOf, TheHeap!Filled
<1>3. content' = [content EXCEPT ![h] = TheHeap!Filled(h, n)]
  <2> DEFINE c == content
             d == content'
  <2>1. c = [g \in Handles |-> c[g]] /\ d = [g \in Handles |-> d[g]]
    BY Contents
  <2>2. \A g \in Handles : g # h => d[g] = c[g]
    BY <1>1
  <2>3. d[h] = TheHeap!Filled(h, n)
    BY <1>2
  <2> HIDE DEF c, d
  <2>4. d = [c EXCEPT ![h] = TheHeap!Filled(h, n)]
    BY <2>1, <2>2, <2>3
  <2> QED
    BY <2>4 DEF c, d
<1> QED
  BY <1>3 DEF TheHeap!Next, TheHeap!Obtain

LEMMA FreeImplements ==
  ASSUME Usable, IInv, NEW h \in Handles, Free(h)
  PROVE  TheHeap!Next
<1>1. IInv' /\ ptr'[h] = 0 /\ OthersSame(mem, ptr, mem', ptr', h)
  BY FreeStep
<1>2. fate = "ok" /\ fate' = "ok" /\ ptr[h] # 0
  BY DEF Free, Live
<1>3. \A g \in Handles : g # h => content'[g] = content[g]
  BY <1>1, <1>2, OthersKeepContent
<1>4. content'[h] = None
  BY <1>1 DEF content, Live
<1>5. content[h] # None
  <2>1. Holds(h)
    BY <1>2, ContentIs
  <2>2. content[h] = TheHeap!Filled(h, SizeOf(mem, ptr, h)) /\ SizeOf(mem, ptr, h) \in Sizes
    BY <1>2, <2>1 DEF Holds
  <2> QED
    BY <2>2, NoneAssumption DEF TheHeap!Filled
<1>6. content' = [content EXCEPT ![h] = None]
  <2> DEFINE c == content
             d == content'
  <2>1. c = [g \in Handles |-> c[g]] /\ d = [g \in Handles |-> d[g]]
    BY Contents
  <2>2. (\A g \in Handles : g # h => d[g] = c[g]) /\ d[h] = None
    BY <1>3, <1>4
  <2> HIDE DEF c, d
  <2>3. d = [c EXCEPT ![h] = None]
    BY <2>1, <2>2
  <2> QED
    BY <2>3 DEF c, d
<1> QED
  BY <1>5, <1>6 DEF TheHeap!Next, TheHeap!Free

\* Where memory and references stay, so do the contents; and a move of a block by
\* defrag takes its contents along.
LEMMA NothingMoves ==
  ASSUME UNCHANGED <<mem, ptr>>
  PROVE  content' = content
BY DEF content, Live, Block, SizeAt

LEMMA MoveKeepsContent ==
  ASSUME Usable, IInv, MoveBlock
  PROVE  content' = content
<1>1. IInv' /\ (Lost \/ SameBlocks)
  BY MoveBlockStep
<1>2. CASE Lost
  BY <1>2, NothingMoves DEF Lost
<1>3. CASE ~ Lost
  <2>1. fate = "ok" /\ fate' = "ok"
    BY <1>3 DEF MoveBlock
  <2>2. ASSUME NEW g \in Handles PROVE content'[g] = content[g]
    <3>1. Holds(g)
      BY <2>1, ContentIs
    <3>2. Holds(g)'
      BY <1>1, <2>1, ContentWillBe
    <3>3. content'[g] = IF ptr'[g] = 0 THEN None ELSE TheHeap!Filled(g, SizeOf(mem', ptr', g))
      BY <3>2 DEF Holds, SizeOf, TheHeap!Filled
    <3>4. content[g] = IF ptr[g] = 0 THEN None ELSE TheHeap!Filled(g, SizeOf(mem, ptr, g))
      BY <3>1 DEF Holds
    <3>5. ptr' = ptr /\ (ptr[g] # 0 => SizeOf(mem', ptr', g) = SizeOf(mem, ptr, g))
      BY <1>1, <1>3 DEF SameBlocks
    <3> QED
      BY <3>3, <3>4, <3>5
  <2> DEFINE c == content
             d == content'
  <2>3. c = [g \in Handles |-> c[g]] /\ d = [g \in Handles |-> d[g]] /\ \A g \in Handles : d[g] = c[g]
    BY <2>2, Contents
  <2> HIDE DEF c, d
  <2>4. c = d
    BY <2>3
  <2> QED
    BY <2>4 DEF c, d
<1> QED
  BY <1>2, <1>3

LEMMA StepImplements ==
  ASSUME Usable, IInv, [Next /\ ~ Misled]_vars
  PROVE  [TheHeap!Next]_content
<1> SUFFICES ASSUME Next, ~ Misled PROVE [TheHeap!Next]_content
  BY NothingMoves DEF vars
<1>1. ASSUME NEW h \in Handles, Free(h) PROVE TheHeap!Next
  BY <1>1, FreeImplements
<1>2. ASSUME NEW h \in Handles, NEW n \in Sizes, Alloc(h, n) PROVE [TheHeap!Next]_content
  <2>1. IInv' /\ (Lost \/ Obtains(h, n))
    <3>1. ~ (fate' = "ok" /\ RefInBlock(n))
      BY <1>2, CarefulIs
    <3> QED
      BY <1>2, <3>1, AllocStep
  <2>2. CASE Lost
    BY <2>2, NothingMoves DEF Lost
  <2>3. CASE ~ Lost
    <3>1. fate = "ok" /\ fate' = "ok"
      BY <1>2, <2>3 DEF Alloc
    <3> QED
      BY <2>1, <2>3, <3>1, ObtainsImplements
  <2> QED
    BY <2>2, <2>3
<1>3. ASSUME NEW h \in Handles, NEW n \in Sizes, ReallocInPlace(h, n) PROVE TheHeap!Next
  <2>1. IInv' /\ Obtains(h, n)
    BY <1>3, ReallocInPlaceStep
  <2>2. fate = "ok" /\ fate' = "ok"
    BY <1>3 DEF ReallocInPlace
  <2> QED
    BY <2>1, <2>2, ObtainsImplements
<1>4. ASSUME NEW h \in Handles, NEW n \in Sizes, ReallocMoves(h, n) PROVE [TheHeap!Next]_content
  <2>1. IInv' /\ (Lost \/ Obtains(h, n))
    <3>1. ~ (fate' = "ok" /\ RefInBlock(n))
      BY <1>4, CarefulIs
    <3> QED
      BY <1>4, <3>1, ReallocMovesStep
  <2>2. CASE Lost
    BY <2>2, NothingMoves DEF Lost
  <2>3. CASE ~ Lost
    <3>1. fate = "ok" /\ fate' = "ok"
      BY <1>4, <2>3 DEF ReallocMoves
    <3> QED
      BY <2>1, <2>3, <3>1, ObtainsImplements
  <2> QED
    BY <2>2, <2>3
<1>5. CASE DefragEmpty
  BY <1>5, NothingMoves DEF DefragEmpty
<1>6. CASE Defrag
  BY <1>6, NothingMoves DEF Defrag, Lost
<1>7. CASE MoveBlock
  BY <1>7, MoveKeepsContent
<1>8. CASE Trim
  BY <1>8, NothingMoves DEF Trim
<1> QED
  BY <1>1, <1>2, <1>3, <1>4, <1>5, <1>6, <1>7, <1>8 DEF Next

\* The contents behind the handles are those of Heap, the promise of the tests:
\* alloc and realloc fill one handle's block, free empties one handle, and no
\* step of defrag, nor a move by realloc, changes what another handle holds.
THEOREM Implements == Usable => (CarefulSpec => ImplementsHeap)
<1> SUFFICES ASSUME Usable PROVE CarefulSpec => ImplementsHeap
  OBVIOUS
<1>1. Init => TheHeap!Init
  BY DEF Init, TheHeap!Init, content, Live
<1>2. IInv /\ [Next /\ ~ Misled]_vars => [TheHeap!Next]_content
  BY StepImplements
<1>3. CarefulSpec => []IInv
  BY Inductive
<1> QED
  BY <1>1, <1>2, <1>3, PTL DEF CarefulSpec, ImplementsHeap, TheHeap!Spec

LEMMA IInvDataIsOk == Usable => (IInv /\ fate = "ok" => DataIsOk)
<1> USE Dims
<1> SUFFICES ASSUME Usable, IInv, fate = "ok", NEW h \in Live
             PROVE  /\ IsInfo(mem, Block(h))
                    /\ \A i \in 1 .. SizeAt(Block(h)) :
                         Block(h) + i \in Cells /\ mem[Block(h) + i] = Data(h)
  BY DEF DataIsOk
<1> DEFINE b == Block(h)
           n == SizeAt(b)
<1>1. PICK L \in SUBSET Cells : Blocks(L)
  BY LiveOwns
<1>2. Owns(mem, begin_ref, ptr[h], L, h) /\ begin_ref \in First .. End
  BY <1>1 DEF Blocks, Owned, Live, IInv, Types
<1>3. /\ b \in L /\ n \in Sizes /\ b + Header + n <= begin_ref /\ mem[b].size = n
      /\ \A i \in 1 .. n : mem[b + i] = Data(h)
  BY <1>2 DEF Owns, Block, SizeAt
<1> HIDE DEF b, n
<1>4. b \in Cells /\ n \in Nat /\ n # None
  BY <1>1, <1>3, Numbers
<1>5. \A i \in 1 .. n : b + i \in Cells
  BY <1>2, <1>3, <1>4
<1> QED
  BY <1>3, <1>4, <1>5 DEF b, n, IsInfo

LEMMA UndefinedKeeps ==
  ASSUME [Next]_vars, fate' # "ok"
  PROVE  UNCHANGED <<mem, ptr>>
<1>1. ASSUME NEW h \in Handles, Free(h) PROVE FALSE
  BY <1>1 DEF Free
<1>2. ASSUME NEW h \in Handles, NEW n \in Sizes, Alloc(h, n) PROVE UNCHANGED <<mem, ptr>>
  <2>1. Lost \/ UNCHANGED fate
    BY <1>2 DEF Alloc
  <2>2. fate = "ok"
    BY <1>2 DEF Alloc
  <2> QED
    BY <2>1, <2>2 DEF Lost
<1>3. ASSUME NEW h \in Handles, NEW n \in Sizes, ReallocInPlace(h, n) PROVE FALSE
  BY <1>3 DEF ReallocInPlace
<1>4. ASSUME NEW h \in Handles, NEW n \in Sizes, ReallocMoves(h, n) PROVE UNCHANGED <<mem, ptr>>
  <2>1. Lost \/ UNCHANGED fate
    BY <1>4 DEF ReallocMoves
  <2>2. fate = "ok"
    BY <1>4 DEF ReallocMoves
  <2> QED
    BY <2>1, <2>2 DEF Lost
<1>5. CASE DefragEmpty
  BY <1>5 DEF DefragEmpty
<1>6. CASE Defrag
  BY <1>6 DEF Defrag, Lost
<1>7. CASE MoveBlock
  BY <1>7 DEF MoveBlock, Lost
<1>8. CASE Trim
  BY <1>8 DEF Trim
<1>9. CASE UNCHANGED vars
  BY <1>9 DEF vars
<1> QED
  BY <1>1, <1>2, <1>3, <1>4, <1>5, <1>6, <1>7, <1>8, <1>9 DEF Next

\* isDataOk of the tests: each block holds what was written to it, wherever realloc
\* and defrag have moved it, until a step that is misled by what a realloc in place
\* (allocator.cpp:112) or a zero low byte (line 165) has left.
THEOREM DataStays == Usable => (CarefulSpec => []DataIsOk)
<1> SUFFICES ASSUME Usable PROVE CarefulSpec => []DataIsOk
  OBVIOUS
<1>1. CarefulSpec => []IInv
  BY Inductive
<1>2. Init => DataIsOk
  BY DEF Init, DataIsOk, Live
<1>3. IInv /\ fate = "ok" => DataIsOk
  BY IInvDataIsOk
<1>4. [Next]_vars /\ fate' # "ok" => UNCHANGED <<mem, ptr>>
  BY UndefinedKeeps
<1>5. DataIsOk /\ UNCHANGED <<mem, ptr>> => DataIsOk'
  BY DEF DataIsOk, Live, Block, SizeAt, IsInfo
<1>6. (IInv /\ fate = "ok" => DataIsOk)'
  BY <1>3, PTL
<1>7. IInv /\ IInv' /\ DataIsOk /\ [Next /\ ~ Misled]_vars => DataIsOk'
  BY <1>4, <1>5, <1>6
<1> QED
  BY <1>1, <1>2, <1>7, PTL DEF CarefulSpec

================================================================================
