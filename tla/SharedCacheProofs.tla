--------------------------- MODULE SharedCacheProofs ---------------------------
(***************************************************************************)
(* Proofs about SharedCache for every number of workers, slots and keys    *)
(* and every hash function.                                                *)
(***************************************************************************)
EXTENDS SharedCache, TLAPS, FiniteSetTheorems

USE CacheAssumption

\* Every probe lands in the table, also when the sum wraps.
LEMMA HashInTable == \A k \in Keys, i \in Slots : hash(k, i) \in Slots
<1> SUFFICES ASSUME NEW k \in Keys, NEW i \in Slots PROVE hash(k, i) \in Slots
  OBVIOUS
<1> DEFINE x == Hash[k] + i
           y == x % Word
<1>1. x \in Nat /\ Word \in Nat /\ Word > 0
  BY DEF Slots
<1> HIDE DEF x
<1>2. y \in Nat
  BY <1>1
<1> HIDE DEF y
<1>3. y % N \in 0 .. N - 1
  BY <1>2
<1> QED
  BY <1>3 DEF hash, Slots, y, x

--------------------------------------------------------------------------------
(* Types and control *)

\* Where each kind of process can be, and which request it then performs.
ControlOK ==
  /\ pc[GC] \in {"lock", "read", "match", "wttl", "wstatus", "release", "sleep"}
  /\ \A w \in Workers :
       /\ pc[w] # "sleep"
       /\ pc[w] \in Critical \cup {"lock", "done"} => req[w] \in Requests
       /\ pc[w] \in Copying => req[w].op = "get"
       /\ pc[w] \in Writing => req[w].op = "set"

LEMMA ProcsFinite == IsFiniteSet(Procs)
  BY FS_AddElement DEF Procs

LEMMA WeightIs ==
  ASSUME TypeOK, NEW p \in Procs PROVE Weight(p) \in {1, MaxValue} /\ Weight(p) \in Nat \ {0}
  BY DEF Weight

LEMMA PosInTable ==
  ASSUME TypeOK, ControlOK, NEW p \in Procs, pc[p] \in Critical
  PROVE  Pos(p) \in Slots
<1>1. CASE p = GC
  BY <1>1 DEF Pos, TypeOK, Procs
<1>2. CASE p # GC
  <2>1. req[p] \in Requests
    BY <1>2 DEF ControlOK, Procs
  <2>2. req[p].key \in Keys
    BY <2>1 DEF Requests
  <2> QED
    BY <1>2, <2>2, HashInTable DEF Pos, TypeOK
<1> QED
  BY <1>1, <1>2

\* The types of everything but the semaphores.
TypesBut ==
  /\ data \in [Slots -> Cells] /\ pc \in [Procs -> PCs]
  /\ req \in [Workers -> Requests \cup {Idle}] /\ idx \in [Procs -> Slots]
  /\ entry \in [Procs -> Entries] /\ reply \in [Workers -> Replies]

LEMMA UnreadIs == Unread \in Entries
  BY DEF Unread, Entries, Status

LEMMA SilentIs == Silent \in Replies
  BY DEF Silent, Replies

LEMMA InitTypes == Init => TypeOK /\ ControlOK
<1> SUFFICES ASSUME Init PROVE TypeOK /\ ControlOK
  OBVIOUS
<1>1. [key |-> None, lo |-> None, hi |-> None, TTL |-> 0, status |-> "FREE"] \in Cells
  BY DEF Cells, Status
<1>2. 0 \in Slots /\ MaxValue \in 0 .. MaxValue
  BY DEF Slots
<1> QED
  BY <1>1, <1>2, UnreadIs, SilentIs
  DEF Init, TypeOK, ControlOK, Procs, PCs, Critical, Copying, Writing, Idle

\* A worker moves to l with a request that fits l.
LEMMA WorkerGoes ==
  ASSUME TypeOK, ControlOK, NEW w \in Workers, NEW l \in PCs \ {"sleep"}, Goto(w, l),
         req' \in [Workers -> Requests \cup {Idle}],
         \A x \in Workers : x # w => req'[x] = req[x],
         l \in Critical \cup {"lock", "done"} => req'[w] \in Requests,
         l \in Copying => req'[w].op = "get",
         l \in Writing => req'[w].op = "set"
  PROVE  ControlOK' /\ pc' \in [Procs -> PCs]
<1>1. pc' \in [Procs -> PCs] /\ pc'[w] = l /\ \A p \in Procs : p # w => pc'[p] = pc[p]
  BY DEF Goto, TypeOK, Procs
<1>2. pc'[GC] = pc[GC]
  BY <1>1 DEF Procs
<1>3. ASSUME NEW x \in Workers, x # w PROVE pc'[x] = pc[x] /\ req'[x] = req[x]
  BY <1>1, <1>3 DEF Procs
<1> QED
  BY <1>1, <1>2, <1>3 DEF ControlOK

\* The collector moves to one of its states.
LEMMA CollectorGoes ==
  ASSUME TypeOK, ControlOK, UNCHANGED req,
         NEW l \in {"lock", "read", "match", "wttl", "wstatus", "release", "sleep"},
         Goto(GC, l)
  PROVE  ControlOK' /\ pc' \in [Procs -> PCs]
<1>1. pc' \in [Procs -> PCs] /\ pc'[GC] = l /\ \A w \in Workers : pc'[w] = pc[w]
  BY DEF Goto, TypeOK, Procs, PCs, Critical, Copying, Writing
<1> QED
  BY <1>1 DEF ControlOK

\* Either kind of process moves between the states of a search.
LEMMA ProcGoes ==
  ASSUME TypeOK, ControlOK, UNCHANGED req, NEW p \in Procs,
         NEW l \in {"read", "match"}, Goto(p, l), pc[p] \in {"lock", "read"}
  PROVE  ControlOK' /\ pc' \in [Procs -> PCs]
<1>1. CASE p = GC
  BY <1>1, CollectorGoes
<1>2. CASE p # GC
  <2>1. p \in Workers /\ req[p] \in Requests
    BY <1>2 DEF Procs, ControlOK, Critical
  <2> QED
    BY <2>1, WorkerGoes DEF TypeOK, PCs, Critical, Copying, Writing
<1> QED
  BY <1>1, <1>2

\* One field of one slot is overwritten.
LEMMA CellUpdate ==
  ASSUME TypeOK, NEW s \in Slots
  PROVE  /\ \A k \in Keys : [data EXCEPT ![s].key = k] \in [Slots -> Cells]
         /\ \A d \in Datum : [data EXCEPT ![s].lo = d] \in [Slots -> Cells]
         /\ \A d \in Datum : [data EXCEPT ![s].hi = d] \in [Slots -> Cells]
         /\ \A t \in 0 .. MaxTTL : [data EXCEPT ![s].TTL = t] \in [Slots -> Cells]
         /\ \A a \in Status : [data EXCEPT ![s].status = a] \in [Slots -> Cells]
<1>1. data[s] \in Cells
  BY DEF TypeOK
<1>2. /\ \A k \in Keys : [data[s] EXCEPT !.key = k] \in Cells
      /\ \A d \in Datum : [data[s] EXCEPT !.lo = d] \in Cells
      /\ \A d \in Datum : [data[s] EXCEPT !.hi = d] \in Cells
      /\ \A t \in 0 .. MaxTTL : [data[s] EXCEPT !.TTL = t] \in Cells
      /\ \A a \in Status : [data[s] EXCEPT !.status = a] \in Cells
  BY <1>1 DEF Cells
<1> QED
  BY <1>2 DEF TypeOK

LEMMA TypesStep ==
  ASSUME TypeOK, ControlOK, [Next]_vars
  PROVE  TypesBut' /\ ControlOK'
<1> USE DEF Procs
<1>0. /\ {"idle", "lock", "done", "dead"} \cup Critical \subseteq PCs \ {"sleep"}
      /\ Critical \cap {"idle", "lock", "done", "dead", "sleep"} = {}
  BY DEF PCs, Critical, Copying, Writing
<1>1. ASSUME NEW w \in Workers, NEW r \in Requests, Request(w, r)
      PROVE  TypesBut' /\ ControlOK'
  <2>1. PICK l \in {"lock", "done"} : Goto(w, l)
    BY <1>1 DEF Request, Answer
  <2>2. req' = [req EXCEPT ![w] = r] /\ UNCHANGED <<data, idx, entry>>
    BY <1>1 DEF Request
  <2>3. ControlOK' /\ pc' \in [Procs -> PCs]
    BY <1>0, <2>1, <2>2, WorkerGoes DEF TypeOK, Copying, Writing
  <2>4. \A c \in Codes : [Silent EXCEPT !.code = c] \in Replies
    BY DEF Silent, Replies
  <2>5. reply' \in [Workers -> Replies]
    BY <1>1, <2>4 DEF Request, Answer, TypeOK, Codes
  <2> QED
    BY <2>2, <2>3, <2>5 DEF TypesBut, TypeOK
<1>2. ASSUME NEW p \in Procs, Lock(p) PROVE TypesBut' /\ ControlOK'
  BY <1>2, ProcGoes DEF Lock, TypesBut, TypeOK
<1>3. ASSUME NEW p \in Procs, ReadEntry(p) PROVE TypesBut' /\ ControlOK'
  <2>1. Slot(p) \in Cells
    BY <1>3, PosInTable DEF ReadEntry, Critical, Slot, TypeOK
  <2>2. [TTL |-> Slot(p).TTL, status |-> Slot(p).status] \in Entries
    BY <2>1 DEF Cells, Entries
  <2> QED
    BY <1>3, <2>2, ProcGoes DEF ReadEntry, TypesBut, TypeOK
<1>4. ASSUME NEW w \in Workers, MatchGet(w) PROVE TypesBut' /\ ControlOK'
  <2>1. req[w] \in Requests /\ req[w].op = "get"
    BY <1>4 DEF MatchGet, ControlOK, Critical
  <2>2. PICK l \in {"copylo", "release"} : Goto(w, l)
    BY <1>4 DEF MatchGet
  <2> QED
    BY <1>0, <1>4, <2>1, <2>2, WorkerGoes
    DEF MatchGet, TypesBut, TypeOK, Critical, Copying, Writing
<1>5. ASSUME NEW w \in Workers, MatchSet(w) PROVE TypesBut' /\ ControlOK'
  <2>1. req[w] \in Requests /\ req[w].op = "set"
    BY <1>5 DEF MatchSet, ControlOK, Critical
  <2>2. PICK l \in {"wkey", "release"} : Goto(w, l)
    BY <1>5 DEF MatchSet
  <2> QED
    BY <1>0, <1>5, <2>1, <2>2, WorkerGoes
    DEF MatchSet, TypesBut, TypeOK, Critical, Copying, Writing
<1>6. CASE MatchGC
  <2>1. PICK l \in {"wttl", "release"} : Goto(GC, l)
    BY <1>6 DEF MatchGC
  <2> QED
    BY <1>6, <2>1, CollectorGoes DEF MatchGC, TypesBut, TypeOK
<1>7. ASSUME NEW w \in Workers, CopyValue(w) PROVE TypesBut' /\ ControlOK'
  <2>1. /\ req[w] \in Requests /\ req[w].op = "get" /\ pc[w] \in Critical
    BY <1>7 DEF CopyValue, ControlOK, Critical, Copying
  <2>2. PICK l \in {"copyhi", "return"} : Goto(w, l)
    BY <1>7 DEF CopyValue
  <2>3. ControlOK' /\ pc' \in [Procs -> PCs]
    BY <1>0, <1>7, <2>1, <2>2, WorkerGoes
    DEF CopyValue, TypeOK, Critical, Copying, Writing
  <2>4. Slot(w) \in Cells
    BY <2>1, PosInTable DEF Slot, TypeOK
  <2>5. /\ [reply[w] EXCEPT !.lo = Slot(w).lo] \in Replies
        /\ [reply[w] EXCEPT !.hi = Slot(w).hi] \in Replies
    <3>1. reply[w] \in Replies
      BY DEF TypeOK
    <3>2. Slot(w).lo \in Datum \cup {None} /\ Slot(w).hi \in Datum \cup {None}
      BY <2>4 DEF Cells
    <3> QED
      BY <3>1, <3>2 DEF Replies
  <2>6. reply' \in [Workers -> Replies]
    BY <1>7, <2>5 DEF CopyValue, TypeOK
  <2> QED
    BY <1>7, <2>3, <2>6 DEF CopyValue, TypesBut, TypeOK
<1>8. ASSUME NEW w \in Workers, WriteKey(w) \/ WriteValue(w)
      PROVE  TypesBut' /\ ControlOK'
  <2>1. req[w] \in Requests /\ req[w].op = "set" /\ pc[w] \in Critical
    BY <1>8 DEF WriteKey, WriteValue, ControlOK, Critical, Writing
  <2>2. PICK l \in {"wlo", "whi", "wttl"} : Goto(w, l)
    BY <1>8 DEF WriteKey, WriteValue
  <2>3. UNCHANGED <<req, idx, entry, reply>>
    BY <1>8 DEF WriteKey, WriteValue
  <2>4. ControlOK' /\ pc' \in [Procs -> PCs]
    BY <1>0, <2>1, <2>2, <2>3, WorkerGoes DEF TypeOK, Critical, Copying, Writing
  <2>5. req[w].key \in Keys /\ <<req[w].key, req[w].val>> \in Datum
    BY <2>1 DEF Requests, Datum
  <2>6. data' \in [Slots -> Cells]
    <3>1. Pos(w) \in Slots
      BY <2>1, PosInTable
    <3>2. /\ [data EXCEPT ![Pos(w)].key = req[w].key] \in [Slots -> Cells]
          /\ [data EXCEPT ![Pos(w)].lo = <<req[w].key, req[w].val>>] \in [Slots -> Cells]
          /\ [data EXCEPT ![Pos(w)].hi = <<req[w].key, req[w].val>>] \in [Slots -> Cells]
      BY <2>5, <3>1, CellUpdate
    <3> QED
      BY <1>8, <3>2 DEF WriteKey, WriteValue
  <2> QED
    BY <2>3, <2>4, <2>6 DEF TypesBut, TypeOK
<1>9. ASSUME NEW p \in Procs, WriteTTL(p) \/ WriteStatus(p)
      PROVE  TypesBut' /\ ControlOK'
  <2>1. UNCHANGED <<req, idx, entry, reply>> /\ pc[p] \in Writing /\ pc[p] \in Critical
    BY <1>9 DEF WriteTTL, WriteStatus, Writing, Critical
  <2>2. NewTTL(p) \in 0 .. MaxTTL
    <3>1. CASE p = GC
      <4>1. entry[p] \in Entries
        BY DEF TypeOK
      <4>2. entry[p].TTL \in 0 .. MaxTTL
        BY <4>1 DEF Entries
      <4> QED
        BY <3>1, <4>2 DEF NewTTL
    <3>2. CASE p # GC
      BY <2>1, <3>2 DEF NewTTL, ControlOK, Requests
    <3> QED
      BY <3>1, <3>2
  <2>3. NewStatus(p) \in Status
    BY DEF NewStatus, Status
  <2>4. data' \in [Slots -> Cells]
    <3>1. Pos(p) \in Slots
      BY <2>1, PosInTable
    <3>2. /\ [data EXCEPT ![Pos(p)].TTL = NewTTL(p)] \in [Slots -> Cells]
          /\ [data EXCEPT ![Pos(p)].status = NewStatus(p)] \in [Slots -> Cells]
      BY <2>2, <2>3, <3>1, CellUpdate
    <3> QED
      BY <1>9, <3>2 DEF WriteTTL, WriteStatus
  <2>5. ControlOK' /\ pc' \in [Procs -> PCs]
    <3>1. CASE p = GC
      <4>1. PICK l \in {"wstatus", "release"} : Goto(GC, l)
        BY <1>9, <3>1 DEF WriteTTL, WriteStatus
      <4> QED
        BY <2>1, <4>1, CollectorGoes
    <3>2. CASE p # GC
      <4>1. PICK l \in {"wstatus", "return"} : Goto(p, l)
        BY <1>9, <3>2 DEF WriteTTL, WriteStatus
      <4>2. p \in Workers /\ req[p] \in Requests /\ req[p].op = "set"
        BY <2>1, <3>2 DEF ControlOK
      <4> QED
        BY <1>0, <2>1, <4>1, <4>2, WorkerGoes DEF TypeOK, Critical, Copying, Writing
    <3> QED
      BY <3>1, <3>2
  <2> QED
    BY <2>1, <2>4, <2>5 DEF TypesBut, TypeOK
<1>10. ASSUME NEW w \in Workers, Return(w) PROVE TypesBut' /\ ControlOK'
  <2>1. req[w] \in Requests
    BY <1>10 DEF Return, ControlOK, Critical
  <2>2. ControlOK' /\ pc' \in [Procs -> PCs]
    BY <1>0, <1>10, <2>1, WorkerGoes DEF Return, TypeOK, Critical, Copying, Writing
  <2>3. [reply[w] EXCEPT !.code = "OK"] \in Replies
    BY DEF TypeOK, Replies, Codes
  <2> QED
    BY <1>10, <2>2, <2>3, UnreadIs DEF Return, Unlock, TypesBut, TypeOK
<1>11. ASSUME NEW w \in Workers, Release(w) PROVE TypesBut' /\ ControlOK'
  <2>1. req[w] \in Requests
    BY <1>11 DEF Release, ControlOK, Critical
  <2>2. PICK l \in {"lock", "done"} : Goto(w, l)
    BY <1>11 DEF Release, Answer
  <2>3. ControlOK' /\ pc' \in [Procs -> PCs]
    BY <1>0, <1>11, <2>1, <2>2, WorkerGoes DEF Release, TypeOK, Critical, Copying, Writing
  <2>4. \A c \in Codes : [Silent EXCEPT !.code = c] \in Replies
    BY DEF Silent, Replies
  <2>5. reply' \in [Workers -> Replies]
    BY <1>11, <2>4 DEF Release, Answer, TypeOK, Codes
  <2>6. idx' \in [Procs -> Slots]
    <3>1. idx' = idx \/ (~LastProbe(w) /\ idx' = [idx EXCEPT ![w] = @ + 1])
      BY <1>11 DEF Release
    <3>2. idx \in [Procs -> 0 .. N - 1] /\ N \in Nat
      BY DEF TypeOK, Slots
    <3>3. ~LastProbe(w) => idx[w] + 1 \in 0 .. N - 1
      BY <3>2 DEF LastProbe
    <3> QED
      BY <3>1, <3>2, <3>3 DEF Slots
  <2> QED
    BY <1>11, <2>3, <2>5, <2>6, UnreadIs DEF Release, Unlock, TypesBut, TypeOK
<1>12. CASE ReleaseGC
  <2>1. PICK l \in {"lock", "sleep"} : Goto(GC, l)
    BY <1>12 DEF ReleaseGC
  <2>2. idx' \in [Procs -> Slots]
    BY <1>12 DEF ReleaseGC, TypeOK, LastProbe, Slots
  <2> QED
    BY <1>12, <2>1, <2>2, UnreadIs, CollectorGoes DEF ReleaseGC, Unlock, TypesBut, TypeOK
<1>13. CASE WakeUp
  BY <1>13, CollectorGoes DEF WakeUp, TypesBut, TypeOK
<1>14. ASSUME NEW w \in Workers, Deliver(w) \/ Crash(w) PROVE TypesBut' /\ ControlOK'
  <2>1. PICK l \in {"idle", "dead"} : Goto(w, l)
    BY <1>14 DEF Deliver, Crash
  <2>2. /\ req' = [req EXCEPT ![w] = Idle] /\ reply' = [reply EXCEPT ![w] = Silent]
        /\ idx' = [idx EXCEPT ![w] = 0] /\ UNCHANGED data
        /\ entry' = entry \/ entry' = [entry EXCEPT ![w] = Unread]
    BY <1>14 DEF Deliver, Crash
  <2>3. ControlOK' /\ pc' \in [Procs -> PCs]
    BY <1>0, <2>1, <2>2, WorkerGoes DEF TypeOK, Copying, Writing
  <2>4. 0 \in Slots
    BY DEF Slots
  <2> QED
    <3>1. req' \in [Workers -> Requests \cup {Idle}] /\ reply' \in [Workers -> Replies]
      BY <2>2, SilentIs DEF TypeOK
    <3>2. idx' \in [Procs -> Slots] /\ entry' \in [Procs -> Entries]
      BY <2>2, <2>4, UnreadIs DEF TypeOK
    <3> QED
      BY <2>2, <2>3, <3>1, <3>2 DEF TypesBut, TypeOK
<1>15. CASE UNCHANGED vars
  BY <1>15 DEF vars, TypeOK, TypesBut, ControlOK
<1> QED
  BY <1>1, <1>2, <1>3, <1>4, <1>5, <1>6, <1>7, <1>8, <1>9, <1>10, <1>11, <1>12, <1>13,
     <1>14, <1>15 DEF Next, WorkerStep, CollectorStep

--------------------------------------------------------------------------------
(* The semaphores *)

\* SemaphoreCounts for one semaphore.
Counts(j) ==
  \/ \E p \in Holders(j) : Exclusive(p) /\ Holders(j) = {p} /\ sem[j] = 0
  \/ /\ \A p \in Holders(j) : ~Exclusive(p)
     /\ sem[j] + Cardinality(Holders(j)) = MaxValue

LEMMA HoldersFinite == \A j : IsFiniteSet(Holders(j)) /\ Cardinality(Holders(j)) \in Nat
<1> SUFFICES ASSUME NEW j PROVE IsFiniteSet(Holders(j)) /\ Cardinality(Holders(j)) \in Nat
  OBVIOUS
<1>1. Holders(j) \subseteq Procs
  BY DEF Holders
<1> QED
  BY <1>1, ProcsFinite, FS_Subset, FS_CardinalityType

\* A semaphore that nobody takes or gives back keeps counting.
LEMMA CountsKept ==
  ASSUME NEW j \in Slots, Counts(j), sem'[j] = sem[j], Holders(j)' = Holders(j),
         \A p \in Holders(j) : Weight(p)' = Weight(p)
  PROVE  Counts(j)'
  BY DEF Counts, Exclusive

\* semop with a negative value: granted only when the value allows it.
LEMMA CountsTaken ==
  ASSUME TypeOK, NEW j \in Slots, Counts(j), NEW p \in Procs, p \notin Holders(j),
         sem[j] >= Weight(p), sem'[j] = sem[j] - Weight(p),
         Holders(j)' = Holders(j) \cup {p},
         \A q \in Procs : Weight(q)' = Weight(q)
  PROVE  Counts(j)'
<1>1. sem[j] \in 0 .. MaxValue /\ MaxValue \in Nat /\ Weight(p) \in Nat \ {0}
  BY WeightIs DEF TypeOK
<1>2. /\ \A q \in Holders(j) : ~Exclusive(q)
      /\ sem[j] + Cardinality(Holders(j)) = MaxValue
  BY <1>1 DEF Counts
<1>3. CASE Weight(p) = MaxValue
  <2>1. Cardinality(Holders(j)) = 0
    BY <1>1, <1>2, <1>3, HoldersFinite
  <2>2. Holders(j)' = {p}
    BY <2>1, HoldersFinite, FS_EmptySet
  <2>3. sem'[j] = 0
    BY <1>1, <1>3
  <2> QED
    BY <1>3, <2>2, <2>3 DEF Counts, Exclusive
<1>4. CASE Weight(p) # MaxValue
  <2>1. Weight(p) = 1
    BY <1>4, WeightIs
  <2>2. Cardinality(Holders(j) \cup {p}) = Cardinality(Holders(j)) + 1
    BY HoldersFinite, FS_AddElement
  <2>3. sem'[j] + Cardinality(Holders(j) \cup {p}) = MaxValue
    BY <1>1, <1>2, <2>1, <2>2, HoldersFinite
  <2>4. \A q \in Holders(j) \cup {p} : Weight(q)' # MaxValue
    BY <1>2, <1>4 DEF Exclusive, Holders
  <2> QED
    BY <2>3, <2>4 DEF Counts, Exclusive
<1> QED
  BY <1>3, <1>4

\* semop with a positive value by a holder, or SEM_UNDO for it.
LEMMA CountsGiven ==
  ASSUME TypeOK, NEW j \in Slots, Counts(j), NEW p \in Holders(j),
         sem'[j] = sem[j] + Weight(p),
         Holders(j)' = Holders(j) \ {p},
         \A q \in Holders(j) \ {p} : Weight(q)' = Weight(q)
  PROVE  Counts(j)' /\ sem'[j] \in 0 .. MaxValue
<1>1. sem[j] \in 0 .. MaxValue /\ MaxValue \in Nat /\ p \in Procs
  BY DEF TypeOK, Holders
<1>2. CASE Exclusive(p)
  <2>1. Holders(j) = {p} /\ sem[j] = 0
    BY <1>2 DEF Counts
  <2>2. Holders(j)' = {} /\ sem'[j] = MaxValue
    BY <1>1, <1>2, <2>1 DEF Exclusive
  <2> QED
    <3>1. Cardinality(Holders(j)') = 0
      BY <2>2, FS_EmptySet
    <3>2. sem'[j] + Cardinality(Holders(j)') = MaxValue
      BY <1>1, <2>2, <3>1
    <3> QED
      BY <1>1, <2>2, <3>2 DEF Counts
<1>3. CASE ~Exclusive(p)
  <2>1. Weight(p) = 1
    BY <1>1, <1>3, WeightIs DEF Exclusive
  <2>2. /\ \A q \in Holders(j) : ~Exclusive(q)
        /\ sem[j] + Cardinality(Holders(j)) = MaxValue
    BY <1>3 DEF Counts
  <2>3. Cardinality(Holders(j) \ {p}) = Cardinality(Holders(j)) - 1
    BY HoldersFinite, FS_RemoveElement
  <2>4. /\ sem'[j] + Cardinality(Holders(j) \ {p}) = MaxValue
        /\ Cardinality(Holders(j) \ {p}) \in Nat
    <3>1. Cardinality(Holders(j) \ {p}) \in Nat
      BY HoldersFinite, FS_RemoveElement, FS_CardinalityType
    <3> QED
      BY <1>1, <2>1, <2>2, <2>3, <3>1, HoldersFinite
  <2>5. \A q \in Holders(j) \ {p} : Weight(q)' # MaxValue
    BY <2>2 DEF Exclusive
  <2> QED
    <3>1. sem'[j] \in 0 .. MaxValue
      BY <1>1, <2>1, <2>4
    <3>2. Counts(j)'
      BY <2>4, <2>5 DEF Counts, Exclusive
    <3> QED
      BY <3>1, <3>2
<1> QED
  BY <1>2, <1>3

\* Which processes hold which semaphore changes with pc and idx only.
LEMMA HoldersKept ==
  ASSUME NEW j \in Slots,
         \A p \in Procs : (Holds(p, j)' <=> Holds(p, j))
                            /\ (Holds(p, j) => Weight(p)' = Weight(p)),
         Counts(j), sem'[j] = sem[j]
  PROVE  Counts(j)'
<1>1. Holders(j)' = Holders(j) /\ \A p \in Holders(j) : Weight(p)' = Weight(p)
  BY DEF Holders
<1> QED
  BY <1>1, CountsKept

\* A step of p that leaves its semaphore alone.
LEMMA StaysInside ==
  ASSUME TypeOK, SemaphoreCounts, NEW p \in Procs, NEW l \in PCs, Goto(p, l),
         pc[p] \in Critical <=> l \in Critical, UNCHANGED <<sem, req, idx>>
  PROVE  SemaphoreCounts' /\ sem' \in [Slots -> 0 .. MaxValue]
<1>1. \A q \in Procs, j \in Slots : Holds(q, j)' <=> Holds(q, j)
  BY DEF Goto, Holds, TypeOK
<1>2. \A q \in Procs : Weight(q)' = Weight(q)
  BY DEF Weight
<1>3. \A j \in Slots : Counts(j)'
  BY <1>1, <1>2, HoldersKept DEF SemaphoreCounts, Counts
<1> QED
  BY <1>3 DEF SemaphoreCounts, Counts, TypeOK

\* A step of a worker outside its critical section, which may renew its
\* request and its index.
LEMMA StaysOutside ==
  ASSUME TypeOK, SemaphoreCounts, NEW w \in Workers, NEW l \in PCs \ Critical, Goto(w, l),
         pc[w] \notin Critical, UNCHANGED sem,
         \A q \in Procs \ {w} : idx'[q] = idx[q] /\ (q \in Workers => req'[q] = req[q])
  PROVE  SemaphoreCounts' /\ sem' \in [Slots -> 0 .. MaxValue]
<1>1. \A q \in Procs : q # w => pc'[q] = pc[q] /\ Weight(q)' = Weight(q)
  BY DEF Goto, TypeOK, Procs, Weight
<1>2. pc'[w] \notin Critical
  BY DEF Goto, TypeOK, Procs
<1>3. \A q \in Procs, j \in Slots : /\ Holds(q, j)' <=> Holds(q, j)
                                    /\ Holds(q, j) => Weight(q)' = Weight(q)
  BY <1>1, <1>2 DEF Holds
<1>4. \A j \in Slots : Counts(j)'
  BY <1>3, HoldersKept DEF SemaphoreCounts, Counts
<1> QED
  BY <1>4 DEF SemaphoreCounts, Counts, TypeOK

\* A process takes its semaphore.
LEMMA Takes ==
  ASSUME TypeOK, SemaphoreCounts, NEW p \in Procs, Lock(p)
  PROVE  SemaphoreCounts' /\ sem' \in [Slots -> 0 .. MaxValue]
<1>0. PICK j \in Slots : j = idx[p]
  BY DEF TypeOK
<1>1. j \in Slots /\ sem[j] \in 0 .. MaxValue /\ sem[j] >= Weight(p)
  BY <1>0 DEF Lock, TypeOK
<1>2. /\ UNCHANGED <<req, idx>> /\ pc[p] = "lock" /\ pc' = [pc EXCEPT ![p] = "read"]
      /\ sem' = [sem EXCEPT ![j] = sem[j] - Weight(p)]
  BY <1>0 DEF Lock, Goto
<1>3. \A q \in Procs : Weight(q)' = Weight(q)
  BY <1>2 DEF Weight
<1>4. pc[p] \notin Critical /\ pc'[p] \in Critical /\ \A q \in Procs : q # p => pc'[q] = pc[q]
  BY <1>2 DEF TypeOK, Critical, Copying, Writing
<1>5. Holders(j)' = Holders(j) \cup {p} /\ p \notin Holders(j)
  BY <1>0, <1>2, <1>4 DEF Holders, Holds
<1>6. \A i \in Slots : Counts(i)'
  <2>1. Counts(j)'
    BY <1>1, <1>2, <1>3, <1>5, CountsTaken DEF SemaphoreCounts, Counts, TypeOK
  <2>2. ASSUME NEW i \in Slots, i # j PROVE Counts(i)'
    <3>1. \A q \in Procs : Holds(q, i)' <=> Holds(q, i)
      BY <1>0, <1>2, <1>4, <2>2 DEF Holds
    <3>2. sem'[i] = sem[i]
      BY <1>2, <2>2 DEF TypeOK
    <3> QED
      BY <1>3, <3>1, <3>2, HoldersKept DEF SemaphoreCounts, Counts
  <2> QED
    BY <2>1, <2>2
<1>7. sem' \in [Slots -> 0 .. MaxValue]
  <2>1. sem[j] - Weight(p) \in 0 .. MaxValue
    BY <1>1, WeightIs
  <2> QED
    BY <1>1, <1>2, <2>1 DEF TypeOK
<1> QED
  BY <1>6, <1>7 DEF SemaphoreCounts, Counts

\* A process gives its semaphore back, on its own or by SEM_UNDO.
LEMMA Gives ==
  ASSUME TypeOK, SemaphoreCounts, NEW p \in Procs, NEW l \in PCs \ Critical, Goto(p, l),
         pc[p] \in Critical, Undo(p),
         \A q \in Procs \ {p} : idx'[q] = idx[q] /\ (q \in Workers => req'[q] = req[q])
  PROVE  SemaphoreCounts' /\ sem' \in [Slots -> 0 .. MaxValue]
<1>0. PICK j \in Slots : j = idx[p]
  BY DEF TypeOK
<1>1. j \in Slots /\ sem' = [sem EXCEPT ![j] = sem[j] + Weight(p)]
  BY <1>0 DEF Undo, TypeOK
<1>2. pc'[p] \notin Critical /\ \A q \in Procs : q # p => pc'[q] = pc[q]
  BY DEF Goto, TypeOK
<1>3. \A q \in Procs : q # p => Weight(q)' = Weight(q)
  BY DEF Weight, Procs
<1>4. Holders(j)' = Holders(j) \ {p} /\ p \in Holders(j)
  BY <1>0, <1>2 DEF Holders, Holds
<1>5. Counts(j)' /\ sem'[j] \in 0 .. MaxValue
  <2>1. \A q \in Holders(j) \ {p} : Weight(q)' = Weight(q)
    BY <1>3 DEF Holders
  <2>2. Counts(j) /\ sem'[j] = sem[j] + Weight(p)
    BY <1>1 DEF SemaphoreCounts, Counts, TypeOK
  <2> QED
    BY <1>1, <1>4, <2>1, <2>2, CountsGiven
<1>6. ASSUME NEW i \in Slots, i # j PROVE Counts(i)'
  <2>1. \A q \in Procs : /\ Holds(q, i)' <=> Holds(q, i)
                         /\ Holds(q, i) => Weight(q)' = Weight(q)
    BY <1>0, <1>2, <1>3, <1>6 DEF Holds
  <2>2. sem'[i] = sem[i]
    BY <1>1, <1>6 DEF TypeOK
  <2> QED
    BY <2>1, <2>2, HoldersKept DEF SemaphoreCounts, Counts
<1>7. sem' \in [Slots -> 0 .. MaxValue]
  BY <1>1, <1>5 DEF TypeOK
<1> QED
  BY <1>5, <1>6, <1>7 DEF SemaphoreCounts, Counts

LEMMA SemaphoreStep ==
  ASSUME TypeOK, ControlOK, SemaphoreCounts, [Next]_vars
  PROVE  SemaphoreCounts' /\ sem' \in [Slots -> 0 .. MaxValue]
<1>0. /\ Workers \subseteq Procs /\ GC \in Procs
      /\ {"idle", "lock", "done", "dead", "sleep"} \subseteq PCs \ Critical
      /\ {"read", "match", "release", "return"} \cup Copying \cup Writing \subseteq Critical
      /\ Critical \subseteq PCs
  BY DEF Procs, PCs, Critical, Copying, Writing
<1>1. ASSUME NEW w \in Workers, NEW r \in Requests, Request(w, r)
      PROVE  SemaphoreCounts' /\ sem' \in [Slots -> 0 .. MaxValue]
  <2>1. PICK l \in {"lock", "done"} : Goto(w, l)
    BY <1>1 DEF Request, Answer
  <2>2. /\ pc[w] = "idle" /\ UNCHANGED <<sem, idx>>
        /\ \A q \in Workers : q # w => req'[q] = req[q]
    BY <1>1 DEF Request, TypeOK
  <2> QED
    BY <1>0, <2>1, <2>2, StaysOutside DEF Critical, Copying, Writing
<1>2. ASSUME NEW p \in Procs, Lock(p)
      PROVE  SemaphoreCounts' /\ sem' \in [Slots -> 0 .. MaxValue]
  BY <1>2, Takes
<1>3. ASSUME NEW w \in Workers,
             \/ MatchGet(w) \/ MatchSet(w) \/ CopyValue(w) \/ WriteKey(w) \/ WriteValue(w)
      PROVE  SemaphoreCounts' /\ sem' \in [Slots -> 0 .. MaxValue]
  <2>1. PICK l \in Critical : Goto(w, l)
    BY <1>0, <1>3
    DEF MatchGet, MatchSet, CopyValue, WriteKey, WriteValue, Critical, Copying, Writing
  <2>2. pc[w] \in Critical /\ UNCHANGED <<sem, req, idx>>
    BY <1>3
    DEF MatchGet, MatchSet, CopyValue, WriteKey, WriteValue, Critical, Copying, Writing
  <2> QED
    BY <1>0, <2>1, <2>2, StaysInside
<1>4. ASSUME NEW p \in Procs,
             ReadEntry(p) \/ WriteTTL(p) \/ WriteStatus(p) \/ (p = GC /\ MatchGC)
      PROVE  SemaphoreCounts' /\ sem' \in [Slots -> 0 .. MaxValue]
  <2>1. PICK l \in Critical : Goto(p, l)
    BY <1>0, <1>4 DEF ReadEntry, WriteTTL, WriteStatus, MatchGC, Critical, Copying, Writing
  <2>2. pc[p] \in Critical /\ UNCHANGED <<sem, req, idx>>
    BY <1>4 DEF ReadEntry, WriteTTL, WriteStatus, MatchGC, Critical, Copying, Writing
  <2> QED
    BY <1>0, <2>1, <2>2, StaysInside
<1>5. ASSUME NEW w \in Workers, Return(w) \/ Release(w)
      PROVE  SemaphoreCounts' /\ sem' \in [Slots -> 0 .. MaxValue]
  <2>1. PICK l \in {"lock", "done"} : Goto(w, l)
    BY <1>5 DEF Return, Release, Answer
  <2>2. /\ pc[w] \in Critical /\ Undo(w) /\ UNCHANGED req
        /\ idx' = idx \/ idx' = [idx EXCEPT ![w] = @ + 1]
    BY <1>5 DEF Return, Release, Unlock, Critical
  <2>3. \A q \in Procs \ {w} : idx'[q] = idx[q]
    BY <2>2 DEF TypeOK
  <2> QED
    BY <1>0, <2>1, <2>2, <2>3, Gives
<1>6. CASE ReleaseGC
  <2>1. PICK l \in {"lock", "sleep"} : Goto(GC, l)
    BY <1>6 DEF ReleaseGC
  <2>2. /\ pc[GC] \in Critical /\ Undo(GC) /\ UNCHANGED req
        /\ idx' = [idx EXCEPT ![GC] = @ + 1] \/ idx' = [idx EXCEPT ![GC] = 0]
    BY <1>6 DEF ReleaseGC, Unlock, Critical
  <2>3. \A q \in Procs \ {GC} : idx'[q] = idx[q]
    BY <2>2 DEF TypeOK
  <2> QED
    BY <1>0, <2>1, <2>2, <2>3, Gives
<1>7. CASE WakeUp
  <2>1. \A j \in Slots, p \in Procs : /\ Holds(p, j)' <=> Holds(p, j)
                                      /\ Weight(p)' = Weight(p)
    BY <1>7 DEF WakeUp, Goto, Holds, Weight, TypeOK, Critical, Copying, Writing
  <2>2. \A j \in Slots : Counts(j)'
    BY <1>7, <2>1, HoldersKept DEF WakeUp, SemaphoreCounts, Counts
  <2> QED
    BY <1>7, <2>2 DEF WakeUp, SemaphoreCounts, Counts, TypeOK
<1>8. ASSUME NEW w \in Workers, Deliver(w) \/ Crash(w)
      PROVE  SemaphoreCounts' /\ sem' \in [Slots -> 0 .. MaxValue]
  <2>1. PICK l \in {"idle", "dead"} : Goto(w, l)
    BY <1>8 DEF Deliver, Crash
  <2>2. \A q \in Procs \ {w} : idx'[q] = idx[q] /\ (q \in Workers => req'[q] = req[q])
    BY <1>8 DEF Deliver, Crash, TypeOK
  <2>3. CASE pc[w] \in Critical
    <3>1. Undo(w)
      BY <1>8, <2>3 DEF Deliver, Crash, SemUndo, Critical, Copying, Writing
    <3> QED
      BY <1>0, <2>1, <2>2, <2>3, <3>1, Gives
  <2>4. CASE pc[w] \notin Critical
    <3>1. UNCHANGED sem
      BY <1>8, <2>4 DEF Deliver, Crash, SemUndo
    <3> QED
      BY <1>0, <2>1, <2>2, <2>4, <3>1, StaysOutside
  <2> QED
    BY <2>3, <2>4
<1>9. CASE UNCHANGED vars
  <2>1. \A j \in Slots, p \in Procs : /\ Holds(p, j)' <=> Holds(p, j)
                                      /\ Weight(p)' = Weight(p)
    BY <1>9 DEF vars, Holds, Weight
  <2>2. \A j \in Slots : Counts(j)'
    BY <1>9, <2>1, HoldersKept DEF vars, SemaphoreCounts, Counts
  <2> QED
    BY <1>9, <2>2 DEF vars, SemaphoreCounts, Counts, TypeOK
<1> QED
  BY <1>0, <1>1, <1>2, <1>3, <1>4, <1>5, <1>6, <1>7, <1>8, <1>9
  DEF Next, WorkerStep, CollectorStep

LEMMA InitCounts == Init => SemaphoreCounts
<1> SUFFICES ASSUME Init, NEW j \in Slots PROVE Counts(j)
  BY DEF SemaphoreCounts, Counts
<1>1. Holders(j) = {} /\ sem[j] = MaxValue
  BY DEF Init, Holders, Holds, Procs, Critical, Copying, Writing
<1> QED
  BY <1>1, FS_EmptySet DEF Counts

\* The inductive invariant that the theorems share: the semaphore values keep
\* their type only because they count, and they count only because pc, req
\* and idx keep theirs.
Base == TypeOK /\ ControlOK /\ SemaphoreCounts

LEMMA BaseStep == Base /\ [Next]_vars => Base'
  BY TypesStep, SemaphoreStep DEF Base, TypesBut, TypeOK

LEMMA BaseInvariant == Spec => []Base
<1>1. Init => Base
  BY InitTypes, InitCounts DEF Base
<1> QED
  BY <1>1, BaseStep, PTL DEF Spec

\* Whatever the number of workers and slots and whatever the hash function,
\* every variable keeps its type: no TTL wraps, no semaphore leaves
\* 0 .. MaxValue, no access leaves the table.
THEOREM TypeCorrect == Spec => []TypeOK
  BY BaseInvariant, PTL DEF Base

\* A full lock excludes every other holder of the semaphore, and the units of
\* a semaphore are exactly those its holders have taken, crashes included.
THEOREM SemaphoresCount == Spec => []SemaphoreCounts
  BY BaseInvariant, PTL DEF Base

--------------------------------------------------------------------------------
(* The probe chains *)

\* What a worker has learnt on its way along a probe sequence.
SearchOK(w) ==
  /\ pc[w] = "idle" => idx[w] = 0
  /\ pc[w] \in Critical \cup {"lock"} =>
       \A j \in Slots : j < idx[w] => data[hash(req[w].key, j)].status # "FREE"
  /\ pc[w] \in Critical \ {"read"} /\ entry[w].status # "FREE" => Slot(w).status # "FREE"
  /\ pc[w] = "release" /\ req[w].op = "set" => entry[w].status # "FREE"
  /\ reply[w].code = "NO_FREE_SPACE" =>
       /\ pc[w] = "done"
       /\ \A j \in Slots : data[hash(req[w].key, j)].status # "FREE"

Probing == ProbeChain /\ \A w \in Workers : SearchOK(w)

\* An update of one field of one slot, seen from any slot.
LEMMA FieldUpdate ==
  ASSUME TypeOK, NEW s \in Slots, NEW t \in Slots, NEW v
  PROVE  /\ data' = [data EXCEPT ![t].key = v] =>
              data'[s].status = data[s].status /\ data'[s].key = IF s = t THEN v ELSE data[s].key
         /\ data' = [data EXCEPT ![t].lo = v] =>
              data'[s].status = data[s].status /\ data'[s].key = data[s].key
         /\ data' = [data EXCEPT ![t].hi = v] =>
              data'[s].status = data[s].status /\ data'[s].key = data[s].key
         /\ data' = [data EXCEPT ![t].TTL = v] =>
              data'[s].status = data[s].status /\ data'[s].key = data[s].key
         /\ data' = [data EXCEPT ![t].status = v] =>
              data'[s].key = data[s].key /\ data'[s].status = IF s = t THEN v ELSE data[s].status
<1>1. data[s] \in Cells /\ data[t] \in Cells
  BY DEF TypeOK
<1> QED
  BY <1>1 DEF TypeOK, Cells

\* No step makes a used slot FREE again.
LEMMA StaysUsed ==
  ASSUME Base, [Next]_vars, NEW s \in Slots, data[s].status # "FREE"
  PROVE  data'[s].status # "FREE"
<1> USE DEF Base
<1>0. \A p \in Procs : pc[p] \in Writing => Pos(p) \in Slots
  BY PosInTable DEF Critical
<1>1. ASSUME NEW w \in Workers, WriteKey(w) \/ WriteValue(w) PROVE data'[s].status # "FREE"
  <2>1. Pos(w) \in Slots
    BY <1>0, <1>1 DEF WriteKey, WriteValue, Writing, Procs
  <2>2. PICK v :
          \/ data' = [data EXCEPT ![Pos(w)].key = v] \/ data' = [data EXCEPT ![Pos(w)].lo = v]
          \/ data' = [data EXCEPT ![Pos(w)].hi = v]
    BY <1>1 DEF WriteKey, WriteValue
  <2> QED
    BY <2>1, <2>2, FieldUpdate
<1>2. ASSUME NEW p \in Procs, WriteTTL(p) \/ WriteStatus(p) PROVE data'[s].status # "FREE"
  <2>1. Pos(p) \in Slots /\ NewStatus(p) # "FREE"
    BY <1>0, <1>2 DEF WriteTTL, WriteStatus, Writing, NewStatus
  <2>2. \/ data' = [data EXCEPT ![Pos(p)].TTL = NewTTL(p)]
        \/ data' = [data EXCEPT ![Pos(p)].status = NewStatus(p)]
    BY <1>2 DEF WriteTTL, WriteStatus
  <2> QED
    BY <2>1, <2>2, FieldUpdate
<1>3. CASE UNCHANGED data
  BY <1>3
<1> QED
  BY <1>1, <1>2, <1>3
  DEF Next, WorkerStep, CollectorStep, Request, Lock, ReadEntry, MatchGet, MatchSet, MatchGC,
      CopyValue, Return, Release, ReleaseGC, WakeUp, Deliver, Crash, vars, Procs

\* Only WriteKey changes the key of a slot.
LEMMA KeysKept ==
  ASSUME Base, [Next]_vars, ~ \E w \in Workers : WriteKey(w), NEW s \in Slots
  PROVE  data'[s].key = data[s].key
<1> USE DEF Base
<1>0. \A p \in Procs : pc[p] \in Writing => Pos(p) \in Slots
  BY PosInTable DEF Critical
<1>1. ASSUME NEW w \in Workers, WriteValue(w) PROVE data'[s].key = data[s].key
  <2>1. Pos(w) \in Slots
    BY <1>0, <1>1 DEF WriteValue, Writing, Procs
  <2>2. PICK v :
          data' = [data EXCEPT ![Pos(w)].lo = v] \/ data' = [data EXCEPT ![Pos(w)].hi = v]
    BY <1>1 DEF WriteValue
  <2> QED
    BY <2>1, <2>2, FieldUpdate
<1>2. ASSUME NEW p \in Procs, WriteTTL(p) \/ WriteStatus(p) PROVE data'[s].key = data[s].key
  <2>1. Pos(p) \in Slots
    BY <1>0, <1>2 DEF WriteTTL, WriteStatus, Writing
  <2>2. \/ data' = [data EXCEPT ![Pos(p)].TTL = NewTTL(p)]
        \/ data' = [data EXCEPT ![Pos(p)].status = NewStatus(p)]
    BY <1>2 DEF WriteTTL, WriteStatus
  <2> QED
    BY <2>1, <2>2, FieldUpdate
<1>3. CASE UNCHANGED data
  BY <1>3
<1> QED
  BY <1>1, <1>2, <1>3
  DEF Next, WorkerStep, CollectorStep, Request, Lock, ReadEntry, MatchGet, MatchSet, MatchGC,
      CopyValue, Return, Release, ReleaseGC, WakeUp, Deliver, Crash, vars, Procs

LEMMA ChainStep ==
  ASSUME Base, Probing, [Next]_vars PROVE ProbeChain'
<1> SUFFICES ASSUME NEW s \in Slots, NEW k \in Keys, data'[s].key = k
             PROVE  \E i \in Slots : /\ hash(k, i) = s
                                     /\ \A j \in Slots : j < i => data'[hash(k, j)].status # "FREE"
  <2>1. \A s \in Slots : data'[s].key # None => data'[s].key \in Keys
    BY TypesStep DEF Base, TypesBut, Cells
  <2> QED
    BY <2>1 DEF ProbeChain, Reaches
<1>1. \E i \in Slots : /\ hash(k, i) = s
                       /\ \A j \in Slots : j < i => data[hash(k, j)].status # "FREE"
  <2>1. CASE data[s].key = k
    <3>1. k # None
      OBVIOUS
    <3> QED
      BY <2>1, <3>1 DEF Probing, ProbeChain, Reaches
  <2>2. CASE data[s].key # k
    <3>1. PICK w \in Workers : WriteKey(w)
      BY <2>2, KeysKept
    <3>2. pc[w] \in Critical /\ idx[w] \in Slots /\ w \in Procs /\ w # GC
      BY <3>1 DEF WriteKey, Base, TypeOK, Procs, Critical, Writing
    <3>3. Pos(w) \in Slots
      BY <3>2, PosInTable DEF Base
    <3>4. Pos(w) = s /\ k = req[w].key
      BY <2>2, <3>1, <3>3, FieldUpdate DEF WriteKey, Base
    <3>5. hash(k, idx[w]) = s
      BY <3>2, <3>4 DEF Pos
    <3>6. \A j \in Slots : j < idx[w] => data[hash(k, j)].status # "FREE"
      BY <3>2, <3>4 DEF Probing, SearchOK
    <3> QED
      BY <3>2, <3>5, <3>6
  <2> QED
    BY <2>1, <2>2
<1>2. \A j \in Slots : data[hash(k, j)].status # "FREE" => data'[hash(k, j)].status # "FREE"
  BY StaysUsed, HashInTable
<1> QED
  BY <1>1, <1>2

\* A worker that keeps its request keeps what it has learnt from it.
LEMMA UsedKept ==
  ASSUME Base, [Next]_vars, NEW w \in Workers, pc[w] \in Critical \cup {"lock", "done"},
         NEW j \in Slots, data[hash(req[w].key, j)].status # "FREE", req'[w] = req[w]
  PROVE  data'[hash(req'[w].key, j)].status # "FREE"
<1>1. req[w].key \in Keys
  BY DEF Base, ControlOK, Requests
<1> QED
  BY <1>1, HashInTable, StaysUsed

LEMMA SlotKept ==
  ASSUME Base, [Next]_vars, NEW w \in Workers, pc[w] \in Critical, Slot(w).status # "FREE",
         req'[w] = req[w], idx'[w] = idx[w]
  PROVE  Slot(w)'.status # "FREE"
<1>1. Pos(w) \in Slots
  BY PosInTable DEF Base, Procs
<1> QED
  BY <1>1, StaysUsed DEF Slot, Pos

LEMMA SearchKept ==
  ASSUME Base, [Next]_vars, NEW w \in Workers, SearchOK(w),
         pc'[w] = pc[w], req'[w] = req[w], idx'[w] = idx[w], entry'[w] = entry[w],
         reply'[w] = reply[w]
  PROVE  SearchOK(w)'
  BY UsedKept, SlotKept DEF SearchOK

\* The steps in which a worker neither changes its place in the search nor its
\* copied entry.
LEMMA SearchStays ==
  ASSUME Base, [Next]_vars, NEW w \in Workers, SearchOK(w), pc[w] \in Critical \ {"read"},
         NEW l \in Critical \ {"read"}, pc'[w] = l,
         l = "release" /\ req[w].op = "set" => entry[w].status # "FREE",
         req'[w] = req[w], idx'[w] = idx[w], entry'[w] = entry[w],
         reply'[w].code = reply[w].code
  PROVE  SearchOK(w)'
<1>1. pc[w] \notin {"idle", "done"} /\ l \notin {"idle", "done"}
  BY DEF Critical, Copying, Writing
<1>2. reply'[w].code # "NO_FREE_SPACE"
  BY <1>1 DEF SearchOK
<1>3. \A j \in Slots : j < idx'[w] => data'[hash(req'[w].key, j)].status # "FREE"
  BY UsedKept DEF SearchOK
<1>4. entry'[w].status # "FREE" => Slot(w)'.status # "FREE"
  BY SlotKept DEF SearchOK
<1> QED
  BY <1>1, <1>2, <1>3, <1>4 DEF SearchOK

\* A worker outside the search has nothing to remember.
LEMMA SearchOver ==
  ASSUME NEW w \in Workers, pc'[w] \in {"idle", "done", "dead"}, pc'[w] = "idle" => idx'[w] = 0,
         reply'[w].code # "NO_FREE_SPACE"
  PROVE  SearchOK(w)'
  BY DEF SearchOK, Critical, Copying, Writing

\* A step of one process leaves the locals of the others alone.
LEMMA OthersKeep ==
  ASSUME TypeOK, NEW w \in Procs, NEW p \in Procs, p # w, NEW l, Goto(p, l),
         \/ p \in Workers /\ (WorkerStep(p) \/ Crash(p))
         \/ Lock(p) \/ (p = GC /\ CollectorStep)
         \/ \E r \in Requests : p \in Workers /\ Request(p, r)
  PROVE  /\ pc'[w] = pc[w] /\ idx'[w] = idx[w] /\ entry'[w] = entry[w]
         /\ w \in Workers => req'[w] = req[w] /\ reply'[w] = reply[w]
<1>1. pc'[w] = pc[w]
  BY DEF Goto, TypeOK
<1>2. PICK rq : req' = req \/ req' = [req EXCEPT ![p] = rq]
  BY DEF WorkerStep, CollectorStep, Request, Lock, ReadEntry, MatchGet, MatchSet, MatchGC,
         CopyValue, WriteKey, WriteValue, WriteTTL, WriteStatus, Return, Release, ReleaseGC, WakeUp,
         Deliver, Crash
<1>3. PICK ix : idx' = idx \/ idx' = [idx EXCEPT ![p] = ix]
  BY DEF WorkerStep, CollectorStep, Request, Lock, ReadEntry, MatchGet, MatchSet, MatchGC,
         CopyValue, WriteKey, WriteValue, WriteTTL, WriteStatus, Return, Release, ReleaseGC, WakeUp,
         Deliver, Crash
<1>4. PICK en : entry' = entry \/ entry' = [entry EXCEPT ![p] = en]
  BY DEF WorkerStep, CollectorStep, Request, Lock, ReadEntry, MatchGet, MatchSet, MatchGC,
         CopyValue, WriteKey, WriteValue, WriteTTL, WriteStatus, Return, Release, ReleaseGC, WakeUp,
         Deliver, Crash, Unlock
<1>5. PICK re : reply' = reply \/ reply' = [reply EXCEPT ![p] = re]
  BY DEF WorkerStep, CollectorStep, Request, Lock, ReadEntry, MatchGet, MatchSet, MatchGC,
         CopyValue, WriteKey, WriteValue, WriteTTL, WriteStatus, Return, Release, ReleaseGC, WakeUp,
         Deliver, Crash, Answer
<1> QED
  BY <1>1, <1>2, <1>3, <1>4, <1>5 DEF TypeOK

LEMMA SearchStep ==
  ASSUME Base, [Next]_vars, NEW w \in Workers, SearchOK(w)
  PROVE  SearchOK(w)'
<1> USE DEF Base
<1>0. w # GC /\ w \in Procs /\ GC \notin Workers
  BY DEF Procs
<1>1. ASSUME NEW r \in Requests, Request(w, r) PROVE SearchOK(w)'
  <2>1. idx'[w] = 0 /\ reply[w].code # "NO_FREE_SPACE"
    BY <1>1 DEF Request, SearchOK
  <2>2. CASE r.key \in LongKeys /\ Answer(w, "INVALID_KEY")
    BY <1>0, <2>2, SearchOver DEF Answer, Goto, TypeOK, Replies, Silent
  <2>3. CASE Answer(w, "INVALID_VALUE")
    BY <1>0, <2>3, SearchOver DEF Answer, Goto, TypeOK, Replies, Silent
  <2>4. CASE Goto(w, "lock") /\ UNCHANGED reply
    <3>1. pc'[w] = "lock" /\ reply'[w].code # "NO_FREE_SPACE"
      BY <1>0, <2>1, <2>4 DEF Goto, TypeOK
    <3>2. \A j \in Slots : ~ (j < idx'[w])
      BY <2>1 DEF Slots
    <3> QED
      BY <3>1, <3>2 DEF SearchOK, Critical, Copying, Writing
  <2> QED
    BY <1>1, <2>2, <2>3, <2>4 DEF Request
<1>2. CASE Lock(w)
  <2>1. pc[w] = "lock" /\ pc'[w] = "read" /\ UNCHANGED <<req, idx, entry, reply>>
    BY <1>0, <1>2 DEF Lock, Goto, TypeOK
  <2>2. \A j \in Slots : j < idx'[w] => data'[hash(req'[w].key, j)].status # "FREE"
    BY <2>1, UsedKept DEF SearchOK
  <2> QED
    BY <2>1, <2>2 DEF SearchOK
<1>3. CASE ReadEntry(w)
  <2>1. /\ pc[w] = "read" /\ pc'[w] = "match" /\ UNCHANGED <<req, idx, reply>>
        /\ entry'[w].status = Slot(w).status /\ "read" \in Critical
    BY <1>0, <1>3 DEF ReadEntry, Goto, TypeOK, Critical
  <2>2. \A j \in Slots : j < idx'[w] => data'[hash(req'[w].key, j)].status # "FREE"
    BY <2>1, UsedKept DEF SearchOK
  <2>3. entry'[w].status # "FREE" => Slot(w)'.status # "FREE"
    BY <2>1, SlotKept
  <2> QED
    BY <2>1, <2>2, <2>3 DEF SearchOK
<1>4. ASSUME MatchGet(w) \/ MatchSet(w) PROVE SearchOK(w)'
  <2>1. pc[w] = "match" /\ UNCHANGED <<req, idx, entry, reply>>
    BY <1>4 DEF MatchGet, MatchSet
  <2>2. /\ pc'[w] \in {"copylo", "wkey", "release"}
        /\ pc'[w] = "release" /\ req[w].op = "set" => entry[w].status # "FREE"
    BY <1>0, <1>4 DEF MatchGet, MatchSet, Goto, TypeOK
  <2> QED
    BY <2>1, <2>2, SearchStays DEF Critical, Copying, Writing
<1>5. ASSUME CopyValue(w) \/ WriteKey(w) \/ WriteValue(w) \/ WriteTTL(w) \/ WriteStatus(w)
      PROVE  SearchOK(w)'
  <2>1. /\ pc[w] \in Critical \ {"read"} /\ UNCHANGED <<req, idx, entry>>
        /\ pc'[w] \in Critical \ {"read", "release"}
    BY <1>0, <1>5
    DEF CopyValue, WriteKey, WriteValue, WriteTTL, WriteStatus, Goto, TypeOK, Critical, Copying,
        Writing
  <2>2. reply'[w].code = reply[w].code
    <3>1. PICK v : \/ reply' = [reply EXCEPT ![w].lo = v] \/ reply' = [reply EXCEPT ![w].hi = v]
                   \/ reply' = reply
      BY <1>5 DEF CopyValue, WriteKey, WriteValue, WriteTTL, WriteStatus
    <3>2. reply[w] \in Replies
      BY DEF TypeOK
    <3> QED
      BY <3>1, <3>2 DEF TypeOK, Replies
  <2> QED
    BY <2>1, <2>2, SearchStays
<1>6. CASE Return(w)
  <2>1. pc'[w] = "done" /\ reply'[w].code = "OK"
    <3>1. reply[w] \in Replies
      BY DEF TypeOK
    <3> QED
      BY <1>0, <1>6, <3>1 DEF Return, Goto, TypeOK, Replies
  <2> QED
    BY <2>1, SearchOver
<1>7. CASE Release(w)
  <2>1. /\ pc[w] = "release" /\ req' = req /\ data' = data /\ idx[w] \in Slots
        /\ req[w].op \in {"get", "set"}
    BY <1>0, <1>7 DEF Release, TypeOK, ControlOK, Critical, Requests
  <2>2. \A j \in Slots : j < idx[w] => data[hash(req[w].key, j)].status # "FREE"
    BY <2>1 DEF SearchOK, Critical
  <2>3. entry[w].status # "FREE" => data[hash(req[w].key, idx[w])].status # "FREE"
    BY <1>0, <2>1 DEF SearchOK, Critical, Slot, Pos
  <2>4. req[w].op = "set" => entry[w].status # "FREE"
    BY <2>1 DEF SearchOK
  <2>5. CASE Answer(w, "NO_SUCH_KEY")
    BY <1>0, <2>5, SearchOver DEF Answer, Goto, TypeOK, Replies, Silent
  <2>6. CASE req[w].op = "set" /\ LastProbe(w) /\ Answer(w, "NO_FREE_SPACE")
    <3>1. pc'[w] = "done"
      BY <1>0, <2>6 DEF Answer, Goto, TypeOK
    <3>2. \A j \in Slots : j < idx[w] \/ j = idx[w]
      BY <2>1, <2>6 DEF LastProbe, Slots
    <3>3. \A j \in Slots : data'[hash(req'[w].key, j)].status # "FREE"
      BY <2>1, <2>2, <2>3, <2>4, <2>6, <3>2
    <3> QED
      BY <3>1, <3>3 DEF SearchOK, Critical, Copying, Writing
  <2>7. CASE ~SearchEnds(w) /\ Goto(w, "lock") /\ idx' = [idx EXCEPT ![w] = @ + 1] /\ reply' = reply
    <3>1. pc'[w] = "lock" /\ idx'[w] = idx[w] + 1 /\ reply'[w].code # "NO_FREE_SPACE"
      BY <1>0, <2>1, <2>7 DEF Goto, TypeOK, SearchOK
    <3>2. entry[w].status # "FREE"
      BY <2>1, <2>4, <2>7 DEF SearchEnds
    <3>3. \A j \in Slots : j < idx[w] + 1 => j < idx[w] \/ j = idx[w]
      BY <2>1 DEF Slots
    <3>4. \A j \in Slots : j < idx'[w] => data'[hash(req'[w].key, j)].status # "FREE"
      BY <2>1, <2>2, <2>3, <3>1, <3>2, <3>3
    <3> QED
      BY <3>1, <3>4 DEF SearchOK, Critical, Copying, Writing
  <2> QED
    BY <1>7, <2>5, <2>6, <2>7 DEF Release
<1>8. ASSUME Deliver(w) \/ Crash(w) PROVE SearchOK(w)'
  <2>1. pc'[w] \in {"idle", "dead"} /\ idx'[w] = 0 /\ reply'[w] = Silent
    BY <1>0, <1>8 DEF Deliver, Crash, Goto, TypeOK
  <2> QED
    BY <2>1, SearchOver DEF Silent, Codes
<1>9. ASSUME NEW p \in Procs, p # w,
             \/ p \in Workers /\ (WorkerStep(p) \/ Crash(p))
             \/ Lock(p) \/ (p = GC /\ CollectorStep)
             \/ \E r \in Requests : p \in Workers /\ Request(p, r)
      PROVE  SearchOK(w)'
  <2>1. PICK l : Goto(p, l)
    BY <1>9
    DEF WorkerStep, CollectorStep, Request, Answer, Lock, ReadEntry, MatchGet, MatchSet, MatchGC,
        CopyValue, WriteKey, WriteValue, WriteTTL, WriteStatus, Return, Release, ReleaseGC, WakeUp,
        Deliver, Crash
  <2>2. pc'[w] = pc[w] /\ req'[w] = req[w] /\ idx'[w] = idx[w] /\ entry'[w] = entry[w]
        /\ reply'[w] = reply[w]
    BY <1>0, <1>9, <2>1, OthersKeep
  <2> QED
    BY <2>2, SearchKept
<1>10. CASE UNCHANGED vars
  BY <1>10, SearchKept DEF vars
<1> QED
  BY <1>0, <1>1, <1>2, <1>3, <1>4, <1>5, <1>6, <1>7, <1>8, <1>9, <1>10
  DEF Next, WorkerStep, Procs

LEMMA InitProbing == Init => Probing
<1> SUFFICES ASSUME Init PROVE Probing
  OBVIOUS
<1>1. ProbeChain
  BY DEF Init, ProbeChain
<1>2. ASSUME NEW w \in Workers PROVE SearchOK(w)
  <2>1. pc[w] = "idle" /\ idx[w] = 0 /\ reply[w] = Silent
    BY DEF Init, Procs
  <2> QED
    BY <2>1 DEF SearchOK, Silent, Codes, Critical, Copying, Writing
<1> QED
  BY <1>1, <1>2 DEF Probing

LEMMA ProbingInvariant == Spec => [](Base /\ Probing)
<1>1. Base /\ Probing /\ [Next]_vars => Probing'
  BY ChainStep, SearchStep DEF Probing
<1>2. Init => Base /\ Probing
  BY InitTypes, InitCounts, InitProbing DEF Base
<1> QED
  BY <1>1, <1>2, BaseStep, PTL DEF Spec

\* However gets, sets, sweeps and kills interleave, and although the lock of a
\* probe is not the lock of its slot, no FREE slot ever comes before the slot
\* that holds a key on that key's probe sequence: get cannot give up too early.
THEOREM ProbeChains == Spec => []ProbeChain
  BY ProbingInvariant, PTL DEF Probing

\* A set that is answered NO_FREE_SPACE has passed every slot its key can
\* reach, and none of them is FREE when the answer leaves.
THEOREM FullIsFull == Spec => []FullMeansFull
<1>1. Probing => FullMeansFull
  BY DEF Probing, SearchOK, FullMeansFull
<1> QED
  BY <1>1, ProbingInvariant, PTL

--------------------------------------------------------------------------------
(* Cells *)

LEMMA HolderIs ==
  ASSUME Base, NEW p \in Procs, pc[p] \in Critical
  PROVE  idx[p] \in Slots /\ p \in Holders(idx[p])
  BY DEF Base, TypeOK, Holders, Holds

LEMMA Locked ==
  ASSUME Base PROVE CellAtomic \/ CrossedProbes
<1> SUFFICES ASSUME NEW p \in Procs, NEW q \in Procs, p # q, Touches(p), pc[q] \in Writing,
                    Pos(p) = Pos(q), idx[p] = idx[q]
             PROVE  FALSE
  BY DEF CellAtomic, CrossedProbes
<1>1. pc[p] \in Critical /\ pc[q] \in Critical
  BY DEF Touches, Critical
<1>2. p \in Holders(idx[q]) /\ q \in Holders(idx[q]) /\ idx[q] \in Slots
  BY <1>1, HolderIs
<1>3. Exclusive(q)
  BY DEF Exclusive, Weight, Base, ControlOK, Writing, Procs
<1> QED
  BY <1>2, <1>3 DEF Base, SemaphoreCounts

\* For every hash function, any number of workers, keys and slots and through
\* every kill: whenever somebody reads or writes a slot that another process is
\* writing, the two have come to it by probes of different numbers and hold
\* different semaphores.  That is the only way the locking fails.
THEOREM OnlyCrossedProbesRace == Spec => [](CellAtomic \/ CrossedProbes)
  BY Locked, BaseInvariant, PTL

LEMMA UncrossedIs == UncrossedSpec => Spec /\ [](Base /\ CellAtomic)
<1>1. [Next /\ ~ CrossedProbes']_vars => [Next]_vars
  OBVIOUS
<1>2. Init => ~ CrossedProbes
  BY DEF Init, CrossedProbes, Writing, Procs
<1>3. ~ CrossedProbes /\ [Next /\ ~ CrossedProbes']_vars => ~ CrossedProbes'
  <2> SUFFICES ASSUME ~ CrossedProbes, UNCHANGED vars PROVE ~ CrossedProbes'
    OBVIOUS
  <2> QED
    BY DEF vars, CrossedProbes, Touches, Pos
<1> QED
  BY <1>1, <1>2, <1>3, Locked, BaseInvariant, PTL DEF UncrossedSpec, Spec

\* Without crossed probes, nobody reads or writes a slot while another process
\* writes it.
THEOREM CellsAtomic == UncrossedSpec => []CellAtomic
  BY UncrossedIs, PTL

\* A step of process p.
Steps(p) ==
  \/ p \in Workers /\ (WorkerStep(p) \/ Crash(p))
  \/ Lock(p) \/ (p = GC /\ CollectorStep)
  \/ \E r \in Requests : p \in Workers /\ Request(p, r)

LEMMA StepOf == ASSUME [Next]_vars PROVE UNCHANGED vars \/ \E p \in Procs : Steps(p)
<1>1. CASE \E w \in Workers, r \in Requests : Request(w, r)
  BY <1>1 DEF Steps, Procs
<1>2. CASE \E p \in Procs : Lock(p)
  BY <1>2 DEF Steps
<1>3. CASE \E w \in Workers : WorkerStep(w) \/ Crash(w)
  BY <1>3 DEF Steps, Procs
<1>4. CASE CollectorStep
  BY <1>4 DEF Steps, Procs
<1> QED
  BY <1>1, <1>2, <1>3, <1>4 DEF Next

\* What a step does to the others, and to the region.
LEMMA StepKeeps ==
  ASSUME TypeOK, NEW w \in Procs, NEW p \in Procs, p # w, Steps(p)
  PROVE  /\ pc'[w] = pc[w] /\ idx'[w] = idx[w] /\ entry'[w] = entry[w]
         /\ w \in Workers => req'[w] = req[w] /\ reply'[w] = reply[w]
<1>1. PICK l : Goto(p, l)
  BY DEF Steps, WorkerStep, CollectorStep, Request, Answer, Lock, ReadEntry, MatchGet, MatchSet,
         MatchGC, CopyValue, WriteKey, WriteValue, WriteTTL, WriteStatus, Return, Release,
         ReleaseGC, WakeUp, Deliver, Crash
<1> QED
  BY <1>1, OthersKeep DEF Steps

LEMMA StepWrites ==
  ASSUME NEW p \in Procs, Steps(p)
  PROVE  \/ p \in Workers /\ (WriteKey(p) \/ WriteValue(p))
         \/ WriteTTL(p) \/ WriteStatus(p) \/ data' = data
  BY DEF Steps, WorkerStep, CollectorStep, Request, Lock, ReadEntry, MatchGet, MatchSet, MatchGC,
         CopyValue, Return, Release, ReleaseGC, WakeUp, Deliver, Crash

LEMMA StepElsewhere ==
  ASSUME Base, NEW p \in Procs, Steps(p), NEW s \in Slots, ~ (pc[p] \in Writing /\ Pos(p) = s)
  PROVE  data'[s] = data[s]
<1>1. CASE data' = data
  BY <1>1
<1>2. CASE (p \in Workers /\ (WriteKey(p) \/ WriteValue(p))) \/ WriteTTL(p) \/ WriteStatus(p)
  <2>1. pc[p] \in Writing
    BY <1>2 DEF WriteKey, WriteValue, WriteTTL, WriteStatus, Writing
  <2>2. PICK v : \/ data' = [data EXCEPT ![Pos(p)].key = v] \/ data' = [data EXCEPT ![Pos(p)].lo = v]
                 \/ data' = [data EXCEPT ![Pos(p)].hi = v] \/ data' = [data EXCEPT ![Pos(p)].TTL = v]
                 \/ data' = [data EXCEPT ![Pos(p)].status = v]
    BY <1>2 DEF WriteKey, WriteValue, WriteTTL, WriteStatus
  <2> QED
    BY <2>1, <2>2 DEF Base, TypeOK
<1> QED
  BY <1>1, <1>2, StepWrites

LEMMA SlotAlone ==
  ASSUME Base, CellAtomic, NEW p \in Procs, Touches(p), NEW q \in Procs, q # p, Steps(q)
  PROVE  Pos(p)' = Pos(p) /\ Pos(p) \in Slots /\ data'[Pos(p)] = data[Pos(p)]
<1>1. Pos(p)' = Pos(p)
  BY StepKeeps DEF Pos, Base, Procs
<1>2. Pos(p) \in Slots
  BY PosInTable DEF Base, Touches, Critical
<1>3. ~ (pc[q] \in Writing /\ Pos(q) = Pos(p))
  BY DEF CellAtomic
<1> QED
  BY <1>1, <1>2, <1>3, StepElsewhere

\* While the copied TTL and status are in use.
Decided == Copying \cup {"match", "wkey", "wlo", "whi", "wttl"}

LEMMA EntryKept ==
  ASSUME Base, CellAtomic, EntryCurrent, NEW p \in Procs, pc[p] \in Decided,
         entry'[p] = entry[p], idx'[p] = idx[p], p \in Workers => req'[p] = req[p],
         data'[Pos(p)].TTL = data[Pos(p)].TTL, data'[Pos(p)].status = data[Pos(p)].status
  PROVE  entry'[p] = [TTL |-> data'[Pos(p)'].TTL, status |-> data'[Pos(p)'].status]
<1>1. Pos(p)' = Pos(p)
  BY DEF Pos, Procs
<1> QED
  BY <1>1 DEF EntryCurrent, Slot, Decided

LEMMA EntryStep ==
  ASSUME Base, CellAtomic, EntryCurrent, [Next]_vars PROVE EntryCurrent'
<1> SUFFICES ASSUME NEW p \in Procs, pc'[p] \in Decided
             PROVE  entry'[p] = [TTL |-> data'[Pos(p)'].TTL, status |-> data'[Pos(p)'].status]
  BY DEF EntryCurrent, Slot, Decided
<1> USE DEF Base
<1>0. Pos(p) \in Slots \/ pc[p] \notin Critical
  BY PosInTable
<1>1. CASE ReadEntry(p)
  <2>1. Pos(p)' = Pos(p) /\ data' = data
    BY <1>1 DEF ReadEntry, Pos
  <2> QED
    BY <1>1, <2>1 DEF ReadEntry, Slot, TypeOK
<1>2. CASE (p \in Workers /\ (MatchGet(p) \/ MatchSet(p) \/ CopyValue(p))) \/ (p = GC /\ MatchGC)
  <2>1. pc[p] \in Decided /\ UNCHANGED <<data, idx, req, entry>>
    BY <1>2 DEF MatchGet, MatchSet, CopyValue, MatchGC, Decided, Copying
  <2> QED
    BY <2>1, EntryKept
<1>3. CASE p \in Workers /\ (WriteKey(p) \/ WriteValue(p))
  <2>1. pc[p] \in Decided /\ pc[p] \in Critical /\ UNCHANGED <<idx, req, entry>>
    BY <1>3 DEF WriteKey, WriteValue, Decided, Critical, Writing
  <2>2. PICK v : \/ data' = [data EXCEPT ![Pos(p)].key = v] \/ data' = [data EXCEPT ![Pos(p)].lo = v]
                 \/ data' = [data EXCEPT ![Pos(p)].hi = v]
    BY <1>3 DEF WriteKey, WriteValue
  <2>3. Pos(p) \in Slots /\ data[Pos(p)] \in Cells
    BY <1>0, <2>1 DEF TypeOK
  <2>4. data'[Pos(p)].TTL = data[Pos(p)].TTL /\ data'[Pos(p)].status = data[Pos(p)].status
    BY <2>2, <2>3 DEF TypeOK, Cells
  <2> QED
    BY <2>1, <2>4, EntryKept
<1>4. CASE \/ Lock(p) \/ WriteTTL(p) \/ WriteStatus(p)
           \/ p = GC /\ (ReleaseGC \/ WakeUp)
           \/ p \in Workers /\ (Return(p) \/ Release(p) \/ Deliver(p) \/ Crash(p))
           \/ p \in Workers /\ \E r \in Requests : Request(p, r)
  <2>1. PICK l \in PCs \ Decided : Goto(p, l)
    BY <1>4
    DEF Lock, WriteTTL, WriteStatus, ReleaseGC, WakeUp, Return, Release, Deliver, Crash, Request,
        Answer, PCs, Decided, Critical, Copying, Writing
  <2> QED
    BY <2>1 DEF Goto, TypeOK
<1>5. ASSUME NEW q \in Procs, q # p, Steps(q)
      PROVE  entry'[p] = [TTL |-> data'[Pos(p)'].TTL, status |-> data'[Pos(p)'].status]
  <2>1. /\ pc'[p] = pc[p] /\ idx'[p] = idx[p] /\ entry'[p] = entry[p]
        /\ p \in Workers => req'[p] = req[p]
    BY <1>5, StepKeeps
  <2>2. pc[p] \in Decided /\ Touches(p)
    BY <2>1 DEF Decided, Touches, Copying, Writing
  <2>3. data'[Pos(p)] = data[Pos(p)]
    BY <1>5, <2>2, SlotAlone
  <2> QED
    BY <2>1, <2>2, <2>3, EntryKept
<1>6. CASE UNCHANGED vars
  BY <1>6, EntryKept DEF vars
<1> QED
  <2>1. ASSUME NEW q \in Procs, Steps(q), q = p
        PROVE  entry'[p] = [TTL |-> data'[Pos(p)'].TTL, status |-> data'[Pos(p)'].status]
    BY <2>1, <1>1, <1>2, <1>3, <1>4 DEF Steps, WorkerStep, CollectorStep
  <2> QED
    BY <1>5, <1>6, <2>1, StepOf

\* Without crossed probes, what get_entry copied is what the region holds for as
\* long as get, set and the collector rely on it, for every hash function.
THEOREM EntriesCurrent == UncrossedSpec => []EntryCurrent
<1>1. Init => EntryCurrent
  BY DEF Init, EntryCurrent, Procs, Copying
<1>2. Base /\ CellAtomic /\ EntryCurrent /\ [Next]_vars => EntryCurrent'
  BY EntryStep
<1> QED
  BY <1>1, <1>2, UncrossedIs, PTL DEF Spec

--------------------------------------------------------------------------------
(* Answers *)

Half(d, k) == d \in {k} \X Vals

\* A living entry is all of its key, a worker that writes one has got as far as
\* its place says, and does not write over a living entry of another key.
SlotsOK ==
  \A s \in Slots : data[s].status = "ALIVE" =>
    Half(data[s].lo, data[s].key) /\ Half(data[s].hi, data[s].key)
WriterOK(w) ==
  /\ pc[w] = "wkey" /\ Slot(w).status = "ALIVE" => Slot(w).key = req[w].key
  /\ pc[w] \in {"wlo", "whi", "wttl", "wstatus"} => Slot(w).key = req[w].key
  /\ pc[w] \in {"whi", "wttl", "wstatus"} => Half(Slot(w).lo, req[w].key)
  /\ pc[w] \in {"wttl", "wstatus"} => Half(Slot(w).hi, req[w].key)
SweeperOK == pc[GC] \in {"wttl", "wstatus"} => Slot(GC).status = "ALIVE"

\* A get copies from a living entry of its key, and keeps what it has copied.
ReaderOK(w) ==
  /\ pc[w] \in Copying => Slot(w).status = "ALIVE" /\ Slot(w).key = req[w].key
  /\ reply[w].code = "OK" => pc[w] = "done"
  /\ req[w].op = "get" =>
       /\ pc[w] \in {"copyhi", "return"} \/ reply[w].code = "OK" => Half(reply[w].lo, req[w].key)
       /\ pc[w] = "return" \/ reply[w].code = "OK" => Half(reply[w].hi, req[w].key)

Labelled == SlotsOK /\ SweeperOK /\ \A w \in Workers : WriterOK(w) /\ ReaderOK(w)

LEMMA InitLabelled == Init => Labelled
<1> SUFFICES ASSUME Init PROVE Labelled
  OBVIOUS
<1>1. SlotsOK /\ SweeperOK
  BY DEF Init, SlotsOK, SweeperOK, Procs
<1>2. \A w \in Workers : pc[w] = "idle" /\ reply[w].code = None /\ req[w].op = "none"
  BY DEF Init, Procs, Silent, Idle
<1> QED
  BY <1>1, <1>2 DEF Labelled, WriterOK, ReaderOK, Copying, Codes

LEMMA SlotsStep ==
  ASSUME Base, Labelled, NEW p \in Procs, Steps(p) PROVE SlotsOK'
<1> SUFFICES ASSUME NEW s \in Slots, data'[s].status = "ALIVE"
             PROVE  Half(data'[s].lo, data'[s].key) /\ Half(data'[s].hi, data'[s].key)
  BY DEF SlotsOK
<1> USE DEF Base
<1>0. data[s] \in Cells /\ (data[s].status = "ALIVE" =>
        Half(data[s].lo, data[s].key) /\ Half(data[s].hi, data[s].key))
  BY DEF Labelled, SlotsOK, TypeOK
<1>1. CASE data'[s] = data[s]
  BY <1>0, <1>1
<1>2. CASE pc[p] \in Writing /\ Pos(p) = s
  <2>1. p \in Workers => WriterOK(p) /\ req[p] \in Requests /\ req[p].op = "set"
    BY <1>2 DEF Labelled, ControlOK, Writing, Critical
  <2>2. p \in Workers => Half(<<req[p].key, req[p].val>>, req[p].key)
    BY <2>1 DEF Requests, Half
  <2>3. CASE p \in Workers /\ (WriteKey(p) \/ WriteValue(p))
    <3>0. data'[s].status = data[s].status
      BY <1>0, <1>2, <2>3 DEF WriteKey, WriteValue, TypeOK, Cells
    <3>1. CASE WriteKey(p)
      <4>1. data'[s].key = req[p].key /\ data'[s].lo = data[s].lo /\ data'[s].hi = data[s].hi
        BY <1>0, <1>2, <3>1 DEF WriteKey, TypeOK, Cells
      <4>2. data[s].key = req[p].key
        BY <1>2, <2>1, <2>3, <3>0, <3>1 DEF WriteKey, WriterOK, Slot
      <4> QED
        BY <1>0, <3>0, <4>1, <4>2
    <3>2. CASE WriteValue(p)
      <4>1. /\ data'[s].key = data[s].key
            /\ \/ data'[s].lo = <<req[p].key, req[p].val>> /\ data'[s].hi = data[s].hi
               \/ data'[s].hi = <<req[p].key, req[p].val>> /\ data'[s].lo = data[s].lo
        BY <1>0, <1>2, <3>2 DEF WriteValue, TypeOK, Cells
      <4>2. data[s].key = req[p].key
        BY <1>2, <2>1, <2>3, <3>2 DEF WriteValue, WriterOK, Slot
      <4> QED
        BY <1>0, <2>2, <2>3, <3>0, <4>1, <4>2
    <3> QED
      BY <2>3, <3>1, <3>2
  <2>4. CASE WriteTTL(p)
    BY <1>0, <1>2, <2>4 DEF WriteTTL, TypeOK, Cells
  <2>5. CASE WriteStatus(p)
    <3>1. data'[s].key = data[s].key /\ data'[s].lo = data[s].lo /\ data'[s].hi = data[s].hi
      BY <1>0, <1>2, <2>5 DEF WriteStatus, TypeOK, Cells
    <3>2. CASE p = GC
      BY <1>0, <1>2, <2>5, <3>1, <3>2 DEF WriteStatus, Labelled, SweeperOK, Slot
    <3>3. CASE p \in Workers
      BY <1>2, <2>1, <2>5, <3>1, <3>3 DEF WriteStatus, WriterOK, Slot
    <3> QED
      BY <3>2, <3>3 DEF Procs
  <2>6. CASE data' = data
    BY <1>1, <2>6
  <2> QED
    BY <1>2, <2>3, <2>4, <2>5, <2>6, StepWrites
<1>3. CASE ~ (pc[p] \in Writing /\ Pos(p) = s)
  BY <1>1, <1>3, StepElsewhere
<1> QED
  BY <1>2, <1>3

\* The step's own process.
LEMMA OwnLabels ==
  ASSUME Base, EntryCurrent, Labelled, NEW w \in Workers, Steps(w)
  PROVE  WriterOK(w)' /\ ReaderOK(w)'
<1> USE DEF Base
<1>0. WriterOK(w) /\ ReaderOK(w) /\ w # GC /\ w \in Procs
  BY DEF Labelled, Procs
<1>1. CASE /\ pc'[w] \in {"lock", "read", "match", "release", "done", "idle", "dead"}
           /\ reply'[w].code # "OK"
  BY <1>1 DEF WriterOK, ReaderOK, Copying
<1>2. CASE \/ \E r \in Requests : Request(w, r)
           \/ Lock(w) \/ ReadEntry(w) \/ Release(w) \/ Deliver(w) \/ Crash(w)
  <2>1. reply'[w] = reply[w] \/ reply'[w].code # "OK"
    BY <1>2 DEF Request, Answer, Lock, ReadEntry, Release, Deliver, Crash, TypeOK, Silent, Replies, Codes
  <2>2. pc'[w] \in {"lock", "read", "match", "release", "done", "idle", "dead"}
    BY <1>0, <1>2
    DEF Request, Answer, Goto, Lock, ReadEntry, Release, Deliver, Crash, TypeOK
  <2>3. reply'[w].code # "OK"
    <3>1. CASE pc[w] # "done"
      BY <1>0, <2>1, <3>1 DEF ReaderOK
    <3>2. CASE pc[w] = "done"
      BY <1>2, <3>2 DEF Request, Lock, ReadEntry, Release, Deliver, Crash, Silent, TypeOK, Codes
    <3> QED
      BY <3>1, <3>2
  <2> QED
    BY <1>1, <2>2, <2>3
<1>3. CASE MatchGet(w) \/ MatchSet(w)
  <2>1. /\ Pos(w)' = Pos(w) /\ Slot(w)' = Slot(w) /\ req' = req /\ reply' = reply
        /\ entry[w].status = Slot(w).status
    <3>1. pc[w] = "match" /\ idx' = idx /\ data' = data /\ req' = req /\ reply' = reply
      BY <1>3 DEF MatchGet, MatchSet
    <3>2. entry[w] = [TTL |-> Slot(w).TTL, status |-> Slot(w).status]
      BY <1>0, <3>1 DEF EntryCurrent
    <3> QED
      BY <3>1, <3>2 DEF Pos, Slot
  <2>2. Slot(w).status = "ALIVE" => entry[w].status \notin {"FREE", "REMOVED"}
    BY <2>1
  <2>3. reply'[w].code # "OK"
    BY <1>0, <1>3, <2>1 DEF MatchGet, MatchSet, ReaderOK
  <2>4. CASE MatchGet(w)
    BY <1>0, <2>1, <2>3, <2>4 DEF MatchGet, SameKey, Goto, TypeOK, WriterOK, ReaderOK, Copying
  <2>5. CASE MatchSet(w)
    BY <1>0, <2>1, <2>2, <2>3, <2>5 DEF MatchSet, SameKey, Goto, TypeOK, WriterOK, ReaderOK, Copying
  <2> QED
    BY <1>3, <2>4, <2>5
<1>4. CASE CopyValue(w)
  <2>1. /\ Slot(w)' = Slot(w) /\ req' = req /\ pc[w] \in Copying
        /\ Half(Slot(w).lo, req[w].key) /\ Half(Slot(w).hi, req[w].key)
    <3>1. pc[w] \in Copying /\ Pos(w) \in Slots /\ Pos(w)' = Pos(w) /\ data' = data /\ req' = req
      BY <1>0, <1>4, PosInTable DEF CopyValue, Copying, Critical, Pos
    <3> QED
      BY <1>0, <3>1 DEF ReaderOK, Labelled, SlotsOK, Slot
  <2>2. reply[w] \in Replies /\ reply[w].code # "OK"
    BY <1>0, <2>1 DEF TypeOK, ReaderOK, Copying
  <2>3. CASE pc[w] = "copylo"
    <3>1. pc'[w] = "copyhi" /\ reply'[w].lo = Slot(w).lo /\ reply'[w].code = reply[w].code
      BY <1>0, <1>4, <2>2, <2>3 DEF CopyValue, Goto, TypeOK, Replies
    <3> QED
      BY <1>0, <2>1, <2>2, <2>3, <3>1 DEF WriterOK, ReaderOK, Copying
  <2>4. CASE pc[w] = "copyhi"
    <3>1. /\ pc'[w] = "return" /\ reply'[w].hi = Slot(w).hi /\ reply'[w].lo = reply[w].lo
          /\ reply'[w].code = reply[w].code
      BY <1>0, <1>4, <2>2, <2>4 DEF CopyValue, Goto, TypeOK, Replies
    <3>2. req[w].op = "get" => Half(reply[w].lo, req[w].key)
      BY <1>0, <2>4 DEF ReaderOK
    <3> QED
      BY <2>1, <2>2, <3>1, <3>2 DEF WriterOK, ReaderOK, Copying
  <2> QED
    BY <2>1, <2>3, <2>4 DEF Copying
<1>5. CASE WriteKey(w) \/ WriteValue(w) \/ WriteTTL(w) \/ WriteStatus(w)
  <2>1. /\ pc[w] \in Writing /\ Pos(w) \in Slots /\ Pos(w)' = Pos(w) /\ req' = req /\ reply' = reply
        /\ req[w] \in Requests /\ req[w].op = "set" /\ data[Pos(w)] \in Cells
    <3>1. pc[w] \in Writing /\ req' = req /\ idx' = idx /\ reply' = reply
      BY <1>5 DEF WriteKey, WriteValue, WriteTTL, WriteStatus, Writing
    <3>2. pc[w] \in Critical
      BY <3>1 DEF Critical
    <3> QED
      BY <1>0, <3>1, <3>2, PosInTable DEF Pos, ControlOK, TypeOK
  <2>2. reply'[w].code # "OK"
    BY <1>0, <2>1 DEF ReaderOK, Writing
  <2>3. pc'[w] \notin Copying => ReaderOK(w)'
    BY <2>1, <2>2 DEF ReaderOK
  <2>4. Half(<<req[w].key, req[w].val>>, req[w].key)
    BY <2>1 DEF Requests, Half
  <2>5. CASE WriteKey(w)
    <3>1. pc'[w] = "wlo" /\ data'[Pos(w)].key = req[w].key
      BY <1>0, <2>1, <2>5 DEF WriteKey, Goto, TypeOK, Cells
    <3> QED
      BY <2>1, <2>3, <3>1 DEF WriterOK, Slot, Copying
  <2>6. CASE pc[w] = "wlo" /\ WriteValue(w)
    <3>1. /\ pc'[w] = "whi" /\ data'[Pos(w)].key = data[Pos(w)].key
          /\ data'[Pos(w)].lo = <<req[w].key, req[w].val>>
      BY <1>0, <2>1, <2>6 DEF WriteValue, Goto, TypeOK, Cells
    <3> QED
      BY <1>0, <2>1, <2>3, <2>4, <2>6, <3>1 DEF WriterOK, Slot, Copying
  <2>7. CASE pc[w] = "whi" /\ WriteValue(w)
    <3>1. /\ pc'[w] = "wttl" /\ data'[Pos(w)].key = data[Pos(w)].key
          /\ data'[Pos(w)].lo = data[Pos(w)].lo /\ data'[Pos(w)].hi = <<req[w].key, req[w].val>>
      BY <1>0, <2>1, <2>7 DEF WriteValue, Goto, TypeOK, Cells
    <3> QED
      BY <1>0, <2>1, <2>3, <2>4, <2>7, <3>1 DEF WriterOK, Slot, Copying
  <2>8. CASE WriteTTL(w)
    <3>1. /\ pc[w] = "wttl" /\ pc'[w] = "wstatus" /\ data'[Pos(w)].key = data[Pos(w)].key
          /\ data'[Pos(w)].lo = data[Pos(w)].lo /\ data'[Pos(w)].hi = data[Pos(w)].hi
      BY <1>0, <2>1, <2>8 DEF WriteTTL, Goto, TypeOK, Cells
    <3> QED
      BY <1>0, <2>1, <2>3, <3>1 DEF WriterOK, Slot, Copying
  <2>9. CASE WriteStatus(w)
    <3>1. pc'[w] = "return"
      BY <1>0, <2>9 DEF WriteStatus, Goto, TypeOK
    <3> QED
      BY <2>3, <3>1 DEF WriterOK, Copying
  <2> QED
    BY <1>5, <2>5, <2>6, <2>7, <2>8, <2>9 DEF WriteValue
<1>6. CASE Return(w)
  <2>1. /\ pc[w] = "return" /\ pc'[w] = "done" /\ req' = req
        /\ reply'[w].lo = reply[w].lo /\ reply'[w].hi = reply[w].hi
    BY <1>0, <1>6 DEF Return, Goto, TypeOK, Replies
  <2> QED
    BY <1>0, <2>1 DEF WriterOK, ReaderOK, Copying
<1> QED
  BY <1>0, <1>2, <1>3, <1>4, <1>5, <1>6 DEF Steps, WorkerStep

LEMMA OwnSweep ==
  ASSUME Base, EntryCurrent, Labelled, Steps(GC) PROVE SweeperOK'
<1> USE DEF Base
<1>1. CASE pc'[GC] \notin {"wttl", "wstatus"}
  BY <1>1 DEF SweeperOK
<1>2. CASE MatchGC
  <2>1. Slot(GC)' = Slot(GC) /\ entry[GC].status = Slot(GC).status
    <3>1. pc[GC] = "match" /\ idx' = idx /\ data' = data
      BY <1>2 DEF MatchGC
    <3>2. entry[GC] = [TTL |-> Slot(GC).TTL, status |-> Slot(GC).status]
      BY <3>1 DEF EntryCurrent, Procs
    <3> QED
      BY <3>1, <3>2 DEF Pos, Slot
  <2>2. pc'[GC] = "wttl" => entry[GC].status = "ALIVE"
    BY <1>2 DEF MatchGC, Goto, TypeOK, Procs
  <2>3. pc'[GC] # "wstatus"
    BY <1>2 DEF MatchGC, Goto, TypeOK, Procs
  <2> QED
    BY <2>1, <2>2, <2>3 DEF SweeperOK
<1>3. CASE WriteTTL(GC)
  <2>1. pc[GC] = "wttl" /\ GC \in Procs /\ Pos(GC)' = Pos(GC)
    BY <1>3 DEF WriteTTL, Pos, Procs
  <2>2. Pos(GC) \in Slots /\ data[Pos(GC)] \in Cells
    BY <2>1, PosInTable DEF Critical, Writing, TypeOK
  <2>3. data'[Pos(GC)].status = data[Pos(GC)].status
    BY <1>3, <2>2 DEF WriteTTL, TypeOK, Cells
  <2> QED
    BY <2>1, <2>3 DEF Labelled, SweeperOK, Slot
<1>4. CASE Lock(GC) \/ ReadEntry(GC) \/ WriteStatus(GC) \/ ReleaseGC \/ WakeUp
  <2>1. pc'[GC] \in {"read", "match", "release", "lock", "sleep"}
    BY <1>4 DEF Lock, ReadEntry, WriteStatus, ReleaseGC, WakeUp, Goto, TypeOK, Procs
  <2> QED
    BY <1>1, <2>1
<1> QED
  BY <1>2, <1>3, <1>4 DEF Steps, CollectorStep

\* What a process that works on a slot knows of it survives the steps of others.
LEMMA OthersLabels ==
  ASSUME Base, CellAtomic, Labelled, NEW p \in Procs, NEW q \in Procs, q # p, Steps(q)
  PROVE  /\ p \in Workers => WriterOK(p)' /\ ReaderOK(p)'
         /\ p = GC => SweeperOK'
<1>1. /\ pc'[p] = pc[p]
      /\ p \in Workers => req'[p] = req[p] /\ reply'[p] = reply[p]
  BY StepKeeps DEF Base
<1>2. CASE Touches(p)
  <2>1. Slot(p)' = Slot(p)
    BY <1>2, SlotAlone DEF Slot
  <2> QED
    BY <1>1, <2>1 DEF Labelled, WriterOK, ReaderOK, SweeperOK
<1>3. CASE ~ Touches(p)
  BY <1>1, <1>3 DEF Labelled, WriterOK, ReaderOK, SweeperOK, Touches, Writing
<1> QED
  BY <1>2, <1>3

LEMMA LabelledStep ==
  ASSUME Base, CellAtomic, EntryCurrent, Labelled, [Next]_vars PROVE Labelled'
<1>1. CASE UNCHANGED vars
  BY <1>1 DEF vars, Labelled, SlotsOK, SweeperOK, WriterOK, ReaderOK, Slot, Pos
<1>2. ASSUME NEW q \in Procs, Steps(q) PROVE Labelled'
  <2>1. SlotsOK'
    BY <1>2, SlotsStep
  <2>2. SweeperOK'
    BY <1>2, OwnSweep, OthersLabels DEF Procs
  <2>3. \A w \in Workers : WriterOK(w)' /\ ReaderOK(w)'
    BY <1>2, OwnLabels, OthersLabels DEF Procs
  <2> QED
    BY <2>1, <2>2, <2>3 DEF Labelled
<1> QED
  BY <1>1, <1>2, StepOf

LEMMA LabelledInvariant == UncrossedSpec => [](Base /\ CellAtomic /\ EntryCurrent /\ Labelled)
<1>1. Init => EntryCurrent /\ Labelled
  BY InitLabelled DEF Init, EntryCurrent, Procs, Copying
<1>2. Base /\ CellAtomic /\ EntryCurrent /\ Labelled /\ [Next]_vars => EntryCurrent' /\ Labelled'
  BY EntryStep, LabelledStep
<1> QED
  BY <1>1, <1>2, UncrossedIs, PTL DEF Spec

\* Without crossed probes, a get answers only with halves of values that were
\* set under its key, whatever was half written when a worker was killed, for
\* every hash function and any number of workers, slots and keys.
THEOREM AnswersOfKey == UncrossedSpec => []AnswerOfKey
<1>1. Labelled => AnswerOfKey
  BY DEF Labelled, ReaderOK, AnswerOfKey, Half
<1> QED
  BY <1>1, LabelledInvariant, PTL

================================================================================
