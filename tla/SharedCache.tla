------------------------------ MODULE SharedCache ------------------------------
(***************************************************************************)
(* The cache of sphere_prac/p5 while it serves: worker processes run       *)
(* HashTable::get and HashTable::set, the garbage collector runs           *)
(* HashTable::execute, all of them on one mapped region and one System V   *)
(* semaphore set.  Every access to the region is a step of its own.        *)
(***************************************************************************)
EXTENDS Naturals, FiniteSets

CONSTANTS
  Workers,      \* the coworker processes
  GC,           \* the garbage collector process
  Mortal,       \* the workers that may be killed
  Keys, Vals,   \* what clients send
  LongKeys,     \* the keys with key.size() + 1 > key_size
  LongVals,     \* the values with value.size() + 1 > value_size
  MaxTTL,       \* bound on the TTL a client sends
  N,            \* n_records
  Hash,         \* std::hash<std::string>
  Word,         \* 2^(width of std::size_t)
  MaxValue,     \* Semaphore::max_value
  None          \* an empty field of the zero-filled region

Status == {"FREE", "ALIVE", "REMOVED"}
Codes == {"OK", "NO_SUCH_KEY", "INVALID_KEY", "INVALID_VALUE", "NO_FREE_SPACE"}

ASSUME CacheAssumption ==
  /\ IsFiniteSet(Workers) /\ GC \notin Workers /\ Mortal \subseteq Workers
  /\ LongKeys \subseteq Keys /\ LongVals \subseteq Vals
  /\ MaxTTL \in Nat /\ N \in Nat \ {0} /\ MaxValue \in Nat \ {0}
  /\ Word \in Nat \ {0} /\ Hash \in [Keys -> 0 .. Word - 1]
  /\ None \notin Keys /\ None \notin Keys \X Vals /\ None \notin Codes

VARIABLES
  data,   \* the slots of the mapped region; a value is two halves, each
          \* labelled with the set(key, value) that wrote it
  sem,    \* the semaphore set
  pc,     \* where each process is
  req,    \* the request a worker performs
  idx,    \* the loop variable i of get, set and execute
  entry,  \* the TTL and status that get_entry copied out of the region
  reply   \* the answer a worker is building

vars == <<data, sem, pc, req, idx, entry, reply>>

Procs == Workers \cup {GC}
Slots == 0 .. N - 1
Datum == Keys \X Vals
Idle == [op |-> "none", key |-> None, val |-> None, TTL |-> 0]
Unread == [TTL |-> 0, status |-> "FREE"]
Silent == [code |-> None, lo |-> None, hi |-> None]
Requests == [op : {"get"}, key : Keys, val : {None}, TTL : {0}]
              \cup [op : {"set"}, key : Keys, val : Vals, TTL : 0 .. MaxTTL]

\* The hash of main(): std::size_t arithmetic, so the sum may wrap.
hash(k, i) == ((Hash[k] + i) % Word) % N

\* The slot a process works on, and the slot's record.
Pos(p) == IF p = GC THEN idx[p] ELSE hash(req[p].key, idx[p])
Slot(p) == data[Pos(p)]

\* lock() takes one unit, full_lock() all of them.
SetLocksShared(p) == IF p # GC THEN 1 ELSE MaxValue
CollectorLocksShared(p) == IF p = GC \/ req[p].op = "get" THEN 1 ELSE MaxValue
Weight(p) == IF p # GC /\ req[p].op = "get" THEN 1 ELSE MaxValue

Copying == {"copylo", "copyhi"}
Writing == {"wkey", "wlo", "whi", "wttl", "wstatus"}
Critical == Copying \cup Writing \cup {"read", "match", "return", "release"}
Holds(p, j) == pc[p] \in Critical /\ idx[p] = j

--------------------------------------------------------------------------------
Init ==
  /\ data = [s \in Slots |->
               [key |-> None, lo |-> None, hi |-> None, TTL |-> 0, status |-> "FREE"]]
  /\ sem = [j \in Slots |-> MaxValue]
  /\ pc = [p \in Procs |-> IF p = GC THEN "lock" ELSE "idle"]
  /\ req = [w \in Workers |-> Idle]
  /\ idx = [p \in Procs |-> 0]
  /\ entry = [p \in Procs |-> Unread]
  /\ reply = [w \in Workers |-> Silent]

Goto(p, l) == pc' = [pc EXCEPT ![p] = l]

\* A reply without a value ends the request.
Answer(w, code) ==
  /\ Goto(w, "done")
  /\ reply' = [reply EXCEPT ![w] = [Silent EXCEPT !.code = code]]

\* A client's get or set reaches a worker; oversized arguments are refused
\* before the table is touched.
Request(w, r) ==
  /\ pc[w] = "idle"
  /\ req' = [req EXCEPT ![w] = r]
  /\ \/ r.key \in LongKeys /\ Answer(w, "INVALID_KEY")
     \/ /\ r.key \notin LongKeys /\ r.op = "set" /\ r.val \in LongVals
        /\ Answer(w, "INVALID_VALUE")
     \/ /\ r.key \notin LongKeys /\ ~(r.op = "set" /\ r.val \in LongVals)
        /\ Goto(w, "lock")
        /\ UNCHANGED reply
  /\ UNCHANGED <<data, sem, idx, entry>>

\* semaphore.lock(i) or semaphore.full_lock(i): the index of the probe, not
\* the slot it lands on.
Lock(p) ==
  /\ pc[p] = "lock"
  /\ sem[idx[p]] >= Weight(p)
  /\ sem' = [sem EXCEPT ![idx[p]] = @ - Weight(p)]
  /\ Goto(p, "read")
  /\ UNCHANGED <<data, req, idx, entry, reply>>

\* get_entry: TTL and status are copied, key and value stay in the region.
ReadEntry(p) ==
  /\ pc[p] = "read"
  /\ entry' = [entry EXCEPT ![p] = [TTL |-> Slot(p).TTL, status |-> Slot(p).status]]
  /\ Goto(p, "match")
  /\ UNCHANGED <<data, sem, req, idx, reply>>

\* The loops of get, set and execute end at n_records; get also ends at a
\* slot that was never used.
StopsBeforeLast(p) == idx[p] >= N - 2
LastProbe(p) == idx[p] = N - 1

RemovedEndsSearch(w) == req[w].op = "get" /\ entry[w].status # "ALIVE"
SearchEnds(w) == req[w].op = "get" /\ entry[w].status = "FREE"

SameKey(w) == entry[w].status = "ALIVE" /\ Slot(w).key = req[w].key

\* The test of the copied status and of the key still in the region.
MatchGet(w) ==
  /\ pc[w] = "match" /\ req[w].op = "get"
  /\ Goto(w, IF SameKey(w) THEN "copylo" ELSE "release")
  /\ UNCHANGED <<data, sem, req, idx, entry, reply>>

MatchSet(w) ==
  /\ pc[w] = "match" /\ req[w].op = "set"
  /\ Goto(w, IF entry[w].status \in {"FREE", "REMOVED"} \/ SameKey(w)
               THEN "wkey" ELSE "release")
  /\ UNCHANGED <<data, sem, req, idx, entry, reply>>

MatchGC ==
  /\ pc[GC] = "match"
  /\ Goto(GC, IF entry[GC].status = "ALIVE" THEN "wttl" ELSE "release")
  /\ UNCHANGED <<data, sem, req, idx, entry, reply>>

\* std::string(entry.value, value_size) reads the value piece by piece.
CopyValue(w) ==
  /\ \/ /\ pc[w] = "copylo" /\ Goto(w, "copyhi")
        /\ reply' = [reply EXCEPT ![w].lo = Slot(w).lo]
     \/ /\ pc[w] = "copyhi" /\ Goto(w, "return")
        /\ reply' = [reply EXCEPT ![w].hi = Slot(w).hi]
  /\ UNCHANGED <<data, sem, req, idx, entry>>

StatusWithKey(w) ==
  /\ pc[w] = "wkey" /\ Goto(w, "wlo")
  /\ data' = [data EXCEPT ![Pos(w)].key = req[w].key, ![Pos(w)].status = "ALIVE"]
  /\ UNCHANGED <<sem, req, idx, entry, reply>>

\* set_entry with a key and a value: the two memcpy/memset pairs.
WriteKey(w) ==
  /\ pc[w] = "wkey" /\ Goto(w, "wlo")
  /\ data' = [data EXCEPT ![Pos(w)].key = req[w].key]
  /\ UNCHANGED <<sem, req, idx, entry, reply>>

WriteValue(w) ==
  /\ LET d == <<req[w].key, req[w].val>>
     IN  \/ pc[w] = "wlo" /\ Goto(w, "whi") /\ data' = [data EXCEPT ![Pos(w)].lo = d]
         \/ pc[w] = "whi" /\ Goto(w, "wttl") /\ data' = [data EXCEPT ![Pos(w)].hi = d]
  /\ UNCHANGED <<sem, req, idx, entry, reply>>

\* The TTL and the status that set_entry stores: a worker's own, or the
\* collector's, computed from the entry it copied.
TTLWraps(p) == IF p # GC THEN req[p].TTL ELSE entry[p].TTL - 1
NewTTL(p) ==
  IF p # GC THEN req[p].TTL
  ELSE IF entry[p].TTL = 0 THEN 0 ELSE entry[p].TTL - 1
FreesExpired(p) == IF p = GC /\ entry[p].TTL = 0 THEN "FREE" ELSE "ALIVE"
NewStatus(p) == IF p = GC /\ entry[p].TTL = 0 THEN "REMOVED" ELSE "ALIVE"

WriteTTL(p) ==
  /\ pc[p] = "wttl" /\ Goto(p, "wstatus")
  /\ data' = [data EXCEPT ![Pos(p)].TTL = NewTTL(p)]
  /\ UNCHANGED <<sem, req, idx, entry, reply>>

WriteStatus(p) ==
  /\ pc[p] = "wstatus" /\ Goto(p, IF p = GC THEN "release" ELSE "return")
  /\ data' = [data EXCEPT ![Pos(p)].status = NewStatus(p)]
  /\ UNCHANGED <<sem, req, idx, entry, reply>>

\* The semaphore is given back; the copied entry is out of scope.
ReleasesOne(p) == sem' = [sem EXCEPT ![idx[p]] = @ + 1]
Undo(p) == sem' = [sem EXCEPT ![idx[p]] = @ + Weight(p)]
Unlock(p) == Undo(p) /\ entry' = [entry EXCEPT ![p] = Unread]

\* release(i) or full_release(i) before the return of a value or of set.
Return(w) ==
  /\ pc[w] = "return" /\ Goto(w, "done")
  /\ Unlock(w)
  /\ reply' = [reply EXCEPT ![w].code = "OK"]
  /\ UNCHANGED <<data, req, idx>>

\* release(i) or full_release(i) after a slot that did not do: the search
\* stops at a FREE slot (get) or after the last one, or goes on.
Release(w) ==
  /\ pc[w] = "release"
  /\ Unlock(w)
  /\ \/ /\ req[w].op = "get" /\ (SearchEnds(w) \/ LastProbe(w))
        /\ Answer(w, "NO_SUCH_KEY")
        /\ UNCHANGED idx
     \/ /\ req[w].op = "set" /\ LastProbe(w)
        /\ Answer(w, "NO_FREE_SPACE")
        /\ UNCHANGED idx
     \/ /\ ~SearchEnds(w) /\ ~LastProbe(w)
        /\ Goto(w, "lock")
        /\ idx' = [idx EXCEPT ![w] = @ + 1]
        /\ UNCHANGED reply
  /\ UNCHANGED <<data, req>>

\* The collector leaves a slot, and sleeps after the last one.
ReleaseGC ==
  /\ pc[GC] = "release"
  /\ Unlock(GC)
  /\ \/ ~LastProbe(GC) /\ Goto(GC, "lock") /\ idx' = [idx EXCEPT ![GC] = @ + 1]
     \/ LastProbe(GC) /\ Goto(GC, "sleep") /\ idx' = [idx EXCEPT ![GC] = 0]
  /\ UNCHANGED <<data, req, reply>>

WakeUp ==
  /\ pc[GC] = "sleep" /\ Goto(GC, "lock")
  /\ UNCHANGED <<data, sem, req, idx, entry, reply>>

\* The worker sends the answer and takes its next client; its locals are new.
Deliver(w) ==
  /\ pc[w] = "done" /\ Goto(w, "idle")
  /\ req' = [req EXCEPT ![w] = Idle]
  /\ reply' = [reply EXCEPT ![w] = Silent]
  /\ idx' = [idx EXCEPT ![w] = 0]
  /\ UNCHANGED <<data, sem, entry>>

\* SEM_UNDO: the kernel gives back what a process that ends holds.
NoSemUndo(w) == UNCHANGED sem
SemUndo(w) == IF pc[w] \in Critical THEN Undo(w) ELSE UNCHANGED sem

\* A worker is killed.
Crash(w) ==
  /\ w \in Mortal /\ pc[w] # "dead" /\ Goto(w, "dead")
  /\ SemUndo(w)
  /\ req' = [req EXCEPT ![w] = Idle]
  /\ reply' = [reply EXCEPT ![w] = Silent]
  /\ idx' = [idx EXCEPT ![w] = 0]
  /\ entry' = [entry EXCEPT ![w] = Unread]
  /\ UNCHANGED data

\* What a process does on its own once it is running, except taking a semaphore.
WorkerStep(w) ==
  \/ ReadEntry(w) \/ MatchGet(w) \/ MatchSet(w) \/ CopyValue(w)
  \/ WriteKey(w) \/ WriteValue(w) \/ WriteTTL(w) \/ WriteStatus(w)
  \/ Return(w) \/ Release(w) \/ Deliver(w)
CollectorStep ==
  ReadEntry(GC) \/ MatchGC \/ WriteTTL(GC) \/ WriteStatus(GC) \/ ReleaseGC \/ WakeUp

Next ==
  \/ \E w \in Workers, r \in Requests : Request(w, r)
  \/ \E p \in Procs : Lock(p)
  \/ \E w \in Workers : WorkerStep(w) \/ Crash(w)
  \/ CollectorStep

Spec == Init /\ [][Next]_vars

\* Running processes are scheduled, and the kernel's queue of a semaphore
\* serves a worker whose operation the value allows again and again.  Nothing
\* is asked for the collector's turn at a semaphore.
Fairness ==
  /\ \A w \in Workers : WF_vars(WorkerStep(w))
  /\ WF_vars(CollectorStep)
  /\ \A w \in Workers : SF_vars(Lock(w))

FairSpec == Spec /\ Fairness

--------------------------------------------------------------------------------
(* Properties *)

Cells == [key : Keys \cup {None}, lo : Datum \cup {None}, hi : Datum \cup {None},
          TTL : 0 .. MaxTTL, status : Status]
Entries == [TTL : 0 .. MaxTTL, status : Status]
Replies == [code : Codes \cup {None}, lo : Datum \cup {None}, hi : Datum \cup {None}]
PCs == Critical \cup {"idle", "lock", "done", "dead", "sleep"}

\* The state keeps its types: in particular no TTL wraps below 0, no
\* semaphore exceeds its maximum and no probe leaves the table.
TypeOK ==
  /\ data \in [Slots -> Cells]
  /\ sem \in [Slots -> 0 .. MaxValue]
  /\ pc \in [Procs -> PCs]
  /\ req \in [Workers -> Requests \cup {Idle}]
  /\ idx \in [Procs -> Slots]
  /\ entry \in [Procs -> Entries]
  /\ reply \in [Workers -> Replies]

\* The semaphore set counts: a set or the collector holds semaphore j alone and
\* leaves it at 0, otherwise every unit missing from j is one get between its
\* lock and its release.  A crash (SEM_UNDO) breaks neither.
Holders(j) == {p \in Procs : Holds(p, j)}
Exclusive(p) == Weight(p) = MaxValue
SemaphoreCounts ==
  \A j \in Slots :
    \/ \E p \in Holders(j) : Exclusive(p) /\ Holders(j) = {p} /\ sem[j] = 0
    \/ /\ \A p \in Holders(j) : ~Exclusive(p)
       /\ sem[j] + Cardinality(Holders(j)) = MaxValue

Touches(p) == pc[p] \in Copying \cup Writing \cup {"read", "match"}

\* Two processes meet in a slot by probes of different numbers, so that they
\* hold different semaphores, and one of them writes it.
CrossedProbes ==
  \E p, q \in Procs : /\ p # q /\ Touches(p) /\ pc[q] \in Writing
                      /\ Pos(p) = Pos(q) /\ idx[p] # idx[q]

\* The behaviours in which that never happens, with any hash function.
UncrossedSpec == Init /\ [][Next /\ ~ CrossedProbes']_vars

\* The atomicity the task asks for: nobody reads or writes a slot while another
\* process writes it.
CellAtomic ==
  \A p, q \in Procs :
    p # q /\ Touches(p) /\ pc[q] \in Writing => Pos(p) # Pos(q)

\* An entry is never hidden: on the probe sequence of the key a slot holds, no
\* FREE slot, where get gives up, comes before that slot.
Reaches(k, s) ==
  \E i \in Slots : /\ hash(k, i) = s
                   /\ \A j \in Slots : j < i => data[hash(k, j)].status # "FREE"
ProbeChain == \A s \in Slots : data[s].key # None => Reaches(data[s].key, s)

\* set answers NO_FREE_SPACE only when no slot its key can reach is FREE.
FullMeansFull ==
  \A w \in Workers : reply[w].code = "NO_FREE_SPACE" =>
    \A i \in Slots : data[hash(req[w].key, i)].status # "FREE"

\* What get, set and the collector decide on is still true while they act on
\* it: the TTL and the status get_entry copied are those of the region.
EntryCurrent ==
  \A p \in Procs : pc[p] \in Copying \cup {"match", "wkey", "wlo", "whi", "wttl"} =>
    entry[p] = [TTL |-> Slot(p).TTL, status |-> Slot(p).status]

\* A get never answers with a value set under another key, even one that a
\* killed worker left half written.
AnswerOfKey ==
  \A w \in Workers : req[w].op = "get" /\ reply[w].code = "OK" =>
    {reply[w].lo, reply[w].hi} \subseteq {req[w].key} \X Vals

\* Every request that a worker starts is answered if the worker itself is not
\* killed, whatever happens to the others.
RequestAnswered ==
  \A w \in Workers \ Mortal : pc[w] = "lock" ~> pc[w] = "done"

================================================================================
