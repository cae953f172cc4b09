---------------------- MODULE SharedCacheRefinementProofs ----------------------
(***************************************************************************)
(* Proof that SharedCache implements AtomicCells, for every number of      *)
(* workers, slots and keys, every hash function and through every kill, as *)
(* long as no two processes cross in a slot: each memory access is a visit *)
(* of one cell, a kill, or no step at all, of the atomic specification.    *)
(***************************************************************************)
EXTENDS SharedCacheRefinement, SharedCacheProofs

USE CacheAssumption

\* What the mapping needs to know beside the invariants of SharedCacheProofs:
\* how far the writer of a slot has got and what a reply holds so far.
Written(w) ==
  /\ pc[w] \in {"wlo", "whi", "wttl", "wstatus"} => Slot(w).key = req[w].key
  /\ pc[w] \in {"whi", "wttl", "wstatus"} => Slot(w).lo = OwnDatum(w)
  /\ pc[w] \in {"wttl", "wstatus"} => Slot(w).hi = OwnDatum(w)
  /\ pc[w] = "wstatus" => Slot(w).TTL = req[w].TTL
Swept == pc[GC] = "wstatus" => Slot(GC).TTL = NewTTL(GC)
Replied(w) ==
  /\ pc[w] \in {"idle", "lock", "read", "match", "release", "copylo", "dead"} \cup Writing =>
       reply[w] = Silent
  /\ pc[w] = "return" /\ req[w].op = "set" => reply[w] = Silent
  /\ pc[w] = "copyhi" => reply[w].lo = Slot(w).lo

Ready == /\ Base /\ CellAtomic /\ EntryCurrent /\ Labelled
         /\ \A w \in Workers : Written(w) /\ Replied(w)
         /\ Swept

\* What a slot shows when nobody writes it.
Shown(d) == [key |-> d.key, val |-> Both(d), TTL |-> d.TTL, status |-> d.status]

--------------------------------------------------------------------------------
(* The initial states *)

LEMMA InitRefines == Init => Atomic!Init
<1> SUFFICES ASSUME Init PROVE Atomic!Init
  OBVIOUS
<1>1. Table = [s \in Slots |-> [key |-> None, val |-> <<None, None>>, TTL |-> 0, status |-> "FREE"]]
  <2>1. \A s \in Slots : WriterOf(s) = {}
    BY DEF Init, WriterOf, Writing
  <2>2. \A s \in Slots : CellOf(s) = [key |-> None, val |-> <<None, None>>, TTL |-> 0, status |-> "FREE"]
    BY <2>1 DEF Init, CellOf, Both
  <2> QED
    BY <2>2 DEF Table
<1>2. \A w \in Workers : pc[w] = "idle" /\ idx[w] = 0 /\ reply[w] = Silent
  BY DEF Init, Procs
<1>3. \A w \in Workers : ~ Failed(w) /\ ~ Found(w)
  BY <1>2 DEF Failed, Found, Copying, Writing
<1>4. \A w \in Workers : StateOf(w) = "idle" /\ AtOf(w) = 0 /\ AnswerOf(w) = [code |-> None, val |-> <<None, None>>]
  BY <1>2, <1>3 DEF StateOf, AtOf, AnswerOf, Silent, Both, Copying
<1>5. Sweep = 0
  BY DEF Init, Sweep, Procs, Writing
<1> QED
  BY <1>1, <1>4, <1>5 DEF Init, Atomic!Init, Atomic!Cells, Atomic!Silent, Atomic!Nothing, Slots, States, Ats, Answers

--------------------------------------------------------------------------------
(* What is seen of a slot and of a worker *)

LEMMA WritersCell ==
  ASSUME Base, CellAtomic, NEW p \in Procs, pc[p] \in Writing
  PROVE  WriterOf(Pos(p)) = {p} /\ CellOf(Pos(p)) = Final(p)
<1>1. WriterOf(Pos(p)) = {p}
  BY DEF WriterOf, CellAtomic, Touches
<1>2. (CHOOSE q \in WriterOf(Pos(p)) : TRUE) = p
  BY <1>1
<1> QED
  BY <1>1, <1>2 DEF CellOf

LEMMA ReadersCell ==
  ASSUME Base, CellAtomic, NEW p \in Procs, Touches(p), pc[p] \notin Writing
  PROVE  WriterOf(Pos(p)) = {} /\ CellOf(Pos(p)) = Shown(Slot(p))
<1>1. WriterOf(Pos(p)) = {}
  BY DEF WriterOf, CellAtomic
<1> QED
  BY <1>1 DEF CellOf, Slot, Shown

\* A slot the step's process does not write, before or after the step.
LEMMA OtherCells ==
  ASSUME Base, NEW p \in Procs, Steps(p), NEW s \in Slots,
         ~ (pc[p] \in Writing /\ Pos(p) = s), ~ (pc'[p] \in Writing /\ Pos(p)' = s)
  PROVE  WriterOf(s)' = WriterOf(s) /\ data'[s] = data[s] /\ CellOf(s)' = CellOf(s)
<1>1. data'[s] = data[s]
  BY StepElsewhere
<1>2. ASSUME NEW q \in Procs, q # p
      PROVE  pc'[q] = pc[q] /\ Pos(q)' = Pos(q) /\ entry'[q] = entry[q] /\ (q # GC => req'[q] = req[q])
  BY <1>2, StepKeeps DEF Base, Pos, Procs
<1>3. WriterOf(s)' = WriterOf(s)
  <2>1. \A q \in Procs : (pc'[q] \in Writing /\ Pos(q)' = s) <=> (pc[q] \in Writing /\ Pos(q) = s)
    BY <1>2
  <2> QED
    BY <2>1 DEF WriterOf
<1>4. CASE WriterOf(s) = {}
  BY <1>1, <1>3, <1>4 DEF CellOf
<1>5. CASE WriterOf(s) # {}
  <2>1. PICK q \in Procs : q = CHOOSE x \in WriterOf(s) : TRUE
    BY <1>5 DEF WriterOf
  <2>2. q \in WriterOf(s) /\ q = CHOOSE x \in WriterOf(s)' : TRUE
    BY <1>3, <1>5, <2>1
  <2>3. CellOf(s) = Final(q) /\ CellOf(s)' = Final(q)'
    BY <1>3, <1>5, <2>1, <2>2 DEF CellOf
  <2>4. Pos(q) = s /\ q # p
    BY <2>2 DEF WriterOf
  <2>5. Slot(q)' = Slot(q)
    BY <1>1, <1>2, <2>4 DEF Slot
  <2>6. NewTTL(q)' = NewTTL(q) /\ NewStatus(q)' = NewStatus(q)
    BY <1>2, <2>4 DEF NewTTL, NewStatus
  <2>7. Final(q)' = Final(q)
    BY <1>2, <2>4, <2>5, <2>6 DEF Final, Both, OwnDatum
  <2> QED
    BY <1>1, <1>3, <2>3, <2>7
<1> QED
  BY <1>1, <1>3, <1>4, <1>5

\* A slot that the step's process has touched and does not write now.
LEMMA LeftCell ==
  ASSUME Ready, NEW p \in Procs, Steps(p), Touches(p), pc'[p] \notin Writing,
         NEW s \in Slots, s = Pos(p)
  PROVE  CellOf(s)' = Shown(data'[s])
<1>1. \A q \in Procs : q # p => pc'[q] = pc[q] /\ Pos(q)' = Pos(q)
  BY StepKeeps DEF Ready, Base, Pos, Procs
<1>2. WriterOf(s)' = {}
  BY <1>1 DEF WriterOf, Ready, CellAtomic
<1> QED
  BY <1>2 DEF CellOf, Shown, Both

\* The other workers and the collector look the same after the step.
LEMMA OtherViews ==
  ASSUME Ready, NEW p \in Procs, Steps(p), NEW w \in Workers, w # p
  PROVE  StateOf(w)' = StateOf(w) /\ AtOf(w)' = AtOf(w) /\ AnswerOf(w)' = AnswerOf(w)
<1> USE DEF Ready
<1>0. w \in Procs /\ w # GC
  BY DEF Procs
<1>1. /\ pc'[w] = pc[w] /\ idx'[w] = idx[w] /\ entry'[w] = entry[w]
      /\ req'[w] = req[w] /\ reply'[w] = reply[w]
  BY <1>0, StepKeeps DEF Base
<1>2. Failed(w)' = Failed(w) /\ Found(w)' = Found(w)
  BY <1>1 DEF Failed, Found, LastProbe, SearchEnds
<1>3. ASSUME pc[w] \in Copying PROVE Slot(w)' = Slot(w)
  BY <1>0, <1>3, SlotAlone DEF Slot, Touches
<1>4. StateOf(w)' = StateOf(w) /\ AtOf(w)' = AtOf(w)
  BY <1>1, <1>2 DEF StateOf, AtOf
<1>5. AnswerOf(w)' = AnswerOf(w)
  BY <1>1, <1>2, <1>3 DEF AnswerOf, Both
<1> QED
  BY <1>4, <1>5

LEMMA Changed ==
  ASSUME NEW S, NEW f, NEW g, f = [x \in S |-> f[x]], g = [x \in S |-> g[x]],
         NEW a \in S, \A x \in S : x # a => g[x] = f[x]
  PROVE  g = [f EXCEPT ![a] = g[a]] /\ (g[a] = f[a] => g = f)
<1>1. ASSUME g[a] = f[a] PROVE g = f
  <2>1. \A x \in S : g[x] = f[x]
    BY <1>1
  <2>2. [x \in S |-> g[x]] = [x \in S |-> f[x]]
    BY <2>1
  <2> QED
    BY <2>2
<1>2. g = [f EXCEPT ![a] = g[a]]
  <2> DEFINE h == [f EXCEPT ![a] = g[a]]
  <2>1. h = [x \in S |-> h[x]] /\ \A x \in S : h[x] = IF x = a THEN g[a] ELSE f[x]
    OBVIOUS
  <2> HIDE DEF h
  <2>2. \A x \in S : g[x] = h[x]
    BY <2>1
  <2>3. [x \in S |-> g[x]] = [x \in S |-> h[x]]
    BY <2>2
  <2>4. g = h
    BY <2>1, <2>3
  <2> QED
    BY <2>4 DEF h
<1> QED
  BY <1>1, <1>2

\* A worker's step changes its own view at most ...
LEMMA WorkerViews ==
  ASSUME Ready, NEW w \in Workers, Steps(w)
  PROVE  /\ States' = [States EXCEPT ![w] = StateOf(w)']
         /\ Ats' = [Ats EXCEPT ![w] = AtOf(w)']
         /\ Answers' = [Answers EXCEPT ![w] = AnswerOf(w)']
         /\ StateOf(w)' = StateOf(w) => States' = States
         /\ AtOf(w)' = AtOf(w) => Ats' = Ats
         /\ AnswerOf(w)' = AnswerOf(w) => Answers' = Answers
         /\ Sweep' = Sweep
         /\ States[w] = StateOf(w) /\ Ats[w] = AtOf(w)
<1>1. \A x \in Workers : x # w =>
        States'[x] = States[x] /\ Ats'[x] = Ats[x] /\ Answers'[x] = Answers[x]
  BY OtherViews DEF States, Ats, Answers, Procs
<1>2. /\ States[w] = StateOf(w) /\ States'[w] = StateOf(w)'
      /\ Ats[w] = AtOf(w) /\ Ats'[w] = AtOf(w)'
      /\ Answers[w] = AnswerOf(w) /\ Answers'[w] = AnswerOf(w)'
  BY DEF States, Ats, Answers
<1>3. /\ States = [x \in Workers |-> States[x]] /\ States' = [x \in Workers |-> States'[x]]
      /\ Ats = [x \in Workers |-> Ats[x]] /\ Ats' = [x \in Workers |-> Ats'[x]]
      /\ Answers = [x \in Workers |-> Answers[x]] /\ Answers' = [x \in Workers |-> Answers'[x]]
  BY DEF States, Ats, Answers
<1>4. Sweep' = Sweep
  BY StepKeeps DEF Sweep, Ready, Base, Procs
<1>5. States' = [States EXCEPT ![w] = StateOf(w)'] /\ (StateOf(w)' = StateOf(w) => States' = States)
  BY <1>1, <1>2, <1>3, Changed
<1>6. Ats' = [Ats EXCEPT ![w] = AtOf(w)'] /\ (AtOf(w)' = AtOf(w) => Ats' = Ats)
  BY <1>1, <1>2, <1>3, Changed
<1>7. Answers' = [Answers EXCEPT ![w] = AnswerOf(w)'] /\ (AnswerOf(w)' = AnswerOf(w) => Answers' = Answers)
  BY <1>1, <1>2, <1>3, Changed
<1> QED
  BY <1>2, <1>4, <1>5, <1>6, <1>7

\* ... and the collector's none of the workers'.
LEMMA SweepViews ==
  ASSUME Ready, Steps(GC) PROVE States' = States /\ Ats' = Ats /\ Answers' = Answers
  BY OtherViews DEF States, Ats, Answers, Procs

\* The table: nothing is seen of a step that neither begins nor ends nor
\* does any writing, and one slot of the others.
LEMMA TableSame ==
  ASSUME Ready, NEW p \in Procs, Steps(p), pc[p] \notin Writing, pc'[p] \notin Writing
  PROVE  Table' = Table
  BY OtherCells DEF Table, Ready

LEMMA TableChanged ==
  ASSUME Ready, NEW p \in Procs, Steps(p), Pos(p) \in Slots, Pos(p)' = Pos(p)
  PROVE  /\ Table' = [Table EXCEPT ![Pos(p)] = CellOf(Pos(p))']
         /\ CellOf(Pos(p))' = CellOf(Pos(p)) => Table' = Table
<1>1. PICK s \in Slots : s = Pos(p) /\ s = Pos(p)'
  OBVIOUS
<1>2. \A x \in Slots : x # s => Table'[x] = Table[x]
  BY <1>1, OtherCells DEF Table, Ready
<1>3. Table[s] = CellOf(s) /\ Table'[s] = CellOf(s)'
  BY DEF Table
<1>4. Table = [x \in Slots |-> Table[x]] /\ Table' = [x \in Slots |-> Table'[x]]
  BY DEF Table
<1>5. Table' = [Table EXCEPT ![s] = CellOf(s)'] /\ (CellOf(s)' = CellOf(s) => Table' = Table)
  BY <1>2, <1>3, <1>4, Changed
<1>6. CellOf(Pos(p))' = CellOf(s)' /\ CellOf(Pos(p)) = CellOf(s)
  BY <1>1 DEF CellOf, WriterOf, Final
<1> QED
  BY <1>1, <1>5, <1>6

--------------------------------------------------------------------------------
(* The invariant *)

LEMMA InitReady == Init => Ready
<1> SUFFICES ASSUME Init PROVE Ready
  OBVIOUS
<1>1. Base
  BY InitTypes, InitCounts DEF Base
<1>2. EntryCurrent /\ Labelled
  BY InitLabelled DEF Init, EntryCurrent, Procs, Copying
<1>3. CellAtomic
  BY DEF Init, CellAtomic, Writing, Procs
<1>4. \A w \in Workers : pc[w] = "idle" /\ reply[w] = Silent
  BY DEF Init, Procs
<1>5. Swept
  BY DEF Init, Swept, Procs
<1> QED
  BY <1>1, <1>2, <1>3, <1>4, <1>5 DEF Ready, Written, Replied

\* The slot a process works on is not changed by others.
LEMMA HeldSlot ==
  ASSUME Base, CellAtomic, NEW p \in Procs, Touches(p), NEW q \in Procs, q # p, Steps(q)
  PROVE  Slot(p)' = Slot(p)
  BY SlotAlone DEF Slot

\* How a worker and the collector write.
LEMMA WritesAre ==
  ASSUME Base, NEW p \in Procs, pc[p] \in Writing, Steps(p), pc'[p] # "dead"
  PROVE  /\ Pos(p) \in Slots /\ Pos(p)' = Pos(p) /\ req' = req /\ entry' = entry /\ idx' = idx
         /\ reply' = reply /\ (p \in Workers => req[p] \in Requests /\ req[p].op = "set")
         /\ \/ /\ p \in Workers /\ pc[p] = "wkey" /\ pc'[p] = "wlo"
               /\ Slot(p)' = [Slot(p) EXCEPT !.key = req[p].key]
            \/ /\ p \in Workers /\ pc[p] = "wlo" /\ pc'[p] = "whi"
               /\ Slot(p)' = [Slot(p) EXCEPT !.lo = OwnDatum(p)]
            \/ /\ p \in Workers /\ pc[p] = "whi" /\ pc'[p] = "wttl"
               /\ Slot(p)' = [Slot(p) EXCEPT !.hi = OwnDatum(p)]
            \/ /\ pc[p] = "wttl" /\ pc'[p] = "wstatus"
               /\ Slot(p)' = [Slot(p) EXCEPT !.TTL = NewTTL(p)]
            \/ /\ pc[p] = "wstatus" /\ pc'[p] = IF p = GC THEN "release" ELSE "return"
               /\ Slot(p)' = [Slot(p) EXCEPT !.status = NewStatus(p)]
<1> USE DEF Base
<1>1. (p \in Workers /\ (WriteKey(p) \/ WriteValue(p))) \/ WriteTTL(p) \/ WriteStatus(p)
  BY DEF Steps, WorkerStep, CollectorStep, Request, Lock, ReadEntry, MatchGet, MatchSet, MatchGC,
         CopyValue, Return, Release, ReleaseGC, WakeUp, Deliver, Crash, Goto, TypeOK, Writing, Copying
<1>2. req' = req /\ entry' = entry /\ idx' = idx /\ reply' = reply
  BY <1>1 DEF WriteKey, WriteValue, WriteTTL, WriteStatus
<1>3. Pos(p)' = Pos(p)
  BY <1>2 DEF Pos
<1>4. Pos(p) \in Slots
  BY PosInTable DEF Critical
<1>5. p \in Workers => req[p] \in Requests /\ req[p].op = "set"
  BY DEF ControlOK, Critical
<1>6. CASE p \in Workers /\ WriteKey(p)
  BY <1>2, <1>3, <1>4, <1>5, <1>6 DEF WriteKey, Goto, TypeOK, Slot
<1>7. CASE p \in Workers /\ WriteValue(p)
  BY <1>2, <1>3, <1>4, <1>5, <1>7 DEF WriteValue, Goto, TypeOK, Slot, OwnDatum
<1>8. CASE WriteTTL(p)
  BY <1>2, <1>3, <1>4, <1>5, <1>8 DEF WriteTTL, Goto, TypeOK, Slot
<1>9. CASE WriteStatus(p)
  BY <1>2, <1>3, <1>4, <1>5, <1>9 DEF WriteStatus, Goto, TypeOK, Slot
<1> QED
  BY <1>1, <1>6, <1>7, <1>8, <1>9

LEMMA WrittenStep ==
  ASSUME Ready, NEW w \in Workers, NEW p \in Procs, Steps(p) PROVE Written(w)'
<1> USE DEF Ready
<1>0. w \in Procs /\ w # GC
  BY DEF Procs
<1>1. CASE p # w
  <2>1. pc'[w] = pc[w] /\ req'[w] = req[w]
    BY <1>0, <1>1, StepKeeps DEF Base
  <2>2. pc[w] \in Writing => Slot(w)' = Slot(w)
    BY <1>0, <1>1, HeldSlot DEF Touches
  <2> QED
    BY <2>1, <2>2 DEF Written, OwnDatum, Writing
<1>2. CASE p = w /\ pc[w] \in Writing /\ pc'[w] # "dead"
  <2>1. Slot(w) \in Cells
    BY <1>0, <1>2, WritesAre DEF Slot, Base, TypeOK
  <2>2. OwnDatum(w)' = OwnDatum(w) /\ NewTTL(w) = req[w].TTL /\ req'[w] = req[w]
    BY <1>0, <1>2, WritesAre DEF OwnDatum, NewTTL
  <2> QED
    BY <1>0, <1>2, <2>1, <2>2, WritesAre DEF Written, Cells
<1>3. CASE p = w /\ (pc[w] \notin Writing \/ pc'[w] = "dead")
  <2>1. pc'[w] \notin {"wlo", "whi", "wttl", "wstatus"}
    BY <1>0, <1>3
    DEF Steps, WorkerStep, Request, Answer, Lock, ReadEntry, MatchGet, MatchSet, CopyValue,
        WriteKey, WriteValue, WriteTTL, WriteStatus, Return, Release, Deliver, Crash, Goto,
        Base, TypeOK, Writing
  <2> QED
    BY <2>1 DEF Written
<1> QED
  BY <1>1, <1>2, <1>3

LEMMA SweptStep ==
  ASSUME Ready, NEW p \in Procs, Steps(p) PROVE Swept'
<1> USE DEF Ready
<1>0. GC \in Procs /\ GC \notin Workers
  BY DEF Procs
<1>1. CASE p # GC
  <2>1. pc'[GC] = pc[GC] /\ entry'[GC] = entry[GC]
    BY <1>0, <1>1, StepKeeps DEF Base
  <2>2. pc[GC] \in Writing => Slot(GC)' = Slot(GC)
    BY <1>0, <1>1, HeldSlot DEF Touches
  <2> QED
    BY <2>1, <2>2 DEF Swept, NewTTL, Writing
<1>2. CASE p = GC /\ pc[GC] \in Writing
  <2>0. pc'[GC] # "dead"
    BY <1>0, <1>2 DEF Steps, CollectorStep, Lock, ReadEntry, MatchGC, WriteTTL, WriteStatus,
                      ReleaseGC, WakeUp, Goto, Base, TypeOK
  <2>1. Slot(GC) \in Cells /\ entry'[GC] = entry[GC]
    BY <1>0, <1>2, <2>0, WritesAre DEF Slot, Base, TypeOK
  <2>2. NewTTL(GC)' = NewTTL(GC)
    BY <2>1 DEF NewTTL
  <2> QED
    BY <1>0, <1>2, <2>0, <2>1, <2>2, WritesAre DEF Swept, Cells
<1>3. CASE p = GC /\ pc[GC] \notin Writing
  <2>1. pc'[GC] # "wstatus"
    BY <1>0, <1>3
    DEF Steps, CollectorStep, Lock, ReadEntry, MatchGC, WriteTTL, WriteStatus, ReleaseGC, WakeUp,
        Goto, Base, TypeOK, Writing
  <2> QED
    BY <2>1 DEF Swept
<1> QED
  BY <1>1, <1>2, <1>3

LEMMA RepliedStep ==
  ASSUME Ready, NEW w \in Workers, NEW p \in Procs, Steps(p) PROVE Replied(w)'
<1> USE DEF Ready
<1>0. w \in Procs /\ w # GC /\ Replied(w)
  BY DEF Procs
<1>1. CASE p # w
  <2>1. pc'[w] = pc[w] /\ req'[w] = req[w] /\ reply'[w] = reply[w]
    BY <1>0, <1>1, StepKeeps DEF Base
  <2>2. pc[w] = "copyhi" => Slot(w)' = Slot(w)
    BY <1>0, <1>1, HeldSlot DEF Touches, Copying
  <2> QED
    BY <1>0, <2>1, <2>2 DEF Replied
<1>2. CASE p = w /\ pc[w] \in Writing /\ pc'[w] # "dead"
  <2>1. reply'[w] = Silent /\ pc'[w] # "copyhi"
    BY <1>0, <1>2, WritesAre DEF Replied
  <2> QED
    BY <2>1 DEF Replied
<1>3. CASE CopyValue(w)
  <2>1. /\ Slot(w)' = Slot(w) /\ req' = req /\ pc[w] \in Copying /\ reply[w] \in Replies
        /\ req[w].op = "get"
    BY <1>0, <1>3 DEF CopyValue, Slot, Pos, Copying, Base, TypeOK, ControlOK
  <2>2. CASE pc[w] = "copylo"
    <3>1. pc'[w] = "copyhi" /\ reply'[w] = [reply[w] EXCEPT !.lo = Slot(w).lo]
      BY <1>0, <1>3, <2>2 DEF CopyValue, Goto, Base, TypeOK
    <3>2. reply'[w].lo = Slot(w).lo
      BY <2>1, <3>1 DEF Replies
    <3> QED
      BY <2>1, <3>1, <3>2 DEF Replied, Writing
  <2>3. CASE pc[w] = "copyhi"
    <3>1. pc'[w] = "return"
      BY <1>0, <1>3, <2>3 DEF CopyValue, Goto, Base, TypeOK
    <3> QED
      BY <2>1, <3>1 DEF Replied, Writing
  <2> QED
    BY <2>1, <2>2, <2>3 DEF Copying
<1>4. CASE \/ \E r \in Requests : Request(w, r)
           \/ Lock(w) \/ ReadEntry(w) \/ MatchGet(w) \/ MatchSet(w)
           \/ Return(w) \/ Release(w) \/ Deliver(w) \/ Crash(w)
  <2>1. /\ pc'[w] \in {"idle", "lock", "read", "match", "release", "copylo", "wkey", "done", "dead"}
        /\ pc'[w] # "done" => reply'[w] = Silent
    BY <1>0, <1>4
    DEF Request, Answer, Lock, ReadEntry, MatchGet, MatchSet, Return, Release, Deliver, Crash, Goto,
        Base, TypeOK, Replied
  <2> QED
    BY <2>1 DEF Replied, Writing
<1> QED
  BY <1>0, <1>1, <1>2, <1>3, <1>4 DEF Steps, WorkerStep, WriteKey, WriteValue, WriteTTL, WriteStatus,
     Writing, Goto, Base, TypeOK

LEMMA ReadyStep ==
  ASSUME Ready, CellAtomic', [Next]_vars PROVE Ready'
<1>1. Base' /\ EntryCurrent' /\ Labelled'
  BY BaseStep, EntryStep, LabelledStep DEF Ready
<1>2. CASE UNCHANGED vars
  BY <1>1, <1>2 DEF Ready, vars, Written, Replied, Swept, Slot, Pos, OwnDatum, NewTTL
<1>3. ASSUME NEW p \in Procs, Steps(p) PROVE Ready'
  BY <1>1, <1>3, WrittenStep, SweptStep, RepliedStep DEF Ready
<1> QED
  BY <1>2, <1>3, StepOf

--------------------------------------------------------------------------------
(* The steps *)

LEMMA CellsNext ==
  (\A p \in Procs : Base /\ CellAtomic /\ pc[p] \in Writing => CellOf(Pos(p)) = Final(p))'
<1>1. \A p \in Procs : Base /\ CellAtomic /\ pc[p] \in Writing => CellOf(Pos(p)) = Final(p)
  BY WritersCell
<1> QED
  BY <1>1, PTL

AtomicStep == Atomic!Next \/ UNCHANGED Atomic!vars

\* A process that begins to write, writes or ends writing.
LEMMA CellsAfter ==
  ASSUME Ready, Ready', NEW p \in Procs, Steps(p), Touches(p), Pos(p)' = Pos(p)
  PROVE  /\ pc'[p] \in Writing => CellOf(Pos(p))' = Final(p)'
         /\ pc'[p] \notin Writing => CellOf(Pos(p))' = Shown(Slot(p)')
<1>1. pc'[p] \in Writing => CellOf(Pos(p))' = Final(p)'
  BY CellsNext DEF Ready
<1>2. PICK s \in Slots : s = Pos(p)
  BY PosInTable DEF Ready, Base, Touches, Critical
<1>3. ASSUME pc'[p] \notin Writing PROVE CellOf(Pos(p))' = Shown(Slot(p)')
  <2>1. CellOf(s)' = Shown(data'[s])
    BY <1>2, <1>3, LeftCell
  <2>2. CellOf(Pos(p))' = CellOf(s)' /\ Slot(p)' = data'[s]
    BY <1>2 DEF CellOf, WriterOf, Final, Slot
  <2> QED
    BY <2>1, <2>2
<1> QED
  BY <1>1, <1>3

LEMMA AskStep ==
  ASSUME Ready, NEW w \in Workers, NEW r \in Requests, Request(w, r)
  PROVE  Atomic!Request(w)
<1>0. w \in Procs /\ Steps(w) /\ pc[w] = "idle"
  BY DEF Procs, Steps, Request
<1>1. /\ pc'[w] \in {"lock", "done"} /\ idx' = idx /\ req' = [req EXCEPT ![w] = r]
      /\ pc'[w] = "lock" => reply' = reply
      /\ pc'[w] = "done" => \E c \in {"INVALID_KEY", "INVALID_VALUE"} :
                              reply'[w] = [Silent EXCEPT !.code = c]
  BY <1>0 DEF Request, Answer, Goto, Ready, Base, TypeOK, Silent
<1>2. ~ Failed(w) /\ ~ Found(w) /\ ~ Failed(w)' /\ ~ Found(w)'
  BY <1>0, <1>1 DEF Failed, Found, Copying, Writing
<1>3. Table' = Table
  BY <1>0, <1>1, TableSame DEF Writing
<1>4. AtOf(w)' = AtOf(w) /\ StateOf(w) = "idle"
  BY <1>0, <1>1 DEF AtOf, StateOf
<1>5. CASE pc'[w] = "lock"
  <2>1. StateOf(w)' = "probing" /\ AnswerOf(w)' = AnswerOf(w)
    BY <1>0, <1>1, <1>2, <1>5 DEF StateOf, AnswerOf, Copying
  <2> QED
    BY <1>0, <1>1, <1>3, <1>4, <2>1, WorkerViews DEF Atomic!Request
<1>6. CASE pc'[w] = "done"
  <2>1. StateOf(w)' = "answered"
    BY <1>6 DEF StateOf
  <2>2. PICK c \in {"INVALID_KEY", "INVALID_VALUE"} : AnswerOf(w)' = [code |-> c, val |-> <<None, None>>]
    BY <1>1, <1>2, <1>6 DEF AnswerOf, Both, Copying, Silent
  <2> QED
    BY <1>0, <1>1, <1>3, <1>4, <2>1, <2>2, WorkerViews DEF Atomic!Request, Atomic!Reply, Atomic!Nothing
<1> QED
  BY <1>1, <1>5, <1>6

LEMMA WaitStep ==
  ASSUME Ready, NEW w \in Workers, Lock(w) \/ ReadEntry(w)
  PROVE  UNCHANGED Atomic!vars
<1>0. w \in Procs /\ Steps(w)
  BY DEF Procs, Steps, WorkerStep
<1>1. /\ pc[w] \in {"lock", "read"} /\ pc'[w] \in {"read", "match"}
      /\ idx' = idx /\ req' = req /\ reply' = reply
  BY <1>0 DEF Lock, ReadEntry, Goto, Ready, Base, TypeOK
<1>2. ~ Failed(w) /\ ~ Found(w) /\ ~ Failed(w)' /\ ~ Found(w)'
  BY <1>1 DEF Failed, Found, Copying, Writing
<1>3. Table' = Table
  BY <1>0, <1>1, TableSame DEF Writing
<1>4. AtOf(w)' = AtOf(w) /\ StateOf(w)' = StateOf(w) /\ AnswerOf(w)' = AnswerOf(w)
  BY <1>1, <1>2 DEF AtOf, StateOf, AnswerOf, Copying
<1> QED
  BY <1>0, <1>1, <1>3, <1>4, WorkerViews DEF Atomic!vars

\* What a worker decides on is what AtomicCells decides on.
LEMMA AtMatch ==
  ASSUME Ready, NEW w \in Workers, pc[w] = "match"
  PROVE  /\ Pos(w) \in Slots /\ Atomic!Here(w) = Pos(w) /\ idx[w] \in Slots
         /\ Table[Pos(w)] = Shown(Slot(w)) /\ Touches(w)
         /\ entry[w].status = Slot(w).status /\ Slot(w).status \in Status
         /\ States[w] = "probing" /\ Ats[w] = idx[w] /\ AtOf(w) = idx[w]
         /\ ~ Failed(w) /\ ~ Found(w)
         /\ Table[Atomic!Here(w)] = Table[Pos(w)]
         /\ (Atomic!Mine(w) <=> SameKey(w))
<1>0. w \in Procs /\ w # GC /\ pc[w] \in Critical \ Writing /\ Touches(w)
  BY DEF Procs, Critical, Writing, Touches
<1>1. Pos(w) \in Slots /\ idx[w] \in Slots
  BY <1>0, PosInTable DEF Ready, Base, TypeOK
<1>2. Table[Pos(w)] = Shown(Slot(w))
  BY <1>0, <1>1, ReadersCell DEF Ready, Table
<1>3. entry[w] = [TTL |-> Slot(w).TTL, status |-> Slot(w).status] /\ Slot(w) \in Cells
  BY <1>0, <1>1 DEF Ready, EntryCurrent, Slot, Base, TypeOK
<1>4. ~ Failed(w) /\ ~ Found(w)
  BY DEF Failed, Found, Copying, Writing
<1>5. States[w] = "probing" /\ Ats[w] = idx[w] /\ AtOf(w) = idx[w]
  BY <1>4 DEF States, Ats, StateOf, AtOf
<1>6. Atomic!Here(w) = Pos(w)
  BY <1>0, <1>5 DEF Atomic!Here, Pos
<1>7. (Atomic!Mine(w) <=> SameKey(w))
  BY <1>2, <1>3, <1>6 DEF Atomic!Mine, SameKey, Shown
<1>8. Table[Atomic!Here(w)] = Table[Pos(w)]
  BY <1>6
<1>9. entry[w].status = Slot(w).status /\ Slot(w).status \in Status
  BY <1>3 DEF Cells
<1> QED
  BY <1>0, <1>1, <1>2, <1>4, <1>5, <1>6, <1>7, <1>8, <1>9, Zenon

LEMMA AtSlot ==
  ASSUME Ready, NEW w \in Workers, pc[w] = "match"
  PROVE  Table[Pos(w)].status = Slot(w).status /\ Table[Pos(w)].val = Both(Slot(w))
<1>1. Table[Pos(w)] = Shown(Slot(w))
  BY AtMatch, Zenon
<1>2. Shown(Slot(w)).status = Slot(w).status /\ Shown(Slot(w)).val = Both(Slot(w))
  BY DEF Shown
<1> QED
  BY <1>1, <1>2, Zenon

LEMMA PassStep ==
  ASSUME Ready, NEW w \in Workers, MatchGet(w) \/ MatchSet(w), pc'[w] = "release"
  PROVE  Atomic!PassBy(w)
<1>0. w \in Procs /\ Steps(w) /\ pc[w] = "match" /\ req[w] \in Requests
  BY DEF Procs, Steps, WorkerStep, MatchGet, MatchSet, Ready, Base, ControlOK, Critical
<1>1. /\ idx' = idx /\ req' = req /\ reply' = reply /\ entry' = entry
      /\ ~ SameKey(w)
      /\ req[w].op = "set" => Slot(w).status = "ALIVE"
  BY <1>0, AtMatch DEF MatchGet, MatchSet, Goto, Ready, Base, TypeOK, Status
<1>2. Table' = Table
  BY <1>0, TableSame DEF Writing
<1>3. Failed(w)' <=> idx[w] = N - 1 \/ (req[w].op = "get" /\ Slot(w).status = "FREE")
  BY <1>0, <1>1, AtMatch DEF Failed, LastProbe, SearchEnds
<1>4. ~ Found(w)'
  BY DEF Found, Copying, Writing
<1>7. /\ Table[Atomic!Here(w)].status = Slot(w).status
      /\ States[w] = "probing" /\ Ats[w] = idx[w]
      /\ ~ Atomic!Mine(w)
  <2>1. Table[Atomic!Here(w)] = Table[Pos(w)] /\ States[w] = "probing" /\ Ats[w] = idx[w]
    BY <1>0, AtMatch
  <2>2. Table[Pos(w)].status = Slot(w).status
    BY <1>0, AtSlot
  <2>3. Atomic!Mine(w) <=> SameKey(w)
    BY <1>0, AtMatch
  <2>4. ~ Atomic!Mine(w)
    BY <1>1, <2>3
  <2> QED
    BY <2>1, <2>2, <2>4
<1>5. CASE ~ Failed(w)'
  <2>1. StateOf(w)' = "probing" /\ StateOf(w) = "probing" /\ AtOf(w)' = idx[w] + 1
    BY <1>0, <1>1, <1>4, <1>5, AtMatch DEF StateOf, AtOf
  <2>2. AnswerOf(w)' = AnswerOf(w)
    BY <1>0, <1>1, <1>4, <1>5, AtMatch DEF AnswerOf, Copying
  <2>3. /\ Ats' = [Ats EXCEPT ![w] = idx[w] + 1] /\ Answers' = Answers /\ States' = States
        /\ Sweep' = Sweep
    BY <1>0, <2>1, <2>2, WorkerViews
  <2>4. idx[w] < N - 1
    <3>1. idx[w] \in Slots
      BY <1>0, AtMatch
    <3>2. idx[w] # N - 1
      BY <1>3, <1>5
    <3> QED
      BY <3>1, <3>2 DEF Slots
  <2>5. /\ Table[Atomic!Here(w)].status = Slot(w).status /\ States[w] = "probing" /\ ~ Atomic!Mine(w)
        /\ Ats[w] = idx[w]
    BY <1>0, <1>7
  <2>6. Slot(w).status # "FREE" /\ (req[w].op = "set" => Slot(w).status = "ALIVE")
    <3>1. req[w].op \in {"get", "set"}
      BY <1>0 DEF Requests
    <3> QED
      BY <1>1, <1>3, <1>5, <3>1
  <2>7. Ats' = [Ats EXCEPT ![w] = @ + 1]
    BY <2>3, <2>5
  <2> QED
    BY <1>1, <1>2, <2>3, <2>4, <2>5, <2>6, <2>7 DEF Atomic!PassBy
<1>6. CASE Failed(w)'
  <2>1. StateOf(w)' = "answered" /\ AtOf(w)' = AtOf(w)
    BY <1>0, <1>1, <1>6, AtMatch DEF StateOf, AtOf
  <2>2. AnswerOf(w)' = [code |-> IF req[w].op = "get" THEN "NO_SUCH_KEY" ELSE "NO_FREE_SPACE",
                        val |-> <<None, None>>]
    BY <1>0, <1>1, <1>6 DEF AnswerOf, Both, Copying, Ready, Replied, Silent
  <2>3. /\ Ats' = Ats /\ Answers' = [Answers EXCEPT ![w] = AnswerOf(w)']
        /\ States' = [States EXCEPT ![w] = "answered"] /\ Sweep' = Sweep
    BY <1>0, <2>1, WorkerViews
  <2>4. /\ Table[Atomic!Here(w)].status = Slot(w).status /\ States[w] = "probing" /\ ~ Atomic!Mine(w)
        /\ Ats[w] = idx[w]
    BY <1>0, <1>7
  <2>5. CASE req[w].op = "get"
    BY <1>1, <1>2, <1>3, <1>6, <2>2, <2>3, <2>4, <2>5 DEF Atomic!PassBy, Atomic!Reply, Atomic!Nothing
  <2>6. CASE req[w].op = "set"
    BY <1>1, <1>2, <1>3, <1>6, <2>2, <2>3, <2>4, <2>6 DEF Atomic!PassBy, Atomic!Reply, Atomic!Nothing
  <2> QED
    BY <1>0, <2>5, <2>6 DEF Requests
<1> QED
  BY <1>5, <1>6

LEMMA FetchStep ==
  ASSUME Ready, NEW w \in Workers, MatchGet(w), pc'[w] = "copylo"
  PROVE  Atomic!Fetch(w)
<1>0. w \in Procs /\ Steps(w) /\ pc[w] = "match" /\ req[w].op = "get"
  BY DEF Procs, Steps, WorkerStep, MatchGet
<1>1. idx' = idx /\ req' = req /\ Slot(w)' = Slot(w) /\ SameKey(w)
  BY <1>0 DEF MatchGet, Goto, Ready, Base, TypeOK, Slot, Pos
<1>2. Table' = Table
  BY <1>0, TableSame DEF Writing
<1>3. Found(w)' /\ ~ Failed(w)'
  BY DEF Found, Failed, Copying
<1>4. StateOf(w)' = "answered" /\ AtOf(w)' = AtOf(w)
  BY <1>0, <1>1, <1>3, AtMatch DEF StateOf, AtOf
<1>5. AnswerOf(w)' = [code |-> "OK", val |-> Both(Slot(w))]
  BY <1>0, <1>1, <1>3 DEF AnswerOf, Copying, Both
<1>6. Both(Slot(w)) = Table[Atomic!Here(w)].val
  BY <1>0, AtMatch, AtSlot
<1>7. /\ Ats' = Ats /\ Answers' = [Answers EXCEPT ![w] = AnswerOf(w)']
      /\ States' = [States EXCEPT ![w] = "answered"] /\ Sweep' = Sweep
  BY <1>0, <1>4, WorkerViews
<1>8. States[w] = "probing" /\ Atomic!Mine(w)
  BY <1>0, <1>1, AtMatch
<1> QED
  BY <1>0, <1>1, <1>2, <1>5, <1>6, <1>7, <1>8 DEF Atomic!Fetch, Atomic!Reply

LEMMA StoreStep ==
  ASSUME Ready, Ready', NEW w \in Workers, MatchSet(w), pc'[w] = "wkey"
  PROVE  Atomic!Store(w)
<1>0. w \in Procs /\ w # GC /\ Steps(w) /\ pc[w] = "match" /\ req[w].op = "set"
  BY DEF Procs, Steps, WorkerStep, MatchSet
<1>1. /\ idx' = idx /\ req' = req /\ Pos(w)' = Pos(w)
      /\ SameKey(w) \/ Slot(w).status # "ALIVE"
  BY <1>0, AtMatch DEF MatchSet, Goto, Ready, Base, TypeOK, Pos
<1>2. Found(w)' /\ ~ Failed(w)'
  BY DEF Found, Failed, Writing
<1>3. CellOf(Pos(w))' = [key |-> req[w].key, val |-> <<OwnDatum(w), OwnDatum(w)>>,
                         TTL |-> req[w].TTL, status |-> "ALIVE"]
  BY <1>0, <1>1, AtMatch, CellsAfter DEF Writing, Final, NewTTL, NewStatus, OwnDatum
<1>4. Table' = [Table EXCEPT ![Pos(w)] = CellOf(Pos(w))']
  BY <1>0, <1>1, AtMatch, TableChanged
<1>5. StateOf(w)' = "answered" /\ AtOf(w)' = AtOf(w) /\ AnswerOf(w)' = [code |-> "OK", val |-> <<None, None>>]
  <2>1. StateOf(w)' = "answered" /\ AtOf(w)' = AtOf(w)
    BY <1>0, <1>1, <1>2, AtMatch DEF StateOf, AtOf
  <2>2. reply'[w] = Silent
    BY <1>0 DEF MatchSet, Ready, Replied
  <2> QED
    BY <1>2, <2>1, <2>2 DEF AnswerOf, Both, Copying, Silent
<1>6. /\ Ats' = Ats /\ Answers' = [Answers EXCEPT ![w] = [code |-> "OK", val |-> <<None, None>>]]
      /\ States' = [States EXCEPT ![w] = "answered"] /\ Sweep' = Sweep
  BY <1>0, <1>5, WorkerViews
<1>7. /\ States[w] = "probing" /\ Atomic!Here(w) = Pos(w)
      /\ Atomic!Mine(w) \/ Table[Pos(w)].status # "ALIVE"
  <2>1. States[w] = "probing" /\ Atomic!Here(w) = Pos(w)
    BY <1>0, AtMatch
  <2>2. Table[Pos(w)].status = Slot(w).status
    BY <1>0, AtSlot
  <2>3. Atomic!Mine(w) <=> SameKey(w)
    BY <1>0, AtMatch
  <2>4. Atomic!Mine(w) \/ Table[Pos(w)].status # "ALIVE"
    BY <1>1, <2>2, <2>3
  <2> QED
    BY <2>1, <2>4
<1> QED
  BY <1>0, <1>1, <1>3, <1>4, <1>6, <1>7
  DEF Atomic!Store, Atomic!Reply, Atomic!Nothing, Atomic!Datum, OwnDatum

LEMMA CopyStep ==
  ASSUME Ready, NEW w \in Workers, CopyValue(w)
  PROVE  UNCHANGED Atomic!vars
<1>0. w \in Procs /\ Steps(w)
  BY DEF Procs, Steps, WorkerStep
<1>1. /\ pc[w] \in {"copylo", "copyhi"} /\ pc'[w] \in {"copyhi", "return"}
      /\ idx' = idx /\ req' = req /\ Slot(w)' = Slot(w)
      /\ pc'[w] = "return" => pc[w] = "copyhi"
  BY <1>0 DEF CopyValue, Goto, Slot, Pos, Copying, Ready, Base, TypeOK
<1>2. Found(w) /\ Found(w)' /\ ~ Failed(w) /\ ~ Failed(w)'
  BY <1>1 DEF Failed, Found, Copying
<1>3. Table' = Table
  BY <1>0, <1>1, TableSame DEF Writing
<1>4. AtOf(w)' = AtOf(w) /\ StateOf(w)' = StateOf(w)
  BY <1>1, <1>2 DEF AtOf, StateOf
<1>5. AnswerOf(w)' = AnswerOf(w)
  <2>1. CASE pc'[w] = "copyhi"
    BY <1>1, <1>2, <2>1 DEF AnswerOf, Copying, Both
  <2>2. CASE pc'[w] = "return"
    <3>1. reply'[w].hi = Slot(w).hi /\ reply'[w].lo = reply[w].lo
      BY <1>0, <1>1, <2>2 DEF CopyValue, Ready, Base, TypeOK, Replies
    <3>2. reply[w].lo = Slot(w).lo
      BY <1>1, <2>2 DEF Ready, Replied
    <3> QED
      BY <1>1, <1>2, <2>2, <3>1, <3>2 DEF AnswerOf, Copying, Both
  <2> QED
    BY <1>1, <2>1, <2>2
<1> QED
  BY <1>0, <1>1, <1>3, <1>4, <1>5, WorkerViews DEF Atomic!vars

LEMMA WriteStep ==
  ASSUME Ready, Ready', NEW w \in Workers, Steps(w), pc[w] \in Writing, pc'[w] # "dead"
  PROVE  UNCHANGED Atomic!vars
<1>0. w \in Procs /\ w # GC /\ Touches(w)
  BY DEF Procs, Touches
<1>1. /\ pc'[w] \in Writing \cup {"return"} /\ idx' = idx /\ req' = req /\ Pos(w)' = Pos(w)
      /\ reply' = reply /\ Pos(w) \in Slots
  BY <1>0, WritesAre DEF Ready, Writing
<1>2. Found(w) /\ Found(w)' /\ ~ Failed(w) /\ ~ Failed(w)'
  BY <1>1 DEF Failed, Found, Writing
<1>3. CellOf(Pos(w)) = Final(w) /\ Final(w)' = Final(w)
  BY <1>0, <1>1, WritersCell DEF Ready, Final, NewTTL, NewStatus, OwnDatum
<1>4. CellOf(Pos(w))' = CellOf(Pos(w))
  <2>1. CASE pc'[w] \in Writing
    BY <1>0, <1>1, <1>3, <2>1, CellsAfter
  <2>2. CASE pc'[w] = "return"
    <3>1. pc[w] = "wstatus" /\ Slot(w)' = [Slot(w) EXCEPT !.status = NewStatus(w)]
      BY <1>0, <2>2, WritesAre DEF Ready
    <3>2. Slot(w) \in Cells
      BY <1>0, <1>1 DEF Slot, Ready, Base, TypeOK
    <3>3. /\ Slot(w)'.key = req[w].key /\ Both(Slot(w)') = <<OwnDatum(w), OwnDatum(w)>>
          /\ Slot(w)'.TTL = NewTTL(w) /\ Slot(w)'.status = NewStatus(w)
      BY <1>0, <3>1, <3>2 DEF Ready, Written, NewTTL, Cells, Both
    <3>4. CellOf(Pos(w))' = Shown(Slot(w)')
      BY <1>0, <1>1, <2>2, CellsAfter DEF Writing
    <3> QED
      BY <1>0, <1>3, <3>3, <3>4 DEF Final, Shown
  <2> QED
    BY <1>1, <2>1, <2>2
<1>5. Table' = Table
  BY <1>0, <1>1, <1>4, TableChanged
<1>6. AtOf(w)' = AtOf(w) /\ StateOf(w)' = StateOf(w) /\ AnswerOf(w)' = AnswerOf(w)
  BY <1>1, <1>2 DEF AtOf, StateOf, AnswerOf, Writing, Copying
<1> QED
  BY <1>1, <1>5, <1>6, WorkerViews DEF Atomic!vars

LEMMA ReturnStep ==
  ASSUME Ready, NEW w \in Workers, Return(w)
  PROVE  UNCHANGED Atomic!vars
<1>0. w \in Procs /\ Steps(w)
  BY DEF Procs, Steps, WorkerStep
<1>1. /\ pc[w] = "return" /\ pc'[w] = "done" /\ idx' = idx /\ req' = req
      /\ reply'[w].code = "OK" /\ Both(reply'[w]) = Both(reply[w])
  BY <1>0 DEF Return, Goto, Ready, Base, TypeOK, Replies, Both
<1>2. Found(w) /\ ~ Found(w)' /\ ~ Failed(w) /\ ~ Failed(w)'
  BY <1>1 DEF Failed, Found, Copying, Writing
<1>3. Table' = Table
  BY <1>0, <1>1, TableSame DEF Writing
<1>4. AtOf(w)' = AtOf(w) /\ StateOf(w)' = StateOf(w) /\ AnswerOf(w)' = AnswerOf(w)
  BY <1>1, <1>2 DEF AtOf, StateOf, AnswerOf, Copying
<1> QED
  BY <1>0, <1>1, <1>3, <1>4, WorkerViews DEF Atomic!vars

LEMMA ReleaseStep ==
  ASSUME Ready, NEW w \in Workers, Release(w)
  PROVE  UNCHANGED Atomic!vars
<1>0. w \in Procs /\ Steps(w) /\ pc[w] = "release" /\ req[w] \in Requests /\ reply[w] = Silent
  BY DEF Procs, Steps, WorkerStep, Release, Ready, Base, ControlOK, Critical, Replied
<1>1. pc'[w] \in {"done", "lock"} /\ req' = req
  BY <1>0 DEF Release, Answer, Goto, Ready, Base, TypeOK
<1>2. ~ Found(w) /\ ~ Found(w)' /\ ~ Failed(w)' /\ (Failed(w) <=> LastProbe(w) \/ SearchEnds(w))
  BY <1>0, <1>1 DEF Failed, Found, Copying, Writing
<1>3. Table' = Table
  BY <1>0, <1>1, TableSame DEF Writing
<1>4. CASE Failed(w)
  <2>1. /\ pc'[w] = "done" /\ idx' = idx /\ Both(reply'[w]) = Both(reply[w])
        /\ reply'[w].code = IF req[w].op = "get" THEN "NO_SUCH_KEY" ELSE "NO_FREE_SPACE"
    BY <1>0, <1>2, <1>4 DEF Release, Answer, Goto, SearchEnds, Silent, Ready, Base, TypeOK, Both
  <2> QED
    BY <1>0, <1>1, <1>2, <1>3, <1>4, <2>1, WorkerViews DEF AtOf, StateOf, AnswerOf, Copying, Atomic!vars
<1>5. CASE ~ Failed(w)
  <2>1. pc'[w] = "lock" /\ idx'[w] = idx[w] + 1 /\ reply' = reply
    BY <1>0, <1>2, <1>5 DEF Release, Goto, Ready, Base, TypeOK
  <2> QED
    BY <1>0, <1>1, <1>2, <1>3, <1>5, <2>1, WorkerViews DEF AtOf, StateOf, AnswerOf, Copying, Atomic!vars
<1> QED
  BY <1>4, <1>5

LEMMA DoneStep ==
  ASSUME Ready, NEW w \in Workers, Deliver(w)
  PROVE  Atomic!Done(w)
<1>0. w \in Procs /\ Steps(w)
  BY DEF Procs, Steps, WorkerStep
<1>1. /\ pc[w] = "done" /\ pc'[w] = "idle" /\ idx'[w] = 0 /\ req' = [req EXCEPT ![w] = Idle]
      /\ reply'[w] = Silent
  BY <1>0 DEF Deliver, Goto, Ready, Base, TypeOK
<1>2. ~ Found(w)' /\ ~ Failed(w)'
  BY <1>1 DEF Failed, Found, Copying, Writing
<1>3. Table' = Table
  BY <1>0, <1>1, TableSame DEF Writing
<1>4. /\ AtOf(w)' = 0 /\ StateOf(w)' = "idle" /\ StateOf(w) = "answered"
      /\ AnswerOf(w)' = [code |-> None, val |-> <<None, None>>]
  BY <1>1, <1>2 DEF AtOf, StateOf, AnswerOf, Silent, Both, Copying
<1> QED
  BY <1>0, <1>1, <1>3, <1>4, WorkerViews DEF Atomic!Done, Atomic!Silent, Atomic!Nothing

\* A killed worker leaves the slot it was writing as it is.
LEMMA DieStep ==
  ASSUME Ready, NEW w \in Workers, Crash(w)
  PROVE  Atomic!Die(w)
<1>0. w \in Procs /\ w # GC /\ Steps(w)
  BY DEF Procs, Steps
<1>1. /\ pc[w] # "dead" /\ pc'[w] = "dead" /\ idx'[w] = 0 /\ req' = [req EXCEPT ![w] = Idle]
      /\ reply'[w] = Silent /\ data' = data
  BY <1>0 DEF Crash, Goto, Ready, Base, TypeOK
<1>2. ~ Found(w)' /\ ~ Failed(w)'
  BY <1>1 DEF Failed, Found, Copying, Writing
<1>3. /\ AtOf(w)' = 0 /\ StateOf(w)' = "dead" /\ StateOf(w) # "dead"
      /\ AnswerOf(w)' = [code |-> None, val |-> <<None, None>>]
  BY <1>1, <1>2 DEF AtOf, StateOf, AnswerOf, Silent, Both, Copying
<1>4. /\ States[w] # "dead" /\ States' = [States EXCEPT ![w] = "dead"] /\ Ats' = [Ats EXCEPT ![w] = 0]
      /\ Answers' = [Answers EXCEPT ![w] = [code |-> None, val |-> <<None, None>>]] /\ Sweep' = Sweep
  BY <1>0, <1>3, WorkerViews
<1>5. CASE pc[w] \notin Writing
  <2>1. Table' = Table
    BY <1>0, <1>1, <1>5, TableSame DEF Writing
  <2> QED
    BY <1>1, <1>4, <2>1 DEF Atomic!Die, Atomic!Silent, Atomic!Nothing
<1>6. CASE pc[w] \in Writing
  <2>1. PICK s \in Slots : s = Pos(w)
    BY <1>0, <1>6, PosInTable DEF Ready, Base, Critical
  <2>2. /\ req[w] \in Requests /\ req[w].op = "set" /\ Found(w) /\ ~ Failed(w)
        /\ Atomic!Here(w) = s
    BY <1>0, <1>6, <2>1
    DEF Ready, Base, ControlOK, Critical, Writing, Found, Failed, Atomic!Here, Pos, Ats, AtOf
  <2>3. States[w] = "answered" /\ Answers[w].code = "OK"
    BY <1>6, <2>2 DEF States, StateOf, Answers, AnswerOf, Writing
  <2>4. CellOf(s)' = Shown(data[s])
    BY <1>0, <1>1, <1>6, <2>1, LeftCell DEF Touches, Writing
  <2>5. Table' = [Table EXCEPT ![s] = Shown(data[s])]
    <3>1. \A x \in Slots : x # s => Table'[x] = Table[x]
      BY <1>0, <1>1, <2>1, OtherCells DEF Table, Ready, Writing
    <3>2. Table'[s] = CellOf(s)'
      BY DEF Table
    <3>3. Table = [x \in Slots |-> Table[x]] /\ Table' = [x \in Slots |-> Table'[x]]
      BY DEF Table
    <3> QED
      BY <2>4, <3>1, <3>2, <3>3, Changed
  <2>6. Shown(data[s]) \in Atomic!Torn(w)
    <3>1. data[s] \in Cells
      BY DEF Ready, Base, TypeOK
    <3>2. CASE data[s].status = "ALIVE"
      <4>1. data[s].key = req[w].key
        BY <1>6, <2>1, <3>2 DEF Ready, Labelled, WriterOK, Slot, Writing
      <4>2. Half(data[s].lo, req[w].key) /\ Half(data[s].hi, req[w].key)
        BY <3>2, <4>1 DEF Ready, Labelled, SlotsOK
      <4> QED
        BY <3>1, <3>2, <4>1, <4>2 DEF Shown, Both, Half, Cells, Atomic!Torn
    <3>3. CASE data[s].status # "ALIVE"
      <4>1. data[s].status \in {"FREE", "REMOVED"}
        BY <3>1, <3>3 DEF Cells, Status
      <4> QED
        BY <3>1, <4>1 DEF Shown, Both, Cells, Datum, Atomic!Torn, Atomic!Halves
    <3> QED
      BY <3>2, <3>3
  <2> QED
    BY <1>1, <1>4, <2>2, <2>3, <2>5, <2>6 DEF Atomic!Die, Atomic!Silent, Atomic!Nothing
<1> QED
  BY <1>5, <1>6

LEMMA SweepNext ==
  ASSUME NEW i \in Slots PROVE (i + 1) % N = IF i = N - 1 THEN 0 ELSE i + 1
<1>1. i \in Nat /\ N \in Nat /\ N > 0 /\ i < N
  BY DEF Slots
<1> QED
  BY <1>1

LEMMA VisitStep ==
  ASSUME Ready, Ready', MatchGC
  PROVE  Atomic!Visit
<1>0. GC \in Procs /\ Steps(GC) /\ pc[GC] = "match" /\ Pos(GC) = idx[GC] /\ idx[GC] \in Slots
  BY DEF Procs, Steps, CollectorStep, MatchGC, Pos, Ready, Base, TypeOK
<1>1. /\ idx' = idx /\ req' = req /\ entry' = entry /\ Slot(GC)' = Slot(GC) /\ Pos(GC)' = Pos(GC)
      /\ pc'[GC] = IF entry[GC].status = "ALIVE" THEN "wttl" ELSE "release"
  BY <1>0 DEF MatchGC, Goto, Slot, Pos, Ready, Base, TypeOK
<1>2. entry[GC] = [TTL |-> Slot(GC).TTL, status |-> Slot(GC).status]
  BY <1>0 DEF Ready, EntryCurrent
<1>3. CellOf(idx[GC]) = Shown(Slot(GC)) /\ Touches(GC)
  BY <1>0, ReadersCell DEF Ready, Touches, Writing
<1>4. Slot(GC).TTL \in Nat
  BY <1>0 DEF Slot, Ready, Base, TypeOK, Cells
<1>5. Table' = [Table EXCEPT ![idx[GC]] = CellOf(Pos(GC))'] /\ Table[idx[GC]] = CellOf(idx[GC])
  BY <1>0, <1>1, TableChanged DEF Table
<1>6. Sweep = idx[GC] /\ Sweep' = (idx[GC] + 1) % N
  BY <1>0, <1>1 DEF Sweep, Writing
<1>7. CellOf(Pos(GC))' = Atomic!Aged(Table[idx[GC]])
  <2>1. CASE entry[GC].status # "ALIVE"
    <3>1. pc'[GC] \notin Writing
      BY <1>1, <2>1 DEF Writing
    <3>2. CellOf(Pos(GC))' = CellOf(idx[GC])
      BY <1>0, <1>1, <1>3, <3>1, CellsAfter
    <3> QED
      BY <1>2, <1>3, <1>5, <2>1, <3>2 DEF Atomic!Aged, Shown
  <2>2. CASE entry[GC].status = "ALIVE"
    <3>1. pc'[GC] \in Writing
      BY <1>1, <2>2 DEF Writing
    <3>2. CellOf(Pos(GC))' = [key |-> Slot(GC).key, val |-> Both(Slot(GC)),
                              TTL |-> NewTTL(GC), status |-> NewStatus(GC)]
      BY <1>0, <1>1, <1>3, <3>1, CellsAfter DEF Final, NewTTL, NewStatus, Both
    <3>3. Table[idx[GC]] = [key |-> Slot(GC).key, val |-> Both(Slot(GC)),
                            TTL |-> Slot(GC).TTL, status |-> "ALIVE"]
      BY <1>2, <1>3, <1>5, <2>2 DEF Shown
    <3>4. CASE Slot(GC).TTL = 0
      BY <1>2, <3>2, <3>3, <3>4 DEF Atomic!Aged, NewTTL, NewStatus
    <3>5. CASE Slot(GC).TTL # 0
      BY <1>2, <1>4, <3>2, <3>3, <3>5 DEF Atomic!Aged, NewTTL, NewStatus
    <3> QED
      BY <3>4, <3>5
  <2> QED
    BY <2>1, <2>2
<1>8. States' = States /\ Ats' = Ats /\ Answers' = Answers
  BY <1>0, SweepViews
<1>9. Table' = [Table EXCEPT ![Sweep] = Atomic!Aged(Table[Sweep])]
  BY <1>5, <1>6, <1>7
<1>10. Sweep' = (Sweep + 1) % N
  BY <1>6
<1> QED
  BY <1>1, <1>8, <1>9, <1>10, Zenon DEF Atomic!Visit

LEMMA SweepStep ==
  ASSUME Ready, Ready', Steps(GC), ~ MatchGC
  PROVE  UNCHANGED Atomic!vars
<1>0. GC \in Procs /\ GC \notin Workers /\ idx[GC] \in Slots
  BY DEF Procs, Ready, Base, TypeOK
<1>1. States' = States /\ Ats' = Ats /\ Answers' = Answers
  BY SweepViews
<1>2. CASE pc[GC] \in Writing
  <2>0. pc'[GC] # "dead" /\ Touches(GC)
    BY <1>0, <1>2 DEF Steps, CollectorStep, Lock, ReadEntry, MatchGC, WriteTTL, WriteStatus,
                      ReleaseGC, WakeUp, Goto, Touches, Ready, Base, TypeOK
  <2>1. /\ idx' = idx /\ req' = req /\ entry' = entry /\ Pos(GC)' = Pos(GC) /\ Pos(GC) \in Slots
        /\ \/ /\ pc[GC] = "wttl" /\ pc'[GC] = "wstatus"
              /\ Slot(GC)' = [Slot(GC) EXCEPT !.TTL = NewTTL(GC)]
           \/ /\ pc[GC] = "wstatus" /\ pc'[GC] = "release"
              /\ Slot(GC)' = [Slot(GC) EXCEPT !.status = NewStatus(GC)]
    BY <1>0, <1>2, <2>0, WritesAre DEF Ready
  <2>2. Sweep' = Sweep
    BY <1>2, <2>1 DEF Sweep, Writing
  <2>3. CellOf(Pos(GC)) = Final(GC) /\ Slot(GC) \in Cells
    BY <1>0, <1>2, <2>1, WritersCell DEF Ready, Slot, Base, TypeOK
  <2>4. NewTTL(GC)' = NewTTL(GC) /\ NewStatus(GC)' = NewStatus(GC)
    BY <2>1 DEF NewTTL, NewStatus
  <2>5. CellOf(Pos(GC))' = CellOf(Pos(GC))
    <3>1. CASE pc'[GC] = "wstatus"
      <4>1. CellOf(Pos(GC))' = Final(GC)'
        BY <1>0, <2>0, <2>1, <3>1, CellsAfter DEF Writing
      <4>2. Slot(GC)'.key = Slot(GC).key /\ Both(Slot(GC))' = Both(Slot(GC))
        BY <2>1, <2>3, <3>1 DEF Cells, Both
      <4> QED
        BY <2>3, <2>4, <4>1, <4>2 DEF Final
    <3>2. CASE pc'[GC] = "release"
      <4>1. CellOf(Pos(GC))' = Shown(Slot(GC)')
        BY <1>0, <2>0, <2>1, <3>2, CellsAfter DEF Writing
      <4>2. /\ Slot(GC)'.key = Slot(GC).key /\ Both(Slot(GC)') = Both(Slot(GC))
            /\ Slot(GC)'.TTL = NewTTL(GC) /\ Slot(GC)'.status = NewStatus(GC)
        BY <2>1, <2>3, <3>2 DEF Cells, Ready, Swept, Both
      <4> QED
        BY <2>3, <4>1, <4>2 DEF Final, Shown
    <3> QED
      BY <2>1, <3>1, <3>2
  <2>6. Table' = Table
    BY <1>0, <2>1, <2>5, TableChanged
  <2> QED
    BY <1>1, <2>1, <2>2, <2>6 DEF Atomic!vars
<1>3. CASE pc[GC] \notin Writing
  <2>1. Lock(GC) \/ ReadEntry(GC) \/ ReleaseGC \/ WakeUp
    BY <1>0, <1>3 DEF Steps, CollectorStep, WriteTTL, WriteStatus, Writing
  <2>2. pc'[GC] \notin Writing /\ req' = req
    BY <1>0, <2>1 DEF Lock, ReadEntry, ReleaseGC, WakeUp, Goto, Writing, Ready, Base, TypeOK
  <2>3. Table' = Table
    BY <1>0, <1>3, <2>2, TableSame
  <2>4. Sweep' = Sweep
    <3>1. CASE ~ ReleaseGC
      <4>1. pc[GC] # "release" /\ pc'[GC] # "release" /\ idx' = idx
        BY <1>0, <2>1, <3>1 DEF Lock, ReadEntry, WakeUp, Goto, Ready, Base, TypeOK
      <4> QED
        BY <1>3, <2>2, <4>1 DEF Sweep
    <3>2. CASE ReleaseGC
      <4>1. /\ pc[GC] = "release" /\ pc'[GC] # "release"
            /\ idx'[GC] = IF idx[GC] = N - 1 THEN 0 ELSE idx[GC] + 1
        BY <1>0, <3>2 DEF ReleaseGC, LastProbe, Goto, Ready, Base, TypeOK
      <4> QED
        BY <1>0, <2>2, <4>1, SweepNext DEF Sweep
    <3> QED
      BY <3>1, <3>2
  <2> QED
    BY <1>1, <2>2, <2>3, <2>4 DEF Atomic!vars
<1> QED
  BY <1>2, <1>3

LEMMA StepRefines ==
  ASSUME Ready, Ready', NEW p \in Procs, Steps(p) PROVE AtomicStep
<1>1. CASE p = GC
  <2>1. CASE MatchGC
    BY <2>1, VisitStep DEF AtomicStep, Atomic!Next
  <2>2. CASE ~ MatchGC
    BY <1>1, <2>2, SweepStep DEF AtomicStep
  <2> QED
    BY <2>1, <2>2
<1>2. CASE p \in Workers
  <2>1. ASSUME NEW r \in Requests, Request(p, r) PROVE AtomicStep
    BY <1>2, <2>1, AskStep DEF AtomicStep, Atomic!Next
  <2>2. CASE Lock(p) \/ ReadEntry(p)
    BY <1>2, <2>2, WaitStep DEF AtomicStep
  <2>3. CASE MatchGet(p) \/ MatchSet(p)
    <3>1. pc'[p] \in {"copylo", "release", "wkey"}
      BY <2>3 DEF MatchGet, MatchSet, Goto, Ready, Base, TypeOK
    <3>2. pc'[p] = "copylo" => MatchGet(p)
      BY <2>3 DEF MatchSet, Goto, Ready, Base, TypeOK
    <3>3. pc'[p] = "wkey" => MatchSet(p)
      BY <2>3 DEF MatchGet, Goto, Ready, Base, TypeOK
    <3> QED
      BY <1>2, <2>3, <3>1, <3>2, <3>3, PassStep, FetchStep, StoreStep DEF AtomicStep, Atomic!Next
  <2>4. CASE CopyValue(p)
    BY <1>2, <2>4, CopyStep DEF AtomicStep
  <2>5. CASE pc[p] \in Writing /\ pc'[p] # "dead"
    BY <1>2, <2>5, WriteStep DEF AtomicStep
  <2>6. CASE Return(p) \/ Release(p)
    BY <1>2, <2>6, ReturnStep, ReleaseStep DEF AtomicStep
  <2>7. CASE Deliver(p)
    BY <1>2, <2>7, DoneStep DEF AtomicStep, Atomic!Next
  <2>8. CASE Crash(p)
    BY <1>2, <2>8, DieStep DEF AtomicStep, Atomic!Next
  <2> QED
    BY <1>2, <2>1, <2>2, <2>3, <2>4, <2>5, <2>6, <2>7, <2>8
    DEF Steps, WorkerStep, CollectorStep, WriteKey, WriteValue, WriteTTL, WriteStatus, Writing,
        Goto, Ready, Base, TypeOK
<1> QED
  BY <1>1, <1>2 DEF Procs

\* For every hash function, any number of workers, slots and keys and through
\* every kill: without crossed probes, every access to the region is a visit of
\* one cell in one step, or part of one that is over or still to come.
THEOREM CacheImplementsCells == UncrossedSpec => ImplementsAtomicCells
<1>1. Init => Ready
  BY InitReady
<1>2. Ready /\ CellAtomic' /\ [Next]_vars => Ready'
  BY ReadyStep
<1>3. Ready /\ Ready' /\ [Next]_vars => [Atomic!Next]_(Atomic!vars)
  <2> SUFFICES ASSUME Ready, Ready', [Next]_vars PROVE Atomic!Next \/ UNCHANGED Atomic!vars
    OBVIOUS
  <2>1. CASE UNCHANGED vars
    BY <2>1
    DEF vars, Atomic!vars, Table, States, Ats, Answers, Sweep, CellOf, StateOf, AtOf, AnswerOf,
        WriterOf, Final, Found, Failed, LastProbe, SearchEnds, Slot, Pos, NewTTL, NewStatus, Both,
        OwnDatum
  <2>2. ASSUME NEW p \in Procs, Steps(p) PROVE Atomic!Next \/ UNCHANGED Atomic!vars
    BY <2>2, StepRefines DEF AtomicStep
  <2> QED
    BY <2>1, <2>2, StepOf
<1> QED
  BY <1>1, <1>2, <1>3, InitRefines, UncrossedIs, PTL DEF Spec, ImplementsAtomicCells, Atomic!Spec
================================================================================
