------------------------- MODULE SharedCacheRefinement -------------------------
(***************************************************************************)
(* SharedCache implements AtomicCells, kills included, as long as no two   *)
(* processes cross in a slot by probes of different numbers.  A visit of a *)
(* slot takes effect when its holder has decided: from then on the slot    *)
(* shows what the holder will have written when it leaves, until the       *)
(* holder is killed and the slot shows what it has left there.             *)
(***************************************************************************)
EXTENDS SharedCache

\* What slot s will hold when the process writing it is done.
Both(x) == <<x.lo, x.hi>>
OwnDatum(w) == <<req[w].key, req[w].val>>
Final(p) ==
  IF p = GC
    THEN [key |-> Slot(p).key, val |-> Both(Slot(p)), TTL |-> NewTTL(p), status |-> NewStatus(p)]
    ELSE [key |-> req[p].key, val |-> <<OwnDatum(p), OwnDatum(p)>>,
          TTL |-> NewTTL(p), status |-> NewStatus(p)]

WriterOf(s) == {p \in Procs : pc[p] \in Writing /\ Pos(p) = s}

\* A get that found its key, and a set that is done with its slot.
Found(w) == pc[w] \in Copying \cup Writing \cup {"return"}
Failed(w) == pc[w] = "release" /\ (LastProbe(w) \/ SearchEnds(w))

\* What AtomicCells sees of the table, the workers and the collector.
CellOf(s) ==
  IF WriterOf(s) # {} THEN Final(CHOOSE p \in WriterOf(s) : TRUE)
  ELSE [key |-> data[s].key, val |-> Both(data[s]),
        TTL |-> data[s].TTL, status |-> data[s].status]
StateOf(w) ==
  IF pc[w] \in {"idle", "dead"} THEN pc[w]
  ELSE IF pc[w] = "done" \/ Found(w) \/ Failed(w) THEN "answered"
  ELSE "probing"
AtOf(w) == IF pc[w] = "release" /\ ~Failed(w) THEN idx[w] + 1 ELSE idx[w]
AnswerOf(w) ==
  [code |-> IF Failed(w) THEN IF req[w].op = "get" THEN "NO_SUCH_KEY" ELSE "NO_FREE_SPACE"
            ELSE IF Found(w) THEN "OK" ELSE reply[w].code,
   val |-> IF pc[w] \in Copying THEN Both(Slot(w)) ELSE Both(reply[w])]

Table == [s \in Slots |-> CellOf(s)]
States == [w \in Workers |-> StateOf(w)]
Ats == [w \in Workers |-> AtOf(w)]
Answers == [w \in Workers |-> AnswerOf(w)]
Sweep == IF pc[GC] \in Writing \cup {"release"} THEN (idx[GC] + 1) % N ELSE idx[GC]

Atomic == INSTANCE AtomicCells WITH
  TTLs <- 0 .. MaxTTL,
  cell <- Table, state <- States, at <- Ats, answer <- Answers, sweep <- Sweep

\* The steps on the region add up to indivisible visits of cells: no torn
\* value is answered unless a killed set left it, no update of the collector
\* is lost or undone.
ImplementsAtomicCells == Atomic!Spec
================================================================================
